SPECIFICATION Spec
CONSTANTS
    Rows = {r1}
    Cursors = {}
    Tables = {}
    Closed = Closed
    Doomed = Doomed
    Hosted = FALSE
    DisableTryWrites = FALSE
    ScopeKinds = {"run","value"}
    FaultKinds = {"commit"}
    MaxFaults = 1
    MaxFrames = 2
    MaxIssued = 4
    MaxTries = 0
    MaxCollected = 0
    MaxEpoch = 3
SYMMETRY NameSymmetry
PROPERTIES FailedRunRestoresEntry
CHECK_DEADLOCK FALSE
