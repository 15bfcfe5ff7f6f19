SPECIFICATION Spec
CONSTANTS
    Rows = {r1}
    Cursors = {}
    Tables = {}
    Closed = Closed
    Doomed = Doomed
    Hosted = FALSE
    DisableTryWrites = FALSE
    ScopeKinds = {"run"}
    FaultKinds = {"lost"}
    MaxFaults = 1
    MaxFrames = 1
    MaxIssued = 2
    MaxTries = 1
    MaxCollected = 0
    MaxEpoch = 3
SYMMETRY NameSymmetry
PROPERTIES ReturnedCommitIsDurable
CHECK_DEADLOCK FALSE
