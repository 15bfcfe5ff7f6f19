SPECIFICATION Spec
CONSTANTS
    Rows = {r1, r2}
    Cursors = {}
    Tables = {}
    Closed = Closed
    Doomed = Doomed
    Hosted = FALSE
    DisableTryWrites = FALSE
    ScopeKinds = {"run", "value", "assert", "test"}
    FaultKinds = {"statement", "lost"}
    MaxFaults = 2
    MaxFrames = 2
    MaxIssued = 4
    MaxTries = 1
    MaxCollected = 0
    MaxEpoch = 3
SYMMETRY NameSymmetry
INVARIANTS RunStartsClean
PROPERTIES FailedRunRestoresEntry IsolationHolds ImplementsPromise
CHECK_DEADLOCK FALSE
