SPECIFICATION Spec
CONSTANTS
    Rows = {r1}
    Cursors = {c1}
    Tables = {t1}
    Closed = Closed
    Doomed = Doomed
    Hosted = TRUE
    DisableTryWrites = TRUE
    ScopeKinds = {"run", "value", "assert", "test"}
    FaultKinds = {"statement", "commit", "lost"}
    MaxFaults = 1
    MaxFrames = 3
    MaxIssued = 4
    MaxTries = 1
    MaxCollected = 1
    MaxEpoch = 2
INVARIANTS SavepointsMatch CurrentCursorExists
PROPERTIES KeptCommandIsDurable LiveCommitIsDurable
CHECK_DEADLOCK FALSE
