SPECIFICATION Spec
CONSTANTS
    Sessions = {s1, s2}
    NoSession = NoSession
    MinValue = 0
    MaxValue = 2
    Seeds = {0}
    Increments = {1}
    Counts = {1}
    CancelPoints = {"unlock"}
    MaxLevel = 1
    MaxCalls = 2
    MaxFaults = 1
SYMMETRY SessionSymmetry
INVARIANTS NoLockLeft
