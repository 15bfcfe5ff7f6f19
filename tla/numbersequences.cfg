SPECIFICATION FairSpec
CONSTANTS
    Sessions = {s1, s2}
    NoSession = NoSession
    MinValue = 0
    MaxValue = 1
    Seeds = {1}
    Increments <- DownwardSteps
    Counts = {1, 2}
    CancelPoints = {"identity", "own"}
    MaxLevel = 2
    MaxCalls = 4
    MaxFaults = 1
INVARIANTS TypeOK GivenInOrder NoLockLeft NumbersStayCurrent
PROPERTIES EveryCallIsServed
CHECK_DEADLOCK FALSE
