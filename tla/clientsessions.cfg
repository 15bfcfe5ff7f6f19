SPECIFICATION FairSpec
CONSTANTS
    Requests = {r1, r2}
    Browsers = {b1, b2, b3}
    Existing = {b1}
    None = None
    Limit = 1
    Idle = 2
    Lifetime = 3
    SourceEnds = 4
    MaxTime = 3
    MaxPauses = 1
    MaxChanges = 1
INVARIANTS AdmissionIsLimited OnlyRenewalsDeadlock
PROPERTIES CommitsAreAuthorised RotationReplaces RevocationIsFinal EveryRequestEnds
CHECK_DEADLOCK FALSE
