SPECIFICATION FairSpec
CONSTANTS
    Requests = {r1, r2}
    Workers = {w1, w2}
    Queue = 1
    BodyBytes = 2
    TotalBytes = 3
    MaxChunk = 2
    None = None
INVARIANTS BudgetIsOwned SuspendedAreInWork HandledOnce
PROPERTIES RequestsEnd DestructorReturns
CHECK_DEADLOCK FALSE
