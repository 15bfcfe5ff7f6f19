SPECIFICATION FairSpec
CONSTANTS
    Pages = {p1, p2}
    Calls = {k1, k2, k3}
    Suffixes = {n1}
    Bodies = {b1, b2}
    None = None
    Opening = Opening
    MaxContexts = 1
    Capacity = 1
    NumWorkers = 1
    MaxReceipts = 2
    MaxRevision = 2
    MaxCommits = 1
    MaxFaults = 2
INVARIANTS NobodySeesUncommitted OneCallPerWindow AnswersAreDurable
PROPERTIES ImplementsOutcomes EveryCallEnds
