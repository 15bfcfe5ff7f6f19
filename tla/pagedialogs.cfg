SPECIFICATION FairSpec
CONSTANTS
    Requests = {r1, r2}
    Questions = {q1}
    Choices = {yes, no}
    Suffixes = {s1, s2}
    Bodies = {ok, step}
    Closing = {ok}
    None = None
    MaxModals = 2
    Budget = 3
    Depth = 2
    MaxFaults = 1
INVARIANTS TypeOK AnswersAgree OneCommandPerRendering ReceiptsAreTrue
    ToldOutcomesAreStored NothingStaysQueued
PROPERTIES CallEnds
CHECK_DEADLOCK FALSE
