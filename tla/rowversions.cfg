SPECIFICATION FairSpec
CONSTANTS
    Sessions = {s1, s2}
    NoSession = NoSession
    MaxValue = 3
    MaxLevel = 2
    MaxFaults = 1
PROPERTIES NoRowAppearsBelow MinimumNeverFalls EveryoneIsServed
CHECK_DEADLOCK FALSE
