SPECIFICATION Spec
CONSTANTS
    Sessions = {s1, s2}
    NoSession = NoSession
    Keys = {k1, k2}
    Buffers = {b1, b2, b3}
    Clerk = s2
    Own = b3
    Variables <- MCVariables
    FirstVersion = 1
    MaxVersion = 3
    MaxLevel <- MCMaxLevel
SYMMETRY NameSymmetry
PROPERTIES VersionsDecide
CHECK_DEADLOCK FALSE
