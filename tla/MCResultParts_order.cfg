SPECIFICATION Spec
CONSTANTS
    IntMax = 15
    Client = 0
    Ranks = {1, 2}
    Groups <- OneActor
    N = 4
    MaxVectors = 2
    PartsPerProc = 2
    LastFirst = TRUE
    Misdeclared = {0}
INVARIANT ReadsAreRight
CHECK_DEADLOCK FALSE
