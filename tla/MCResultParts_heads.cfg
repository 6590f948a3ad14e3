SPECIFICATION Spec
CONSTANTS
    IntMax = 15
    Client = 0
    Ranks = {1, 2, 3}
    Groups <- ActorsInTurn
    N = 2
    MaxVectors = 2
    PartsPerProc = 1
    LastFirst = FALSE
    Misdeclared = {0}
INVARIANT KeysAreFree
CHECK_DEADLOCK FALSE
