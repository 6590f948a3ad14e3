SPECIFICATION FairSpec
CONSTANTS
    IntMax = 15
    Client = 0
    Ranks = {1, 2, 3}
    Groups <- TwoActors
    N = 2
    MaxVectors = 2
    PartsPerProc = 1
    LastFirst = FALSE
    Misdeclared = {0, 1}
INVARIANTS
    ReadsAreRight
    KeysAreFree
    ReleasedAreThere
    NoUnexpectedData
PROPERTIES
    ReadsReturn
CHECK_DEADLOCK FALSE
