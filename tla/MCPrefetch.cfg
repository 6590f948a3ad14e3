SPECIFICATION FairSpec
CONSTANTS
    IntMax = 15
    Client = 0
    Ranks = {1, 2, 3, 4}
    Groups <- TwoByTwo
    Producers <- FirstOfTwo
    Elems = {2, 3}
    ElemSize = 2
    MaxVectors = 3
INVARIANTS
    PrefetchedAlikeIsTheVector
    PartsArePrepared
    DataIsThere
PROPERTIES
    PrefetchCompletes
CHECK_DEADLOCK FALSE
