SPECIFICATION Spec
CONSTANTS
    IntMax = 15
    Client = 0
    Ranks = {1, 2, 3, 4}
    Groups <- TwoByTwo
    Producers <- FirstOfTwo
    Elems = {3}
    ElemSize = 2
    MaxVectors = 2
INVARIANT PrefetchedIsTheVector
CHECK_DEADLOCK FALSE
