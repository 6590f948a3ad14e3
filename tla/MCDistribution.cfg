SPECIFICATION Spec
CONSTANTS
    IntMax = 15
    MaxElems = 6
    MaxProcs = 4
    MaxParts = 3
INVARIANTS
    RangesTile
    PiecesFillTheBuffer
    GatheredInOrder
    ProcessesGivenOnce
CHECK_DEADLOCK FALSE
