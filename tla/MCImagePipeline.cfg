SPECIFICATION Spec
CONSTANTS
    IntMax = 63
    NImages = 2
    Contents = {1, 2, 3}
    Byte <- PatternByte
    Width = 3
    Height = 3
    HeaderBytes = 5
    OutHeaderBytes = 1
    CompressWidth = 2
    CompressHeight = 2
    HashSize = 5
    HashRange <- SumHash
    Programs <- SmallPrograms
INVARIANTS
    LoadedIsStored
    CompressedIsRight
    SavedOnce
CHECK_DEADLOCK FALSE
