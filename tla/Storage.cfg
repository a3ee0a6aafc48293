\* Every argument of an 8-bit size_t, on lines of 16 bytes.
SPECIFICATION Spec
CONSTANTS
    SizeBits = 8
    cacheLineSize = 16
    ElementSizes = {1, 3, 8, 20}
INVARIANTS
    TypeOK
    SlotsAreAllocated
    ExclusionZone
    FreedAsAllocated
    NoFalseSharing
CHECK_DEADLOCK FALSE
