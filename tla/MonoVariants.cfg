\* The arrays of all sizes up to 4: those of 1, 2 and 4 slots divide the 8
\* values of the cursors, which overflow after 8 pushes.
SPECIFICATION VariantsSpec
CONSTANTS
    CursorBits = 3
    MaxSlots = 4
    ItemCount = 10
INVARIANTS
    IInv
    CircularArithmetic
    HoldsSlots
    NoElementLeaks
PROPERTIES
    ImplementsFifo
    IterationEnds
CHECK_DEADLOCK FALSE
