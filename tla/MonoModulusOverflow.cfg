\* Three slots do not divide the 8 values of the cursors.
SPECIFICATION OverflowSpec
CONSTANTS
    CursorBits = 3
    MaxSlots = 3
    ItemCount = 10
INVARIANTS
    CircularArithmetic
CHECK_DEADLOCK FALSE
