\* The slack slot is used.
SPECIFICATION Spec
CONSTANTS
    CursorBits = 4
    MaxSlots = 3
    ItemCount = 4
INVARIANTS
    HoldsCapacity
CHECK_DEADLOCK FALSE
