SPECIFICATION ExampleSpec
CONSTANTS
    BufferSize = 2
    ItemCount = 2
    CloseLimit = 1
    Variants <- DebugSPSCBuffer
INVARIANTS
    EveryElementConsumed
