\* All classes in both builds, capacity 2: the cursors wrap once or twice.
SPECIFICATION Spec
CONSTANTS
    BufferSize = 2
    ItemCount = 5
    CloseLimit = 2
    Variants <- AllBuilds
INVARIANTS
    TypeOK
    NoDataRace
    ConstructsInRawStorage
    FrontIsOldest
    AssertNeverFires
    NoElementLeaks
    IInv
PROPERTIES
    RefusesOnlyWhenFull
    EmptyOnlyWhenDrained
    ExactWhenSeqCst
    ImplementsFifo
CHECK_DEADLOCK FALSE
