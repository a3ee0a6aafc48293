\* Every driver, release build, up to two iterations on a buffer of two.
SPECIFICATION BenchSpec
CONSTANTS
    BufferSize = 2
    ItemCount = 4
    CloseLimit = 1
    Variants <- ReleaseBuilds
    MaxIterations = 2
INVARIANTS
    ReportedItemsTransferred
    BenchInv
PROPERTIES
    Completes
    PushReturns
    ElementsFlow
