\* The single-producer single-consumer contract; constructors may throw.
SPECIFICATION Spec
CONSTANTS
    Producers = {p1}
    Consumers = {c1}
    Owner = owner
    Closers = {owner, p1}
    ConsumerApi = "front_pop"
    Free = free
    BufferSize = 2
    ItemCount = 5
    ThrowLimit = 2
INVARIANTS
    IInv
    PointerStaysValid
PROPERTIES
    ImplementsFifo
CHECK_DEADLOCK FALSE
