\* The last element is pushed between the final try_pop and closed().
SPECIFICATION StressSpec
CONSTANTS
    Producers = {p1}
    Consumers = {c1}
    Owner = owner
    Closers = {owner}
    ConsumerApi = "try_pop"
    Free = free
    BufferSize = 1
    ItemCount = 1
    ThrowLimit = 0
INVARIANTS
    EveryElementConsumed
