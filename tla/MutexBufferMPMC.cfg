\* Three producers, two consumers using try_pop, capacity 2.
SPECIFICATION Spec
CONSTANTS
    Producers = {p1, p2, p3}
    Consumers = {c1, c2}
    Owner = owner
    Closers = {owner}
    ConsumerApi = "try_pop"
    Free = free
    BufferSize = 2
    ItemCount = 5
    ThrowLimit = 1
INVARIANTS
    TypeOK
    RingHoldsQueue
    NoLostWakeup
    NoElementLeaks
CHECK_DEADLOCK FALSE
