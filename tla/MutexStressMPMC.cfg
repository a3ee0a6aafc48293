\* MPMCBehaviourStressTest: three producers compete for one slot.
SPECIFICATION StressSpec
CONSTANTS
    Producers = {p1, p2, p3}
    Consumers = {c1, c2}
    Owner = owner
    Closers = {owner}
    ConsumerApi = "try_pop"
    Free = free
    BufferSize = 1
    ItemCount = 6
    ThrowLimit = 0
INVARIANTS
    StressIInv
PROPERTIES
    Terminates
