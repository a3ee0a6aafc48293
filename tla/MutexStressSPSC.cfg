\* SPSCBehaviourStressTest (the owner closes) and BM_MutexBuffer (p1 closes).
SPECIFICATION StressSpec
CONSTANTS
    Producers = {p1}
    Consumers = {c1}
    Owner = owner
    Closers = {owner, p1}
    ConsumerApi = "front_pop"
    Free = free
    BufferSize = 2
    ItemCount = 5
    ThrowLimit = 0
INVARIANTS
    ConsumersLeaveLast
PROPERTIES
    Terminates
