# Verification of the ring buffers

TLA+ models of the header-only C++20 ring buffers under `include/ringbuffers/`:
the lock-free `SPSCBuffer`, the `MutexBuffer` it is compared with, and the
fourteen variants of the optimization study. TLC checks them on small
instances. TLAPS proves their safety properties, and that each of them is the same
bounded FIFO queue, for every capacity, any number of elements and threads, every
width of `std::size_t` and of a cache line, and every variant.

## 1. The system

| Component | State | Operations | What is hard about it |
|---|---|---|---|
| `SPSCBuffer.hpp` | `pushCursor_`, `popCursor_`, `closed_` (atomics); a cache of the other's cursor per thread; the slots | producer: `emplace`, `try_emplace`, `push`, `try_push`, `close`; consumer: `front`, `pop`, `closed`; owner: constructor, destructor, `capacity` | two threads and no lock; relaxed, acquire and release accesses; caches that are stale by design; an assert that is itself an acquire load; throwing constructors |
| `MutexBuffer.hpp` | slots, `count_`, two cursors, `closed_` under `mutex_`; `cvFull_` | the same and `try_pop` for several consumers | `notify_one` after unlocking, overtaking, spurious wake-ups; `front` hands a pointer out of the lock |
| `variants/SPSCBufferBaseline.hpp`, `isolated/`, `staged/` | as SPSCBuffer, each with some of its features | as SPSCBuffer | seq_cst or acquire/release, cached or not, modulus or branch |
| `isolated/SPSCBufferMonoModulus.hpp`, `SPSCBufferMonoBitmask.hpp` | cursors that count through all of `std::size_t` | as SPSCBuffer | unsigned overflow of the cursors, reduction to a slot |
| `examples/SPSCBufferExample.cpp`, `tests/stress/` | loops of threads around one buffer | push all, close, join; pop until empty and closed | two separate reads decide termination |
| `bench/` (16 drivers) | a new buffer and two threads per iteration, the number of items reported | the loop of the example, then `SetItemsProcessed` | the same two reads; items are reported that the consumer never got |
| constructors and destructors, `alignas` | `capacity_`, the allocation, the offset of slot 0, the members' places | allocate with slack and padding, give back | unsigned overflow of sizes, `std::bit_ceil`, rounding the padding up |
| `bench/scripts/`, results, CMake, unit tests | none that is shared | | not modelled |

Producer and consumer only interact through the three atomics and the slots
(lock-free buffers) or through the mutex and the condition variable. The owner
interacts through joining the threads before it destroys the buffer.

What makes each component correct: no access to a slot races with another; an
element is built only in a raw slot and read or destroyed only while alive, in
FIFO order; a refused push or a null `front` is justified by what the caller
may have seen; no push, pop or wait lasts for ever when the other side works;
destruction destroys exactly what is left. `PROJECT.json` lists, under
`hazards`, where in the code each of these could go wrong.

## 2. Modules

| Module | Models | Remarks |
|---|---|---|
| `AcquireRelease` | the part of the C++ memory model in use (external to the repository) | an atomic is its modification order; loads may return old messages |
| `CursorArithmetic` | `% capacity_`, the wrapping branch; the elements between two counts as a queue | pure operators |
| `SPSCBuffer` | `SPSCBuffer.hpp`, and by `Cached`, `SeqCst`, `BranchWrap` the variants with wrapping cursors | one action per access to shared memory; the class of the object is chosen in `Init` |
| `SPSCBufferSafety` | its properties, the mapping to `BoundedFifo`, the inductive invariant | |
| `BoundedFifo` | the abstract specification of what a buffer promises | no cursors, no caches; the capacity is chosen in `Init` and never changes: `capacity()`, in the monotonic classes the slots of the object's own array |
| `SPSCClasses` | which optimizations each of the thirteen classes has, and which of them change what the threads can observe | a record per class |
| `SPSCExample` | example program, SPSC stress test | composes with `SPSCBuffer`; adds fairness |
| `SPSCBenchmarks` | the thirteen benchmark drivers of these classes | runs `SPSCExample` once per iteration, on the class's own object |
| `MutexBuffer`, `MutexBufferSafety` | `MutexBuffer.hpp` and its properties, the inductive invariant, the mapping to `BoundedFifo` | any number of threads |
| `MutexStress` | both programs of `MutexBufferStressTest.cpp`, and the benchmark driver | composes with `MutexBuffer`; adds fairness |
| `MonoBuffer`, `MonoBufferSafety` | the two variants with monotonic cursors, their properties, inductive invariant and mapping to `BoundedFifo` | cursors of parametric width; the object is chosen in `Init` |
| `MonoVariants` | free use of these classes, and the two benchmark drivers | one run for all; adds fairness |
| `Storage`, `StorageSafety` | sizes, allocation, padding and alignment of all sixteen classes | no concurrency |
| `CursorArithmeticProofs`, `SPSCBufferProofs`, `SPSCBufferRefinement`, `SPSCProgramsProofs`, `MutexBufferProofs`, `MutexStressProofs`, `MonoBufferProofs`, `StorageProofs` | theorems | section 5 |

### How the lock-free model corresponds to the code

`pushCursor_`, `popCursor_` and `closed_` are sequences of messages: all values
ever stored, oldest first, each with the view its release store publishes. Each
has one writer, which therefore always loads the latest value. The other thread
may load any message not older than the one it knows to exist (coherence); an
acquire load joins the message's view. A view counts the slot accesses of the
other thread that happen before; `NoDataRace` compares this count with who
touched the slot last. With `SeqCst` every load returns the latest message:
the classes concerned use `memory_order_seq_cst` for all their accesses.

`variant` says of which class the object is, by the three optimizations that threads
can observe, and whether it was built with `NDEBUG`; no action changes it. `Variants` are
the classes and builds it may be of: `AllBuilds` of the thirteen classes, which have six
behaviours, their `ReleaseBuilds`, or `DebugSPSCBuffer`.

`emplace` is `Emplace` (relaxed load, first test of the cache), `EmplaceRefresh`
once per iteration of the loop, `Construct` or `ConstructThrows`, and
`PublishPush`. `try_emplace` is `TryEmplace`, at most one `TryEmplaceRefresh`,
then the same. `front` is `Front`, which answers from the cache, or `Front` and
`FrontRefresh`. `pop` is `Pop`, `PopAssert` unless `NDEBUG`, `PopDestroy` and
`PublishPop`. The program counters `prod.pc` and `cons.pc` are positions in
these operations. Without `Cached` no test looks at the cache, so that every
operation loads, and the field holds the local variable of the load.

Elements are numbers in the order of construction. `lastDestroy`, `hb` views,
and in the other modules `pushed`, `popped`, `sealed`, `sawClosed` are history:
no action of the code depends on them.

The users keep the documented contract: `pop` only after a `front` that was not
null (`SPSCBuffer.hpp:136`), one producer thread that also closes, one consumer
thread. In `MutexBuffer`, `front` and `pop` are only used with a single
consumer (`MutexBuffer.hpp:96`, `:134`), which is part of its assumption.

### How the mutex model corresponds to the code

A thread in an operation is at `enter` (asking for the mutex), `inside`, `notify`
(unlocked, `notify_one` to come), `asleep` or `woken`. A critical section is one
step that also releases the mutex; nothing inside can be observed. Releasing
and falling asleep is one step, as `condition_variable::wait` guarantees. A
woken thread has to get the mutex and tests the predicate again. `notify_one`
wakes any one sleeper. An exception leaves the critical section without effect
(`Leave`, and `thrown` counts it) and uses up the notification that woke the
thread, if one did.

`MutexStress` lets the owner close the buffer after joining the producers (the
tests) or a producer after its own loop (`bench/MutexBufferBench.cpp`);
`closer` says which program is running.

### How the monotonic model corresponds to the code

All accesses are seq_cst and there are no caches, so an atomic is its value. An
emplace that spins or a try_emplace that refuses does not change the state:
`FindRoom` is the load that finds room, and `BeginPush` and `BeginPushBeyond` say how
many elements are pushed. Cursors are reduced by `2 ^ CursorBits`
where the code has 64 bits; `capacity_` slots, `c % capacity_` in both classes
since `c & (2^k - 1)` is `c % 2^k`. `class` and `capacity_` say which object was
constructed; no step changes them. An array has as many slots as the constructors
of the two classes can allocate, `n + 1` and `bit_ceil(n)`, up to `MaxSlots`. In
`MonoVariants` the threads either call anything (`AnyUse`) or run one iteration of
the driver of the object's class.

### How the benchmark drivers correspond to the code

The drivers are sixteen copies of one file that differ in the class. One
operator, `Driver`, stands for thirteen of them, each on an object of its own class. An iteration is a run of `SPSCExample` on a
new buffer; `NextIteration` is the next turn of `for (auto _ : state)`, `Report`
is the code behind that loop. The benchmark library (external) decides when to
stop. `transferred` is history: it counts what consumer threads popped, not what a
destructor destroyed. Time, `PauseTiming` and the bytes per item are left out. The
build is a release build, so the assert of `pop` is not there.

### How the storage model corresponds to the code

`SizeBits` replaces 64 and all sums are reduced by `2 ^ SizeBits`. `RejectSize`,
`SizeRing`, `Allocate` and `AllocateThrows` are the constructor in its order,
`Deallocate` the end of the destructor, which computes the number of elements
again. `std::allocator` (external) throws when there are not so many bytes, and may
throw at any time. `std::bit_ceil` of a value whose power of two does not fit is
undefined, so that any capacity may come out. `Offsets` lays the members
out in the order of their declarations, 8 bytes each; `closed_` is smaller, but is
always the last.

## 3. Runs

Each takes about a minute or less. `CHECK_DEADLOCK FALSE` is set where the environment
may stop calling operations or the buffer has been freed.

| Run | Question | Bounds and why they are enough |
|---|---|---|
| `SPSCBuffers` | Are the lock-free buffer and its variants free of races, overwrites and unjustified answers, and the same FIFO queue, and which answers are exact? | all six behaviours of the classes, each in a debug and a release build; capacity 2 (three slots), 5 elements: both cursors wrap, the buffer is full and empty at every offset; `close()` twice, so that a stale `closed()` exists |
| `SPSCBenchmarks` | In every driver: do pushes return and elements flow without the help of `close()`, does the driver report with it, how many of the reported items can be missing, and does the invariant of the proof hold? | 4 elements on capacity 2, so that the producer spins and the consumer starves; up to two iterations, the second on a buffer constructed anew; all six behaviours of the classes |
| `SPSCExampleLoss` | Does the consumer consume everything? (No.) | 2 elements |
| `MutexBufferMPMC` | Is any wake-up lost, and does the ring hold the queue? | three producers, two consumers, capacity 2 and 5 elements: two producers can sleep beside a full buffer while the third overtakes the one that is woken; one exception |
| `MutexBufferSPSC` | Is the mutex buffer the same queue as the lock-free one, and does the invariant of its proof hold with `front` and `pop`? | 5 elements on 2 slots, up to two exceptions, `close()` by either side |
| `MutexStressMPMC`, `MutexStressSPSC` | Do the stress tests and the benchmark end, do their loops end in order, does every push take effect once, and can a consumer leave while a producer sleeps? | three producers with two elements each on one slot; one producer with five elements on two slots, closing itself or not |
| `MutexStressLoss` | Do the consumers consume everything? (No.) | one element |
| `MonoVariants` | Are monotonic cursors a FIFO queue, before and after their overflow, and do the drivers end? | every array of one to four slots; 10 elements on 3-bit cursors, which overflow at the eighth; on three slots, which do not divide the range, 8 elements (`ItemLimit`) |
| `Storage` | Which arguments get the storage they need, and what shares a cache line? | an 8-bit `std::size_t` with every argument, so that all sums overflow; lines of 16 bytes; elements of 1, 3, 8 and 20 bytes: dividing a line, not dividing it, and larger |
| `MonoModulusOverflow` | Does that last beyond the overflow if the slots do not divide the range? (No.) | three slots, 3-bit cursors, pushes up to 10 (`OverflowSpec`) |
| `MonoModulusCapacity` | Does it hold `capacity()` elements? (One more.) | 4 elements on three slots, 4-bit cursors |

Bounds: `ItemCount` limits the elements pushed, `CloseLimit` the calls of
`close()` (each adds a message), `ThrowLimit` the exceptions, `MaxIterations` the
iterations of a benchmark, `MaxSlots` the arrays; `CursorBits` and `SizeBits` replace 64.
`ItemLimit` ends the pushes of `Next` at the overflow of the cursors if the array has a
number of slots that does not divide their range; `OverflowSpec` goes on, and is the
subject of `MonoModulusOverflow` only. `Variants` and `Closers` are not
bounds: they name the classes and who may call `close()`.

### What the failing runs show

* **The last elements may not be consumed** (`SPSCExampleLoss`,
  `MutexStressLoss`). The consumers stop when `front()` or `try_pop()` found
  nothing and then `closed()` is true. Elements pushed between the two calls,
  before the close, stay behind; only the destructor destroys them.
  `EmptyOnlyWhenDrained` says what would be safe: a null `front()` *after*
  `closed()` has returned true means that nothing pushed before the close is
  left. The tests that count consumed elements (`SPSCBufferStressTest.cpp:65`,
  `MutexBufferStressTest.cpp:123`) can fail, rarely. The benchmark drivers end in
  the same way and report those items too, at most a buffer full for each
  iteration (`ReportedItemsTransferred`). How many elements stay behind is proved for
  every program (section 5): at most a full buffer.
* **`SPSCBufferMonoModulus` holds `capacity() + 1` elements**
  (`MonoModulusCapacity`): with monotonic cursors full and empty differ without
  a slack slot, but the constructor still adds one and `capacity()` subtracts it.
* **`SPSCBufferMonoModulus` breaks when its cursors overflow**
  (`MonoModulusOverflow`), unless the number of slots is a power of two:
  `pushCursor % capacity_` jumps, and an element is constructed over a live one. With 64
  bits this takes 2^64 pushes; the bitmask variant is not affected. The passing runs and
  the theorems stop at this point (`ItemLimit`), so they do not speak of it.

### Other observations

* If `T`'s constructor throws in a producer that a notification has woken, the
  notification is used up while the slot stays free: another producer may
  sleep beside a free slot until the next pop. `NoLostWakeup` states the
  limit: at most one wake-up is lost for each exception. No document promises more.
* `MutexBuffer::close` wakes nobody. `ConsumersLeaveLast` is why the programs of the
  repository do not suffer from it: no consumer stops popping before every push
  has returned. A program that closes earlier has no such guarantee.
* The constructors reject 0 and nothing else. An argument so large that adding the
  slack slot and the padding overflows is accepted by the classes with a slack slot, and
  if the few bytes asked for can be had, the object has too little storage (the second half of
  `SlotsAreAllocated`). The destructor still gives back what was allocated.
* `NoFalseSharing` is about what each thread writes all the time. `capacity_` and
  `closed_` follow the last cursor or cache without an alignment of their own: from
  `SPSCBufferStage4` on they share the line of `pushCursorCache_`, so that every push
  reads `capacity_` from a line the consumer writes when it refreshes its cache, although
  `README.md:81` says "each on their own cache line"; and `SPSCBufferCacheAlignment` does
  not align `closed_` although `README.md:92` says "each atomic member variable".

## 4. Fairness

`SPSCBenchmarks` (`SPSCExample` names the steps): each running thread takes its next
step (weak fairness), and a load repeated for ever does not return an overwritten message
for ever (strong fairness of the steps that see the latest message). The C++
standard asks implementations to make atomic stores visible in a finite time. The
library stops after some iteration (weak fairness of `Report`). That the
producer closes the buffer is not assumed: `Completes` states it as its premise, and
`PushReturns` and `ElementsFlow` hold without it.

`MonoVariants`: weak fairness of the two threads of a driver; all loads are seq_cst and
return the latest store. Threads in free use owe nothing.

`MutexStress`: weak fairness per thread, and strong fairness of acquiring the
mutex. The standard does not promise the latter of `std::mutex`, but the consumers
poll the mutex without a pause, so no termination claim could be made without
it. Spurious wake-ups are never assumed to happen: producers only rely on
notifications.

## 5. Proofs

TLAPS checks every theorem for all constants that the named assumptions allow:

| Assumption | What it admits |
|---|---|
| `SPSCAssumption` | any positive `BufferSize`, any bounds, any set of classes and builds, by their switches |
| `IterationsAssumption` | any number of iterations |
| `MutexAssumption` | any positive `BufferSize`, finite sets of producers and consumers of any size, any number of exceptions; one consumer if it uses `front` and `pop` (`MutexBuffer.hpp:96`, `:134`) |
| `CloserAssumption` | a producer closes the buffer itself only if it is the only one, as in the benchmark; else the owner does, as in the tests |
| `MonoAssumption` | any width of the cursors, any arrays that `std::size_t` can count. Its last conjunct names facts of arithmetic for the provers, which know nothing of powers |
| `StorageAssumption` | any width of `std::size_t`, a positive line size it can hold, any positive element sizes |

| Module | Proved |
|---|---|
| `CursorArithmeticProofs` | elements less than a ring apart have different slots, elements a ring apart the same; branch and modulus agree (`BranchNextIsModulusNext`); cursors that count modulo a range: their slots and their difference; `Elements` is a queue |
| `SPSCBufferProofs` | `Invariance` of `IInv`, and from it `TypeCorrect`, `RaceFreedom`, `NoOverwrite`, `FifoOrder`, `AssertHolds`, `DestructorDrains` |
| `SPSCBufferRefinement` | `RefusalIsJustified`, `EmptyIsJustified`, `SeqCstAnswersAreExact`; `Refinement`: it implements `BoundedFifo` |
| `SPSCProgramsProofs` | the example program is a client of the buffer (`ExampleIsAClient`) and misses a buffer full at most (`AtMostABufferIsMissed`); the drivers: `BenchInvariance` of `BenchInv`, and from it `ReportedWithinABuffer`, `EveryIterationIsSafe`, `IterationsAreExamples` |
| `MutexBufferProofs` | `MutexInvariance` of `IInv`, and from it `MutexTypeCorrect`, `RingInvariance`, `PointerInvariance`, `WakeupInvariance`, `MutexDestructorDrains`; `MutexRefinement`: with one consumer through `front` and `pop` it implements `BoundedFifo` |
| `MutexStressProofs` | the programs are clients of the buffer (`ProgramsAreClients`); `StressInvariance`, and from it `LeavingInvariance`, `AtMostABufferIsLeft` |
| `MonoBufferProofs` | `MonoInvariance` of `IInv`, and from it `CircularInvariance`, `SlotsSuffice`, `MonoDestructorDrains`; `MonoRefinement`: both classes implement `BoundedFifo` with the slots of their own array; the drivers are clients (`DriversAreClients`) and miss no more than the slots (`AtMostTheSlotsAreMissed`) |
| `StorageProofs` | `StorageInvariance`, and from it `SlotsInvariance`, `ExclusionZoneInvariance`, `FreedInvariance`, `StorageTypeOK`; `NoFalseSharingInvariance` |

Runs check the inductive invariants that go beyond the properties (`IInv`,
`StressIInv`, `BenchInv`) on small instances.

### The lock-free buffer

The safety properties are not inductive: they speak of slots, while the code
decides on cached cursors, which do not tell elements a ring apart from each
other. `IInv` therefore translates everything into element numbers. Position
`i` of a cursor's modification order holds the slot of element `i` and was
released after `i - 1` accesses (`CursorHistory`, `ClosedHistory`); each cache is
the slot of an element between what the thread has done and what it has seen
(`ProducerKnows`, `ConsumerKnows`), never more than a ring away, so that slots
identify elements again; exactly the elements constructed and not destroyed
are alive in their slots (`Contents`); nothing remains unseen after the joins
(`Joined`). Each action has a lemma; actions of one thread that only change its
own fields share `ProducerLocalStep` and `ConsumerLocalStep`. Sequential
consistency needs no proof of its own: it takes outcomes of loads away
(`LoadableIsReadable`).

In the refinement a push takes effect at its release store and a pop at its
own. The sequences of the mapping are handled by `ElementsPushPop`.

`AtMostABufferIsMissed` says how far `EveryElementConsumed` is from being true. The
loops end in order (`LoopsInOrder`): a `closed()` that is true has loaded a message
that only the producer's `close()` writes, after its last push; and by `IInv` no more
than `BufferSize` elements are in the buffer at any time.

`ReportedItemsTransferred` compares a number that is told at the end with what many
threads have done on as many buffers. `BenchInv` keeps the account: while the loops of an
iteration run, what the iterations before it have transferred (`PopsUntil`) stays as
it was; the joins settle an iteration, with a difference of at most a buffer by
`LoopsInOrder` and `IInv`; what the destructor pops does not count. A new iteration begins
in an initial state of the example, of the same class (`NextIterationStarts`), so that
every buffer satisfies `IInv`, whatever happened to the one before.

### The mutex buffer

`TypeOK` says that the mutex is held by the one thread inside. The other
properties leave out which operation a thread can be in at each place
(`Positions`), that an element lies in no slot but its own, so that the slot a pop
clears leaves no copy behind (`Contents`), and that a pointer belongs to a consumer
that uses `front` and `pop`, of which there is only one (`Pointers`).

`NoLostWakeup` counts: free slots against notifications on their way, woken producers
and exceptions. The sets differ by one thread at most in each step, and the lemmas
on how a step of one thread changes the numbers reduce every action to arithmetic. A pop adds a free slot and a
notification; a notification becomes a woken producer, or finds nobody asleep, in
which case nothing is claimed; a woken producer that pushes takes a slot with
it, one that sleeps again has found no free slot; one that throws is what `thrown`
counts. A producer falls asleep only when the buffer is full, so the claim is 0 at that
moment. This works for any number of threads because overtaking only takes free slots away.

In the refinement an operation takes effect in its critical section. `front`'s
result is the consumer's until its `pop` is inside the lock (`FrontShown`).

`StressIInv` is what the programs add: a consumer breaks only after the buffer is
closed, which is after every producer has pushed its share and, in the tests, been
joined (`LoopsInOrder`). And `PushesCounted`: the pushes begun, as pairs of a producer and
a number of its share, are as many as have taken effect or are under way. When a
consumer leaves they are all pairs and none is under way, which is the sum over the
producers that `AtMostABufferIsLeft` needs, without an induction over the set of
producers. The assumption on who closes is needed: of two producers the
first to end would close the buffer beneath the other.

### Monotonic cursors

`Cursors` says that each cursor is a count modulo `2 ^ CursorBits` and the two counts
are at most `capacity_` apart, which is less than the range: their wrapped difference is
then the number of elements (`DifferenceOfWrappedCursors`). The slot of a wrapped
cursor is that of its element if the slots divide the range
(`SlotOfWrappedCursor`), always the case in the bitmask class, or if the cursor has
not wrapped, which `ItemLimit` says of the others. `Tested` keeps what a thread has
found out until it acts on it: nobody else pushes, nobody else pops. `Ring` is
the ring of elements alive. The consumer's assertion never fires (`consAt #
"aborted"` in `Tested`).

### Storage

The storage properties speak of live and freed objects only; `StorageInv` adds what the
constructor has settled before: `capacity_` is one of `Capacities`, and `allocated`
and `deallocated` are the same wrapped sum. `PaddingCoversLine` (the quotient is rounded up)
and `LinesApart` give the exclusion zone for every address; `SizeTWraps`
shows that a sum that does not fit loses `2 ^ SizeBits` at least, and one padding is less than
that (`PaddingAtMostLine`), so that the last slots lie outside.

`NoFalseSharing`: whichever members a class has, all the producer writes is declared before
`popCursor_` and all the consumer writes is not (`MembersInOrder`); offsets increase
and that of `popCursor_` is the start of a line (`OffsetsIncrease`). Neither the caches'
alignment nor that of `pushCursor_` is needed for it.

### Only model-checked

* All liveness: `Completes`, `PushReturns`, `ElementsFlow`, `Terminates`,
  `IterationEnds`. Fairness and leads-to are beyond the prover.
* The violated properties; the theorems around them say how far they are off
  (`AtMostABufferIsMissed`, `AtMostABufferIsLeft`, `SlotsSuffice`, `CircularInvariance`).

## 6. What is not modelled

* Payloads; copy and move operations and the size of `T` beyond its storage;
  allocators other than `std::allocator`.
* The benchmarks' time and bytes per item.
* The unit tests: they are sequential and their assertions are instances of the
  refinements and of `SlotsAreAllocated` and `RejectSize`.
* The Python scripts, the plots, the recorded results and the build: they contain
  no state of the buffers.

## 7. Plan

Done, in this order: cursor arithmetic, memory model, `SPSCBuffer` with safety and
refinement, its programs with liveness, its proofs; `MutexBuffer` and its
programs; the variants; exceptions against notifications and the sleeper that
`close()` does not wake; the benchmark drivers; storage with its proofs; the proofs
of `MutexBuffer` and its programs, of the monotonic cursors and of the members' places;
the class of the lock-free buffer as a part of its state, and with it the proofs about
the benchmark drivers.

Left: the liveness properties, should the provers come to handle fairness and `ENABLED`.
A change of the code belongs first into the action that models the operation, then into the lemma
of that action; the invariants say what it must not break.
