------------------------- MODULE MutexBufferProofs -------------------------
(***************************************************************************)
(* The safety of MutexBuffer, and its refinement of BoundedFifo, for every  *)
(* capacity, any finite sets of threads, and any number of elements and    *)
(* exceptions.                                                             *)
(***************************************************************************)
EXTENDS MutexBufferSafety, CursorArithmeticProofs, FiniteSetTheorems

-----------------------------------------------------------------------------
(* Counting threads.                                                       *)

LEMMA Constants ==
    /\ capacity_ \in Nat \ {0}
    /\ IsFiniteSet(Threads) /\ Free \notin Threads
    /\ Producers \cap Consumers = {} /\ Owner \notin Producers /\ Owner \notin Consumers
<1>1. IsFiniteSet(Producers \cup Consumers)
  BY MutexAssumption, FS_Union
<1>2. IsFiniteSet(Threads)
  BY <1>1, FS_AddElement DEF Threads
<1> QED
  BY <1>2, MutexAssumption DEF capacity_, Threads

\* 1 for a fact that holds, to count with.
Ind(b) == IF b THEN 1 ELSE 0

\* Sets that differ in at most one element.
LEMMA OneElementApart ==
    ASSUME NEW S, NEW T, NEW x, IsFiniteSet(S), S \ {x} = T \ {x}
    PROVE  /\ IsFiniteSet(T) /\ Cardinality(S) \in Nat /\ Cardinality(T) \in Nat
           /\ Cardinality(T) = Cardinality(S) + Ind(x \in T) - Ind(x \in S)
<1> DEFINE R == S \ {x}
<1>1. /\ IsFiniteSet(R)
      /\ Cardinality(R) = IF x \in S THEN Cardinality(S) - 1 ELSE Cardinality(S)
  BY FS_RemoveElement
<1>2. Cardinality(S) \in Nat /\ Cardinality(R) \in Nat
  BY <1>1, FS_CardinalityType
<1>3. /\ IsFiniteSet(R \cup {x}) /\ x \notin R
      /\ Cardinality(R \cup {x}) = Cardinality(R) + 1
  BY <1>1, FS_AddElement
<1>4. CASE x \in T
  <2>1. T = R \cup {x}
    BY <1>4
  <2> QED
    BY <1>1, <1>2, <1>3, <1>4, <2>1 DEF Ind
<1>5. CASE x \notin T
  <2>1. T = R
    BY <1>5
  <2> QED
    BY <1>1, <1>2, <1>5, <2>1 DEF Ind
<1> QED
  BY <1>4, <1>5

\* The state in which the other threads are does not change.
OthersStay(t) == \A u \in Threads \ {t} : at'[u] = at[u] /\ op'[u] = op[u]

\* How a step of one thread changes the numbers in NoLostWakeup.
LEMMA Counting ==
    ASSUME NEW t \in Threads, OthersStay(t)
    PROVE  LET woken    == op[t] = "emplace" /\ at[t] \in {"woken", "inside"}
               wokenNow == op'[t] = "emplace" /\ at'[t] \in {"woken", "inside"}
           IN
           /\ Cardinality(Notifying) \in Nat /\ Cardinality(Notifying') \in Nat
           /\ Cardinality(Awake) \in Nat /\ Cardinality(Awake') \in Nat
           /\ Cardinality(Notifying')
                = Cardinality(Notifying) + Ind(at'[t] = "notify") - Ind(at[t] = "notify")
           /\ Cardinality(Awake') = Cardinality(Awake) + Ind(wokenNow) - Ind(woken)
<1>1. IsFiniteSet(Notifying) /\ IsFiniteSet(Awake)
  <2>1. Notifying \in SUBSET Threads /\ Awake \in SUBSET Threads
    BY DEF Notifying, Awake
  <2> QED
    BY <2>1, Constants, FS_Subset
<1>2. Notifying \ {t} = Notifying' \ {t} /\ Awake \ {t} = Awake' \ {t}
  BY DEF OthersStay, Notifying, Awake
<1>3. /\ t \in Notifying <=> at[t] = "notify"
      /\ t \in Notifying' <=> at'[t] = "notify"
      /\ t \in Awake <=> op[t] = "emplace" /\ at[t] \in {"woken", "inside"}
      /\ t \in Awake' <=> op'[t] = "emplace" /\ at'[t] \in {"woken", "inside"}
  BY DEF Notifying, Awake
<1>4. /\ Cardinality(Notifying) \in Nat /\ Cardinality(Notifying') \in Nat
      /\ Cardinality(Notifying') = Cardinality(Notifying) + Ind(t \in Notifying') - Ind(t \in Notifying)
  BY <1>1, <1>2, OneElementApart
<1>5. /\ Cardinality(Awake) \in Nat /\ Cardinality(Awake') \in Nat
      /\ Cardinality(Awake') = Cardinality(Awake) + Ind(t \in Awake') - Ind(t \in Awake)
  BY <1>1, <1>2, OneElementApart
<1> QED
  BY <1>3, <1>4, <1>5 DEF Ind
-----------------------------------------------------------------------------
(* The ring.                                                               *)

\* Advancing a cursor by modulus moves it to the next element's slot.
LEMMA NextSlot ==
    ASSUME NEW n \in Nat
    PROVE  /\ RingSlot(n, capacity_) \in Slots
           /\ RingSlot(n + 1, capacity_) = ModulusNext(RingSlot(n, capacity_), capacity_)
<1>1. RingSlot(n, capacity_) \in 0 .. capacity_ - 1
  BY Constants, RingSlotType
<1> QED
  BY <1>1, Constants, BranchNextIsSuccessor, BranchNextIsModulusNext DEF Slots

LEMMA RingTyped ==
    ASSUME IInv
    PROVE  /\ pushed \in Nat /\ popped \in Nat /\ popped <= pushed /\ pushed - popped <= capacity_
           /\ count_ = pushed - popped /\ count_ \in Nat /\ capacity_ \in Nat \ {0}
           /\ buffer_ \in [Slots -> Nat]
           /\ pushCursor_ = RingSlot(pushed, capacity_) /\ pushCursor_ \in Slots
           /\ popCursor_ = RingSlot(popped, capacity_) /\ popCursor_ \in Slots
BY Constants DEF IInv, TypeOK, Contents, RingHoldsQueue

\* A push keeps the slots as Contents says and the variables in their types.
LEMMA PushKeepsContents ==
    ASSUME IInv, PushElement, count_ # capacity_, UNCHANGED phase, phase = "live"
    PROVE  /\ Contents'
           /\ buffer_' \in [Slots -> Nat] /\ count_' \in 0 .. capacity_ /\ count_' = count_ + 1
           /\ pushCursor_' \in Slots /\ popCursor_' \in Slots
           /\ pushed' = pushed + 1 /\ pushed' \in Nat /\ popped' = popped
           /\ count_' > 0 /\ buffer_'[popCursor_'] = popped' + 1
<1>1. /\ buffer_' = [buffer_ EXCEPT ![pushCursor_] = pushed + 1]
      /\ pushCursor_' = ModulusNext(pushCursor_, capacity_)
      /\ count_' = count_ + 1 /\ pushed' = pushed + 1
      /\ popCursor_' = popCursor_ /\ popped' = popped
  BY DEF PushElement
<1>2. count_' = pushed' - popped' /\ count_' \in 0 .. capacity_
  BY <1>1, RingTyped
<1>3. pushCursor_' = RingSlot(pushed', capacity_) /\ pushCursor_' \in Slots
  BY <1>1, RingTyped, NextSlot
<1>4. popCursor_' = RingSlot(popped', capacity_) /\ popCursor_' \in Slots
  BY <1>1, RingTyped
<1>5. buffer_' \in [Slots -> Nat]
  BY <1>1, RingTyped
<1>6. ASSUME NEW n \in popped' + 1 .. pushed'
      PROVE  buffer_'[RingSlot(n - 1, capacity_)] = n
  <2>1. CASE n = pushed + 1
    BY <1>1, <2>1, RingTyped
  <2>2. CASE n # pushed + 1
    <3>1. n \in popped + 1 .. pushed /\ n - 1 \in Nat /\ n - 1 < pushed /\ pushed < (n - 1) + capacity_
      BY <1>1, <2>2, RingTyped
    <3>2. RingSlot(n - 1, capacity_) # pushCursor_
      BY <3>1, RingTyped, RingSlotDistinct
    <3>3. buffer_[RingSlot(n - 1, capacity_)] = n /\ RingSlot(n - 1, capacity_) \in Slots
      BY <3>1, NextSlot DEF IInv, Contents, RingHoldsQueue
    <3> QED
      BY <1>1, <3>2, <3>3, RingTyped
  <2> QED
    BY <2>1, <2>2
<1>7. ASSUME NEW s \in Slots, buffer_'[s] # Raw
      PROVE  buffer_'[s] \in popped' + 1 .. pushed' /\ RingSlot(buffer_'[s] - 1, capacity_) = s
  <2>1. CASE s = pushCursor_
    BY <1>1, <2>1, RingTyped
  <2>2. CASE s # pushCursor_
    <3>1. buffer_'[s] = buffer_[s]
      BY <1>1, <2>2, RingTyped
    <3>2. buffer_[s] \in popped + 1 .. pushed /\ RingSlot(buffer_[s] - 1, capacity_) = s
      BY <1>7, <3>1 DEF IInv, Contents, RingHoldsQueue
    <3> QED
      BY <1>1, <3>1, <3>2, RingTyped
  <2> QED
    BY <2>1, <2>2
<1>8. count_' > 0 /\ buffer_'[popCursor_'] = popped' + 1
  <2>1. popped' + 1 \in popped' + 1 .. pushed' /\ (popped' + 1) - 1 = popped' /\ count_' > 0
    BY <1>1, RingTyped
  <2> QED
    BY <1>4, <1>6, <2>1
<1> QED
  BY <1>1, <1>2, <1>3, <1>4, <1>5, <1>6, <1>7, <1>8, RingTyped DEF Contents, RingHoldsQueue

\* So does a pop.
LEMMA PopKeepsContents ==
    ASSUME IInv, PopElement, count_ > 0, UNCHANGED phase, phase # "freed"
    PROVE  /\ Contents'
           /\ buffer_' \in [Slots -> Nat] /\ count_' \in 0 .. capacity_ /\ count_' = count_ - 1
           /\ pushCursor_' \in Slots /\ popCursor_' \in Slots
           /\ popped' = popped + 1 /\ popped' \in Nat /\ pushed' = pushed
<1>1. /\ buffer_' = [buffer_ EXCEPT ![popCursor_] = Raw]
      /\ popCursor_' = ModulusNext(popCursor_, capacity_)
      /\ count_' = count_ - 1 /\ popped' = popped + 1
      /\ pushCursor_' = pushCursor_ /\ pushed' = pushed
  BY DEF PopElement
<1>2. count_' = pushed' - popped' /\ count_' \in 0 .. capacity_
  BY <1>1, RingTyped
<1>3. popCursor_' = RingSlot(popped', capacity_) /\ popCursor_' \in Slots
  BY <1>1, RingTyped, NextSlot
<1>4. pushCursor_' = RingSlot(pushed', capacity_) /\ pushCursor_' \in Slots
  BY <1>1, RingTyped
<1>5. buffer_' \in [Slots -> Nat]
  BY <1>1, RingTyped DEF Raw
<1>6. ASSUME NEW n \in popped' + 1 .. pushed'
      PROVE  buffer_'[RingSlot(n - 1, capacity_)] = n
  <2>1. n \in popped + 1 .. pushed /\ n - 1 \in Nat /\ popped < n - 1 /\ n - 1 < popped + capacity_
    BY <1>1, RingTyped
  <2>2. RingSlot(n - 1, capacity_) # popCursor_
    BY <2>1, RingTyped, RingSlotDistinct
  <2>3. buffer_[RingSlot(n - 1, capacity_)] = n /\ RingSlot(n - 1, capacity_) \in Slots
    BY <2>1, NextSlot DEF IInv, Contents, RingHoldsQueue
  <2> QED
    BY <1>1, <2>2, <2>3, RingTyped
<1>7. ASSUME NEW s \in Slots, buffer_'[s] # Raw
      PROVE  buffer_'[s] \in popped' + 1 .. pushed' /\ RingSlot(buffer_'[s] - 1, capacity_) = s
  <2>1. s # popCursor_ /\ buffer_'[s] = buffer_[s]
    BY <1>1, <1>7, RingTyped
  <2>2. buffer_[s] \in popped + 1 .. pushed /\ RingSlot(buffer_[s] - 1, capacity_) = s
    BY <1>7, <2>1 DEF IInv, Contents, RingHoldsQueue
  <2>3. buffer_[s] # popped + 1
    BY <2>1, <2>2, RingTyped
  <2> QED
    BY <1>1, <2>1, <2>2, <2>3, RingTyped
<1> QED
  BY <1>1, <1>2, <1>3, <1>4, <1>5, <1>6, <1>7, RingTyped DEF Contents, RingHoldsQueue
-----------------------------------------------------------------------------
(* The steps of the threads that leave the slots alone.                    *)

LEMMA OpsTyped ==
    ASSUME NEW t \in Threads, NEW o \in OpsOf(t)
    PROVE  /\ o \in PushOps \cup PopOps \cup {"close", "closed"} /\ o # "none"
           /\ o \in PopOps \cup {"closed"} => t \in Consumers
           /\ o \in PushOps => t \in Producers
           /\ o \in {"front", "pop"} => ConsumerApi = "front_pop"
<1>1. \/ t \in Producers /\ o \in PushOps
      \/ t \in Consumers /\ o \in PopOps \cup {"closed"}
      \/ t \in Closers /\ o = "close"
  BY Zenon DEF OpsOf
<1> QED
  BY <1>1, MutexAssumption DEF PushOps, PopOps

\* Steps that only move one thread inside its operation, and hand the mutex
\* from one thread to another, leave the slots as they are.
LEMMA SameStorage ==
    ASSUME IInv, UNCHANGED <<storage, phase>>
    PROVE  Contents'
BY DEF IInv, Contents, RingHoldsQueue, storage

\* With a single consumer that uses front() and pop(), nobody else's step
\* can disturb a pointer.
LEMMA CallStep ==
    ASSUME IInv, NEW t \in Threads, NEW o \in OpsOf(t), Call(t, o)
    PROVE  IInv'
<1>1. /\ phase = "live" /\ at[t] = "out" /\ op[t] = "none"
      /\ op' = [op EXCEPT ![t] = o] /\ at' = [at EXCEPT ![t] = "enter"]
      /\ held' = IF o = "pop" THEN [held EXCEPT ![t] = "none"] ELSE held
      /\ o = "pop" => held[t] = "item"
      /\ UNCHANGED <<mutex_, storage, flag, phase, thrown>>
  BY DEF Call, IInv, Positions
<1>2. TypeOK'
  BY <1>1, OpsTyped DEF IInv, TypeOK, storage, flag
<1>3. Positions'
  BY <1>1, OpsTyped DEF IInv, TypeOK, Positions
<1>4. Contents'
  BY <1>1, SameStorage
<1>5. Pointers'
  BY <1>1, OpsTyped DEF IInv, TypeOK, Pointers, PointerStaysValid, storage
<1>6. NoLostWakeup'
  <2>1. OthersStay(t) /\ at'[t] = "enter"
    BY <1>1 DEF IInv, TypeOK, OthersStay
  <2>2. Asleep' = Asleep
    BY <1>1 DEF IInv, TypeOK, Asleep
  <2>3. Cardinality(Notifying') = Cardinality(Notifying) /\ Cardinality(Awake') = Cardinality(Awake)
    BY <1>1, <2>1, Counting DEF Ind
  <2> QED
    BY <1>1, <2>2, <2>3 DEF IInv, NoLostWakeup, storage, capacity_
<1> QED
  BY <1>2, <1>3, <1>4, <1>5, <1>6 DEF IInv

LEMMA AcquireStep ==
    ASSUME IInv, NEW t \in Threads, Acquire(t)
    PROVE  IInv'
<1>1. /\ mutex_ = Free /\ at[t] \in {"enter", "woken"}
      /\ mutex_' = t /\ at' = [at EXCEPT ![t] = "inside"]
      /\ UNCHANGED <<storage, flag, op, held, phase, thrown>>
  BY DEF Acquire
<1>2. TypeOK'
  BY <1>1, Constants DEF IInv, TypeOK, storage, flag
<1>3. Positions'
  BY <1>1 DEF IInv, TypeOK, Positions
<1>4. Contents'
  BY <1>1, SameStorage
<1>5. Pointers'
  BY <1>1 DEF IInv, TypeOK, Positions, Pointers, PointerStaysValid, storage, Threads
<1>6. NoLostWakeup'
  <2>1. OthersStay(t) /\ at'[t] = "inside" /\ op'[t] = op[t]
    BY <1>1 DEF IInv, TypeOK, OthersStay
  <2>2. Asleep' = Asleep
    BY <1>1 DEF IInv, TypeOK, Asleep
  <2>3. /\ Cardinality(Notifying') = Cardinality(Notifying)
        /\ Cardinality(Awake') >= Cardinality(Awake)
        /\ Cardinality(Notifying) \in Nat /\ Cardinality(Awake) \in Nat /\ Cardinality(Awake') \in Nat
    BY <1>1, <2>1, Counting DEF Ind
  <2> QED
    BY <1>1, <2>2, <2>3, RingTyped DEF IInv, TypeOK, NoLostWakeup, storage
<1> QED
  BY <1>2, <1>3, <1>4, <1>5, <1>6 DEF IInv

LEMMA EmplaceWaitsStep ==
    ASSUME IInv, NEW t \in Threads, EmplaceWaits(t)
    PROVE  IInv'
<1>1. /\ mutex_ = t /\ at[t] = "inside" /\ op[t] = "emplace" /\ count_ = capacity_
      /\ mutex_' = Free /\ at' = [at EXCEPT ![t] = "asleep"]
      /\ UNCHANGED <<storage, flag, op, held, phase, thrown>>
  BY DEF EmplaceWaits, Inside
<1>2. TypeOK'
  BY <1>1, Constants DEF IInv, TypeOK, storage, flag
<1>3. Positions'
  BY <1>1 DEF IInv, TypeOK, Positions
<1>4. Contents'
  BY <1>1, SameStorage
<1>5. Pointers'
  BY <1>1 DEF IInv, TypeOK, Pointers, PointerStaysValid, storage, Threads
<1>6. NoLostWakeup'
  <2>1. OthersStay(t)
    BY <1>1 DEF IInv, TypeOK, OthersStay
  <2>2. Cardinality(Notifying') \in Nat /\ Cardinality(Awake') \in Nat
    BY <2>1, Counting
  <2>3. capacity_ - count_' = 0 /\ thrown' \in Nat
    BY <1>1, RingTyped DEF IInv, TypeOK, storage
  <2> QED
    BY <2>2, <2>3 DEF NoLostWakeup, capacity_
<1> QED
  BY <1>2, <1>3, <1>4, <1>5, <1>6 DEF IInv

LEMMA SpuriousWakeupStep ==
    ASSUME IInv, NEW t \in Threads, SpuriousWakeup(t)
    PROVE  IInv'
<1>1. /\ at[t] = "asleep" /\ at' = [at EXCEPT ![t] = "woken"]
      /\ UNCHANGED <<mutex_, storage, flag, op, held, phase, thrown>>
  BY DEF SpuriousWakeup
<1>2. TypeOK'
  BY <1>1 DEF IInv, TypeOK, storage, flag
<1>3. Positions'
  BY <1>1 DEF IInv, TypeOK, Positions
<1>4. Contents'
  BY <1>1, SameStorage
<1>5. Pointers'
  BY <1>1 DEF IInv, TypeOK, Pointers, PointerStaysValid, storage, Threads
<1>6. NoLostWakeup'
  <2>1. OthersStay(t) /\ at'[t] = "woken" /\ op'[t] = op[t]
    BY <1>1 DEF IInv, TypeOK, OthersStay
  <2>2. Asleep # {}
    BY <1>1 DEF Asleep
  <2>3. /\ Cardinality(Notifying') = Cardinality(Notifying)
        /\ Cardinality(Awake') >= Cardinality(Awake)
        /\ Cardinality(Notifying) \in Nat /\ Cardinality(Awake) \in Nat /\ Cardinality(Awake') \in Nat
    BY <1>1, <2>1, Counting DEF Ind
  <2> QED
    BY <1>1, <2>2, <2>3, RingTyped DEF IInv, TypeOK, NoLostWakeup, storage
<1> QED
  BY <1>2, <1>3, <1>4, <1>5, <1>6 DEF IInv
-----------------------------------------------------------------------------
(* The critical sections.                                                  *)

\* Who holds the mutex is in an operation of its own while nothing is freed.
LEMMA InCriticalSection ==
    ASSUME IInv, NEW t \in Threads, NEW o, Inside(t, o)
    PROVE  /\ mutex_ = t /\ at[t] = "inside" /\ op[t] = o /\ o \in OpsOf(t)
           /\ phase = "live" /\ \A u \in Threads \ {t} : at[u] # "inside"
BY DEF IInv, TypeOK, Positions, Inside

\* What leaving the critical section does to the threads.
LEMMA LeaveKeepsThreads ==
    ASSUME IInv, NEW t \in Threads, at[t] = "inside", Leave(t)
    PROVE  /\ mutex_' = Free /\ OthersStay(t) /\ at'[t] = "out" /\ op'[t] = "none"
           /\ op' \in [Threads -> PushOps \cup PopOps \cup {"none", "close", "closed"}]
           /\ at' \in [Threads -> {"out", "enter", "inside", "asleep", "woken", "notify"}]
           /\ mutex_' \in Threads \cup {Free}
           /\ \A u \in Threads : at'[u] = "inside" <=> mutex_' = u
           /\ Positions' /\ Asleep' = Asleep
           /\ Cardinality(Notifying') = Cardinality(Notifying)
           /\ Cardinality(Awake') = Cardinality(Awake) - Ind(op[t] = "emplace")
           /\ Cardinality(Notifying) \in Nat /\ Cardinality(Awake') \in Nat
           /\ Cardinality(Awake) \in Nat
<1>1. /\ mutex_' = Free /\ op' = [op EXCEPT ![t] = "none"] /\ at' = [at EXCEPT ![t] = "out"]
      /\ UNCHANGED phase
  BY DEF Leave
<1>2. OthersStay(t) /\ at'[t] = "out" /\ op'[t] = "none"
  BY <1>1 DEF IInv, TypeOK, OthersStay
<1>3. /\ op' \in [Threads -> PushOps \cup PopOps \cup {"none", "close", "closed"}]
      /\ at' \in [Threads -> {"out", "enter", "inside", "asleep", "woken", "notify"}]
      /\ mutex_' \in Threads \cup {Free}
      /\ \A u \in Threads : at'[u] = "inside" <=> mutex_' = u
  BY <1>1, Constants DEF IInv, TypeOK
<1>4. Positions' /\ Asleep' = Asleep
  BY <1>1 DEF IInv, TypeOK, Positions, Asleep
<1>5. /\ Cardinality(Notifying') = Cardinality(Notifying)
      /\ Cardinality(Awake') = Cardinality(Awake) - Ind(op[t] = "emplace")
      /\ Cardinality(Notifying) \in Nat /\ Cardinality(Awake') \in Nat
      /\ Cardinality(Awake) \in Nat
  BY <1>2, Counting DEF Ind
<1> QED
  BY <1>1, <1>2, <1>3, <1>4, <1>5

LEMMA EmplacesStep ==
    ASSUME IInv, NEW t \in Threads, Emplaces(t)
    PROVE  IInv'
<1>1. PICK o \in {"emplace", "try_emplace"} : Inside(t, o)
  BY DEF Emplaces
<1>2. /\ count_ # capacity_ /\ PushElement /\ Leave(t) /\ UNCHANGED <<thrown, flag, held, phase>>
  BY DEF Emplaces, Return, Leave
<1>3. phase = "live" /\ at[t] = "inside" /\ op[t] = o
  BY <1>1, InCriticalSection
<1>4. TypeOK'
  BY <1>2, <1>3, PushKeepsContents, LeaveKeepsThreads DEF IInv, TypeOK, flag
<1>5. Positions' /\ Contents'
  BY <1>2, <1>3, PushKeepsContents, LeaveKeepsThreads
<1>6. Pointers'
  <2>1. PointerStaysValid'
    BY <1>2, <1>3, PushKeepsContents DEF PointerStaysValid
  <2>2. \A u \in Threads : op'[u] = "pop" => op[u] = "pop"
    BY <1>2, <1>3, LeaveKeepsThreads DEF OthersStay
  <2> QED
    BY <1>2, <2>1, <2>2 DEF IInv, Pointers, Threads
<1>7. NoLostWakeup'
  <2>1. count_' = count_ + 1 /\ Ind(op[t] = "emplace") \in 0 .. 1 /\ thrown' = thrown
    BY <1>2, <1>3, PushKeepsContents DEF Ind
  <2> QED
    BY <1>2, <1>3, <2>1, LeaveKeepsThreads, RingTyped DEF IInv, TypeOK, NoLostWakeup
<1> QED
  BY <1>4, <1>5, <1>6, <1>7 DEF IInv

\* Leaving without having touched the slots.
LEMMA TryEmplaceRefusedStep ==
    ASSUME IInv, NEW t \in Threads, TryEmplaceRefused(t)
    PROVE  IInv'
<1>1. /\ at[t] = "inside" /\ op[t] = "try_emplace" /\ Leave(t)
      /\ UNCHANGED <<thrown, storage, flag, held, phase>>
  BY DEF TryEmplaceRefused, Inside, Return, Leave
<1>2. TypeOK'
  BY <1>1, LeaveKeepsThreads DEF IInv, TypeOK, storage, flag
<1>3. Positions' /\ Contents'
  BY <1>1, LeaveKeepsThreads, SameStorage
<1>4. Pointers'
  BY <1>1, LeaveKeepsThreads DEF IInv, Pointers, PointerStaysValid, OthersStay, Threads, storage
<1>5. NoLostWakeup'
  BY <1>1, LeaveKeepsThreads, RingTyped DEF IInv, TypeOK, NoLostWakeup, Ind, storage
<1> QED
  BY <1>2, <1>3, <1>4, <1>5 DEF IInv

LEMMA ThrowsStep ==
    ASSUME IInv, NEW t \in Threads, Throws(t)
    PROVE  IInv'
<1>1. /\ at[t] = "inside" /\ Leave(t) /\ thrown < ThrowLimit /\ thrown' = thrown + 1
      /\ UNCHANGED <<storage, flag, held, phase>>
  BY DEF Throws, Inside, Leave
<1>2. TypeOK'
  BY <1>1, LeaveKeepsThreads, MutexAssumption DEF IInv, TypeOK, storage, flag
<1>3. Positions' /\ Contents'
  BY <1>1, LeaveKeepsThreads, SameStorage
<1>4. Pointers'
  BY <1>1, LeaveKeepsThreads DEF IInv, Pointers, PointerStaysValid, OthersStay, Threads, storage
<1>5. NoLostWakeup'
  <2>1. Ind(op[t] = "emplace") \in 0 .. 1 /\ count_' = count_
    BY <1>1 DEF Ind, storage
  <2> QED
    BY <1>1, <2>1, LeaveKeepsThreads, RingTyped, MutexAssumption DEF IInv, TypeOK, NoLostWakeup
<1> QED
  BY <1>2, <1>3, <1>4, <1>5 DEF IInv
\* What unlocking before the notification does to the threads.
LEMMA UnlockKeepsThreads ==
    ASSUME IInv, NEW t \in Threads, at[t] = "inside", op[t] \in {"pop", "try_pop"},
           UnlockThenNotify(t)
    PROVE  /\ mutex_' = Free /\ OthersStay(t) /\ at'[t] = "notify" /\ op' = op
           /\ at' \in [Threads -> {"out", "enter", "inside", "asleep", "woken", "notify"}]
           /\ mutex_' \in Threads \cup {Free}
           /\ \A u \in Threads : at'[u] = "inside" <=> mutex_' = u
           /\ Positions' /\ Asleep' = Asleep
           /\ Cardinality(Notifying') = Cardinality(Notifying) + 1
           /\ Cardinality(Awake') = Cardinality(Awake)
           /\ Cardinality(Notifying) \in Nat /\ Cardinality(Awake) \in Nat
<1>1. /\ mutex_' = Free /\ at' = [at EXCEPT ![t] = "notify"] /\ UNCHANGED <<op, phase>>
  BY DEF UnlockThenNotify
<1>2. OthersStay(t) /\ at'[t] = "notify" /\ op'[t] = op[t]
  BY <1>1 DEF IInv, TypeOK, OthersStay
<1>3. /\ at' \in [Threads -> {"out", "enter", "inside", "asleep", "woken", "notify"}]
      /\ mutex_' \in Threads \cup {Free}
      /\ \A u \in Threads : at'[u] = "inside" <=> mutex_' = u
  BY <1>1, Constants DEF IInv, TypeOK
<1>4. phase = "live"
  BY DEF IInv, Positions
<1>5. Positions' /\ Asleep' = Asleep
  BY <1>1, <1>4 DEF IInv, TypeOK, Positions, Asleep
<1>6. /\ Cardinality(Notifying') = Cardinality(Notifying) + 1
      /\ Cardinality(Awake') = Cardinality(Awake)
      /\ Cardinality(Notifying) \in Nat /\ Cardinality(Awake) \in Nat
  BY <1>2, Counting DEF Ind
<1> QED
  BY <1>1, <1>2, <1>3, <1>5, <1>6

\* A pop leaves one more slot free and one more notification to come.
LEMMA UnlockKeepsWakeups ==
    ASSUME IInv, NEW t \in Threads, at[t] = "inside", op[t] \in {"pop", "try_pop"},
           UnlockThenNotify(t), count_' = count_ - 1
    PROVE  NoLostWakeup'
<1>1. thrown' = thrown /\ thrown \in Nat
  BY DEF UnlockThenNotify, IInv, TypeOK
<1> QED
  BY <1>1, UnlockKeepsThreads, RingTyped DEF IInv, NoLostWakeup

LEMMA TryPopStep ==
    ASSUME IInv, NEW t \in Threads, TryPop(t)
    PROVE  IInv'
<1>1. /\ at[t] = "inside" /\ op[t] = "try_pop" /\ phase = "live" /\ ConsumerApi # "front_pop"
      /\ UNCHANGED <<flag, held>>
  <2>1. Inside(t, "try_pop") /\ UNCHANGED <<flag, held>>
    BY DEF TryPop
  <2>2. "try_pop" \in OpsOf(t)
    BY <2>1, InCriticalSection
  <2> QED
    BY <2>1, <2>2, InCriticalSection DEF OpsOf, PushOps, PopOps
<1>2. CASE count_ > 0
  <2>1. PopElement /\ UnlockThenNotify(t) /\ UNCHANGED <<op, phase, thrown>>
    BY <1>2 DEF TryPop, UnlockThenNotify
  <2>2. TypeOK'
    BY <1>1, <1>2, <2>1, PopKeepsContents, UnlockKeepsThreads DEF IInv, TypeOK, flag
  <2>3. Positions' /\ Contents'
    BY <1>1, <1>2, <2>1, PopKeepsContents, UnlockKeepsThreads
  <2>4. Pointers'
    <3>1. \A c \in Consumers : op[c] # "pop" /\ held[c] = "none"
      BY <1>1, OpsTyped DEF IInv, TypeOK, Positions, Pointers, Threads
    <3> QED
      BY <1>1, <2>1, <3>1 DEF Pointers, PointerStaysValid
  <2>5. NoLostWakeup'
    BY <1>1, <1>2, <2>1, PopKeepsContents, UnlockKeepsWakeups
  <2> QED
    BY <2>2, <2>3, <2>4, <2>5 DEF IInv
<1>3. CASE ~(count_ > 0)
  <2>1. Leave(t) /\ UNCHANGED <<thrown, storage, phase>>
    BY <1>3 DEF TryPop, Return, Leave
  <2>2. TypeOK'
    BY <1>1, <2>1, LeaveKeepsThreads DEF IInv, TypeOK, storage, flag
  <2>3. Positions' /\ Contents'
    BY <1>1, <2>1, LeaveKeepsThreads, SameStorage
  <2>4. Pointers'
    BY <1>1, <2>1, LeaveKeepsThreads DEF IInv, Pointers, PointerStaysValid, OthersStay, Threads, storage
  <2>5. NoLostWakeup'
    BY <1>1, <2>1, LeaveKeepsThreads, RingTyped DEF IInv, TypeOK, NoLostWakeup, Ind, storage
  <2> QED
    BY <2>2, <2>3, <2>4, <2>5 DEF IInv
<1> QED
  BY <1>2, <1>3

\* front() and pop() are the only consumer's.
LEMMA OnlyConsumer ==
    ASSUME IInv, NEW t \in Threads, NEW o \in {"front", "pop"}, Inside(t, o)
    PROVE  t \in Consumers /\ Consumers = {t} /\ ConsumerApi = "front_pop"
<1>1. o \in OpsOf(t)
  BY InCriticalSection
<1>2. t \in Consumers /\ ConsumerApi = "front_pop"
  BY <1>1, OpsTyped DEF PopOps
<1> QED
  BY <1>2, MutexAssumption

LEMMA FrontStep ==
    ASSUME IInv, NEW t \in Threads, Front(t)
    PROVE  IInv'
<1>1. /\ at[t] = "inside" /\ op[t] = "front" /\ phase = "live" /\ Consumers = {t}
      /\ ConsumerApi = "front_pop" /\ Leave(t)
      /\ held' = [held EXCEPT ![t] = IF count_ = 0 THEN "null" ELSE "item"]
      /\ UNCHANGED <<thrown, storage, flag, phase>>
  BY InCriticalSection, OnlyConsumer DEF Front, Return, Leave
<1>2. TypeOK'
  BY <1>1, LeaveKeepsThreads DEF IInv, TypeOK, storage, flag
<1>3. Positions' /\ Contents'
  BY <1>1, LeaveKeepsThreads, SameStorage
<1>4. Pointers'
  <2>1. count_ > 0 => buffer_[popCursor_] = popped + 1
    <3>1. ASSUME count_ > 0 PROVE popped + 1 \in popped + 1 .. pushed /\ (popped + 1) - 1 = popped
      BY <3>1, RingTyped
    <3> QED
      BY <3>1, RingTyped DEF IInv, Contents, RingHoldsQueue
  <2>2. held'[t] = IF count_ = 0 THEN "null" ELSE "item"
    BY <1>1 DEF IInv, TypeOK
  <2>3. PointerStaysValid'
    BY <1>1, <2>1, <2>2, LeaveKeepsThreads, RingTyped DEF PointerStaysValid, storage
  <2> QED
    BY <1>1, <2>3, LeaveKeepsThreads DEF Pointers
<1>5. NoLostWakeup'
  BY <1>1, LeaveKeepsThreads, RingTyped DEF IInv, TypeOK, NoLostWakeup, Ind, storage
<1> QED
  BY <1>2, <1>3, <1>4, <1>5 DEF IInv

LEMMA PopStep ==
    ASSUME IInv, NEW t \in Threads, Pop(t)
    PROVE  IInv'
<1>1. /\ at[t] = "inside" /\ op[t] = "pop" /\ phase = "live" /\ Consumers = {t}
      /\ ConsumerApi = "front_pop" /\ PopElement /\ UnlockThenNotify(t)
      /\ UNCHANGED <<flag, held, op, phase, thrown>>
  BY InCriticalSection, OnlyConsumer DEF Pop, UnlockThenNotify
<1>2. count_ > 0 /\ held[t] = "none"
  BY <1>1 DEF IInv, Pointers, PointerStaysValid
<1>3. TypeOK'
  BY <1>1, <1>2, PopKeepsContents, UnlockKeepsThreads DEF IInv, TypeOK, flag
<1>4. Positions' /\ Contents'
  BY <1>1, <1>2, PopKeepsContents, UnlockKeepsThreads
<1>5. Pointers'
  BY <1>1, <1>2, UnlockKeepsThreads DEF Pointers, PointerStaysValid
<1>6. NoLostWakeup'
  BY <1>1, <1>2, PopKeepsContents, UnlockKeepsWakeups
<1> QED
  BY <1>3, <1>4, <1>5, <1>6 DEF IInv

LEMMA CloseOrClosedStep ==
    ASSUME IInv, NEW t \in Threads, Close(t) \/ Closed(t)
    PROVE  IInv'
<1>1. /\ at[t] = "inside" /\ op[t] \in {"close", "closed"} /\ Leave(t)
      /\ UNCHANGED <<thrown, storage, held, phase>>
  BY DEF Close, Closed, Inside, Return, Leave
<1>2. closed_' \in BOOLEAN /\ sawClosed' \in BOOLEAN /\ sealed' \in Nat
  <2>1. closed_ \in BOOLEAN /\ sawClosed \in BOOLEAN /\ sealed \in Nat /\ pushed \in Nat
    BY DEF IInv, TypeOK
  <2>2. CASE Close(t)
    BY <2>1, <2>2 DEF Close
  <2>3. CASE Closed(t)
    BY <2>1, <2>3 DEF Closed
  <2> QED
    BY <2>2, <2>3
<1>3. TypeOK'
  BY <1>1, <1>2, LeaveKeepsThreads DEF IInv, TypeOK, storage
<1>4. Positions' /\ Contents'
  BY <1>1, LeaveKeepsThreads, SameStorage
<1>5. Pointers'
  BY <1>1, LeaveKeepsThreads DEF IInv, Pointers, PointerStaysValid, OthersStay, Threads, storage
<1>6. NoLostWakeup'
  BY <1>1, LeaveKeepsThreads, RingTyped DEF IInv, TypeOK, NoLostWakeup, Ind, storage
<1> QED
  BY <1>3, <1>4, <1>5, <1>6 DEF IInv
LEMMA NotifyOneStep ==
    ASSUME IInv, NEW t \in Threads, NotifyOne(t)
    PROVE  IInv'
<1>1. /\ at[t] = "notify" /\ op' = [op EXCEPT ![t] = "none"]
      /\ UNCHANGED <<mutex_, storage, flag, held, phase, thrown>>
  BY DEF NotifyOne
<1>2. CASE Asleep = {}
  <2>1. at' = [at EXCEPT ![t] = "out"]
    BY <1>2 DEF NotifyOne
  <2>2. TypeOK'
    BY <1>1, <2>1 DEF IInv, TypeOK, storage, flag
  <2>3. Positions' /\ Contents'
    BY <1>1, <2>1, SameStorage DEF IInv, TypeOK, Positions
  <2>4. Pointers'
    BY <1>1, <2>1 DEF IInv, TypeOK, Pointers, PointerStaysValid, storage, Threads
  <2>5. NoLostWakeup'
    BY <1>2, <2>1 DEF IInv, TypeOK, NoLostWakeup, Asleep
  <2> QED
    BY <2>2, <2>3, <2>4, <2>5 DEF IInv
<1>3. ASSUME NEW u \in Asleep, at' = [at EXCEPT ![t] = "out", ![u] = "woken"]
      PROVE  IInv'
  <2>1. u \in Threads /\ at[u] = "asleep" /\ op[u] = "emplace" /\ u # t
    BY <1>1 DEF Asleep, IInv, Positions
  <2>2. TypeOK'
    BY <1>1, <1>3, <2>1 DEF IInv, TypeOK, storage, flag
  <2>3. Positions'
    BY <1>1, <1>3, <2>1 DEF IInv, TypeOK, Positions
  <2>4. Contents'
    BY <1>1, SameStorage
  <2>5. Pointers'
    BY <1>1, <1>3, <2>1 DEF IInv, TypeOK, Pointers, PointerStaysValid, storage, Threads
  <2>6. NoLostWakeup'
    <3>1. Notifying' = Notifying \ {t} /\ t \in Notifying
      BY <1>1, <1>3, <2>1 DEF IInv, TypeOK, Notifying
    <3>2. Awake' = Awake \cup {u} /\ u \notin Awake
      BY <1>1, <1>3, <2>1 DEF IInv, TypeOK, Awake
    <3>3. IsFiniteSet(Notifying) /\ IsFiniteSet(Awake)
      <4>1. Notifying \in SUBSET Threads /\ Awake \in SUBSET Threads
        BY DEF Notifying, Awake
      <4> QED
        BY <4>1, Constants, FS_Subset
    <3>4. /\ Cardinality(Notifying') = Cardinality(Notifying) - 1
          /\ Cardinality(Awake') = Cardinality(Awake) + 1
          /\ Cardinality(Notifying) \in Nat /\ Cardinality(Awake) \in Nat
      BY <3>1, <3>2, <3>3, FS_RemoveElement, FS_AddElement, FS_CardinalityType
    <3> QED
      BY <1>1, <3>4, RingTyped DEF IInv, TypeOK, NoLostWakeup, storage
  <2> QED
    BY <2>2, <2>3, <2>4, <2>5, <2>6 DEF IInv
<1> QED
  BY <1>2, <1>3 DEF NotifyOne

-----------------------------------------------------------------------------
(* The owner.                                                              *)

LEMMA JoinStep ==
    ASSUME IInv, Join
    PROVE  IInv'
<1>1. /\ \A t \in Threads : at[t] = "out"
      /\ phase' = "dtor" /\ held' = [c \in Consumers |-> "none"]
      /\ UNCHANGED <<mutex_, storage, flag, op, at, thrown>>
  BY DEF Join
<1>2. TypeOK' /\ Positions'
  BY <1>1 DEF IInv, TypeOK, Positions, storage, flag
<1>3. Contents'
  BY <1>1 DEF IInv, Contents, RingHoldsQueue, storage
<1>4. Pointers'
  BY <1>1 DEF IInv, Positions, Pointers, PointerStaysValid, Threads
<1>5. NoLostWakeup'
  BY <1>1 DEF NoLostWakeup, Asleep
<1> QED
  BY <1>2, <1>3, <1>4, <1>5 DEF IInv

LEMMA DestroyElementStep ==
    ASSUME IInv, DestroyElement
    PROVE  IInv'
<1>1. /\ phase = "dtor" /\ count_ > 0 /\ PopElement
      /\ UNCHANGED <<mutex_, flag, op, at, held, phase, thrown>>
  BY DEF DestroyElement
<1>2. /\ \A t \in Threads : at[t] = "out" /\ op[t] = "none"
      /\ \A c \in Consumers : held[c] = "none"
  BY <1>1 DEF IInv, Positions, Pointers
<1>3. TypeOK' /\ Positions'
  BY <1>1, PopKeepsContents DEF IInv, TypeOK, Positions, flag
<1>4. Contents'
  BY <1>1, PopKeepsContents
<1>5. Pointers'
  BY <1>1, <1>2 DEF Pointers, PointerStaysValid, Threads
<1>6. NoLostWakeup'
  BY <1>1, <1>2 DEF NoLostWakeup, Asleep
<1> QED
  BY <1>3, <1>4, <1>5, <1>6 DEF IInv

LEMMA DeallocateStep ==
    ASSUME IInv, Deallocate
    PROVE  IInv'
<1>1. /\ phase = "dtor" /\ count_ = 0 /\ phase' = "freed"
      /\ UNCHANGED <<mutex_, storage, flag, op, at, held, thrown>>
  BY DEF Deallocate
<1>2. TypeOK' /\ Positions'
  BY <1>1 DEF IInv, TypeOK, Positions, storage, flag
<1>3. Contents'
  BY <1>1 DEF IInv, Contents, RingHoldsQueue, storage
<1>4. Pointers'
  BY <1>1 DEF IInv, Pointers, PointerStaysValid, storage
<1>5. NoLostWakeup'
  <2>1. Asleep' = {}
    BY <1>1 DEF IInv, Positions, Asleep
  <2> QED
    BY <2>1 DEF NoLostWakeup
<1> QED
  BY <1>2, <1>3, <1>4, <1>5 DEF IInv

-----------------------------------------------------------------------------
(* The invariant and what it implies.                                      *)

LEMMA InitIInv == Init => IInv
<1> SUFFICES ASSUME Init
             PROVE  IInv
  OBVIOUS
<1>1. TypeOK
  <2>1. 0 \in Slots /\ 0 \in 0 .. capacity_ /\ 0 \in 0 .. ThrowLimit
    BY Constants, MutexAssumption DEF Slots
  <2>2. \A t \in Threads : at[t] = "inside" <=> mutex_ = t
    BY Constants DEF Init
  <2> QED
    BY <2>1, <2>2 DEF Init, TypeOK, Raw
<1>2. Positions
  BY DEF Init, Positions
<1>3. Contents
  BY Constants, RingSlotZero DEF Init, Contents, RingHoldsQueue, Raw
<1>4. Pointers
  BY DEF Init, Pointers, PointerStaysValid, Threads
<1>5. NoLostWakeup
  BY DEF Init, NoLostWakeup, Asleep
<1> QED
  BY <1>1, <1>2, <1>3, <1>4, <1>5 DEF IInv

LEMMA NextIInv == IInv /\ [Next]_vars => IInv'
<1> SUFFICES ASSUME IInv, [Next]_vars
             PROVE  IInv'
  OBVIOUS
<1>1. ASSUME NEW t \in Threads, NEW o \in OpsOf(t), Call(t, o)
      PROVE  IInv'
  BY <1>1, CallStep
<1>2. ASSUME NEW t \in Threads, Operation(t) \/ SpuriousWakeup(t) \/ Throws(t)
      PROVE  IInv'
  BY <1>2, AcquireStep, EmplaceWaitsStep, EmplacesStep, TryEmplaceRefusedStep, TryPopStep,
     FrontStep, PopStep, NotifyOneStep, CloseOrClosedStep, SpuriousWakeupStep, ThrowsStep
     DEF Operation
<1>3. CASE Join \/ DestroyElement \/ Deallocate
  BY <1>3, JoinStep, DestroyElementStep, DeallocateStep
<1>4. CASE UNCHANGED vars
  <2>1. TypeOK' /\ Positions'
    BY <1>4 DEF IInv, TypeOK, Positions, vars, storage, flag
  <2>2. Contents'
    BY <1>4, SameStorage DEF vars
  <2>3. Pointers' /\ NoLostWakeup'
    BY <1>4 DEF IInv, Pointers, PointerStaysValid, NoLostWakeup, Asleep, Notifying, Awake,
       vars, storage
  <2> QED
    BY <2>1, <2>2, <2>3 DEF IInv
<1> QED
  BY <1>1, <1>2, <1>3, <1>4 DEF Next

\* The invariant behind all others, for any threads and any capacity.
THEOREM MutexInvariance == Spec => []IInv
BY InitIInv, NextIInv, PTL DEF Spec

\* Type correctness, and mutual exclusion: only its holder is in a critical
\* section.
THEOREM MutexTypeCorrect == Spec => []TypeOK
<1>1. IInv => TypeOK
  BY DEF IInv
<1> QED
  BY <1>1, MutexInvariance, PTL

\* The slots hold the elements pushed and not popped in ring order, and
\* count_ counts them (MutexBuffer.hpp:57 to 60, 119 to 123 and 141 to 144).
THEOREM RingInvariance == Spec => []RingHoldsQueue
<1>1. IInv => RingHoldsQueue
  BY DEF IInv, Contents
<1> QED
  BY <1>1, MutexInvariance, PTL

\* What front() returned outlives the critical section, and the assertion of
\* pop() (line 139) holds.
THEOREM PointerInvariance == Spec => []PointerStaysValid
<1>1. IInv => PointerStaysValid
  BY DEF IInv, Pointers
<1> QED
  BY <1>1, MutexInvariance, PTL

\* Notifying one thread after unlocking (lines 125 and 146) loses no wake-up
\* but one for each exception, however many producers and consumers compete.
THEOREM WakeupInvariance == Spec => []NoLostWakeup
<1>1. IInv => NoLostWakeup
  BY DEF IInv
<1> QED
  BY <1>1, MutexInvariance, PTL

\* The destructor leaves nothing behind (lines 37 to 48).
THEOREM MutexDestructorDrains == Spec => []NoElementLeaks
<1>1. ASSUME IInv, phase = "freed"
      PROVE  buffer_ = [s \in Slots |-> Raw] /\ popped = pushed
  <2>1. popped = pushed
    BY <1>1, RingTyped DEF IInv, Contents
  <2>2. \A s \in Slots : buffer_[s] = Raw
    BY <1>1, <2>1, RingTyped DEF IInv, Contents, RingHoldsQueue
  <2> QED
    BY <1>1, <2>1, <2>2, RingTyped
<1>2. IInv => NoElementLeaks
  BY <1>1 DEF NoElementLeaks
<1> QED
  BY <1>2, MutexInvariance, PTL

-----------------------------------------------------------------------------
(* With one consumer that uses front() and pop(), MutexBuffer implements   *)
(* BoundedFifo: every step is a step of BoundedFifo or leaves it alone.    *)

\* The abstract state a step leaves alone when it neither moves an element,
\* nor touches the flag, nor shows a result.
LEMMA Silent ==
    ASSUME UNCHANGED <<storage, flag, phase>>, FrontShown' = FrontShown
    PROVE  UNCHANGED Fifo!fifoVars
BY DEF Fifo!fifoVars, storage, flag

LEMMA SameFront ==
    ASSUME UNCHANGED held,
           \A c \in Consumers : op'[c] = "pop" /\ at'[c] \in {"enter", "inside"}
                                    <=> op[c] = "pop" /\ at[c] \in {"enter", "inside"}
    PROVE  FrontShown' = FrontShown
BY DEF FrontShown

\* The queue of the mapping is the ring's contents.
LEMMA QueueFacts ==
    ASSUME IInv
    PROVE  /\ Len(Elements(popped, pushed)) = count_
           /\ Elements(popped, pushed) = <<>> <=> count_ = 0
<1>1. popped \in Nat /\ pushed \in Nat /\ popped <= pushed /\ count_ = pushed - popped
  BY RingTyped
<1>2. /\ Len(Elements(popped, pushed)) = pushed - popped
      /\ Elements(popped, pushed) = <<>> <=> popped = pushed
  BY <1>1, ElementsAreAQueue
<1> QED
  BY <1>1, <1>2

\* Steps that move one thread on, without its consumer's pop taking effect.
LEMMA ThreadMovesOn ==
    ASSUME IInv, NEW t \in Threads,
           \/ \E o \in OpsOf(t) : o # "pop" /\ Call(t, o)
           \/ Acquire(t) \/ EmplaceWaits(t) \/ SpuriousWakeup(t) \/ TryEmplaceRefused(t)
           \/ Throws(t) \/ NotifyOne(t)
    PROVE  UNCHANGED Fifo!fifoVars
<1>1. UNCHANGED <<storage, flag, phase, held>>
  BY DEF Call, Acquire, EmplaceWaits, SpuriousWakeup, TryEmplaceRefused, Throws, NotifyOne,
         Return, Leave
<1>2. CASE \E o \in OpsOf(t) : o # "pop" /\ Call(t, o)
  <2>1. \A c \in Consumers : op'[c] = "pop" /\ at'[c] \in {"enter", "inside"}
                                <=> op[c] = "pop" /\ at[c] \in {"enter", "inside"}
    BY <1>2 DEF Call, IInv, TypeOK, Threads
  <2> QED
    BY <1>1, <2>1, SameFront, Silent
<1>3. CASE Acquire(t) \/ EmplaceWaits(t) \/ SpuriousWakeup(t)
  <2>1. \A c \in Consumers : op'[c] = "pop" /\ at'[c] \in {"enter", "inside"}
                                <=> op[c] = "pop" /\ at[c] \in {"enter", "inside"}
    BY <1>3 DEF Acquire, EmplaceWaits, SpuriousWakeup, Inside, IInv, TypeOK, Positions, Threads
  <2> QED
    BY <1>1, <2>1, SameFront, Silent
<1>4. CASE TryEmplaceRefused(t) \/ Throws(t)
  <2>1. at[t] = "inside" /\ op[t] # "pop" /\ Leave(t)
    BY <1>4 DEF TryEmplaceRefused, Throws, Inside, Return
  <2>2. \A c \in Consumers : op'[c] = "pop" /\ at'[c] \in {"enter", "inside"}
                                <=> op[c] = "pop" /\ at[c] \in {"enter", "inside"}
    BY <2>1, LeaveKeepsThreads DEF OthersStay, Threads
  <2> QED
    BY <1>1, <2>2, SameFront, Silent
<1>5. CASE NotifyOne(t)
  <2>1. at[t] = "notify" /\ op' = [op EXCEPT ![t] = "none"]
    BY <1>5 DEF NotifyOne
  <2>2. \/ at' = [at EXCEPT ![t] = "out"]
        \/ \E u \in Asleep : at' = [at EXCEPT ![t] = "out", ![u] = "woken"]
    BY <1>5 DEF NotifyOne
  <2>3. \A u \in Asleep : u \in Threads /\ at[u] = "asleep" /\ op[u] = "emplace"
    BY DEF Asleep, IInv, Positions
  <2>4. \A c \in Consumers : op'[c] = "pop" /\ at'[c] \in {"enter", "inside"}
                                <=> op[c] = "pop" /\ at[c] \in {"enter", "inside"}
    BY <2>1, <2>2, <2>3 DEF IInv, TypeOK, Threads
  <2> QED
    BY <1>1, <2>4, SameFront, Silent
<1> QED
  BY <1>2, <1>3, <1>4, <1>5

\* A pop that has been called still shows the element it will remove.
LEMMA CallPopRefines ==
    ASSUME IInv, NEW t \in Threads, "pop" \in OpsOf(t), Call(t, "pop")
    PROVE  UNCHANGED Fifo!fifoVars
<1>1. /\ UNCHANGED <<storage, flag, phase>> /\ held[t] = "item" /\ t \in Consumers
      /\ op'[t] = "pop" /\ at'[t] = "enter"
  BY OpsTyped DEF Call, IInv, TypeOK, PopOps
<1>2. FrontShown = "item" /\ FrontShown' = "item"
  BY <1>1 DEF FrontShown
<1> QED
  BY <1>1, <1>2, Silent

LEMMA EmplacesRefines ==
    ASSUME IInv, NEW t \in Threads, Emplaces(t)
    PROVE  Fifo!Push
<1>1. PICK o \in {"emplace", "try_emplace"} : Inside(t, o)
  BY DEF Emplaces
<1>2. phase = "live" /\ at[t] = "inside" /\ op[t] = o
  BY <1>1, InCriticalSection
<1>3. /\ count_ # capacity_ /\ pushed' = pushed + 1 /\ popped' = popped /\ Leave(t)
      /\ UNCHANGED <<flag, held, phase>>
  BY DEF Emplaces, PushElement, Return, Leave
<1>4. Elements(popped, pushed)' = Append(Elements(popped, pushed), pushed + 1)
  <2>1. Elements(popped, pushed + 1) = Append(Elements(popped, pushed), pushed + 1)
    BY RingTyped, ElementsPushPop
  <2> QED
    BY <1>3, <2>1
<1>5. Len(Elements(popped, pushed)) < BufferSize
  BY <1>3, QueueFacts, RingTyped DEF capacity_
<1>6. FrontShown' = FrontShown
  BY <1>2, <1>3, LeaveKeepsThreads, SameFront DEF OthersStay, Threads
<1> QED
  BY <1>2, <1>3, <1>4, <1>5, <1>6 DEF Fifo!Push, flag

\* front() answers from the queue as it is, whichever producer was last.
LEMMA FrontRefines ==
    ASSUME IInv, NEW t \in Threads, Front(t)
    PROVE  Fifo!FrontItem \/ Fifo!FrontNull
<1>1. /\ at[t] = "inside" /\ op[t] = "front" /\ phase = "live" /\ Consumers = {t}
      /\ Leave(t) /\ UNCHANGED <<storage, flag, phase>>
      /\ held' = [held EXCEPT ![t] = IF count_ = 0 THEN "null" ELSE "item"]
  BY InCriticalSection, OnlyConsumer DEF Front, Return, Leave
<1>2. held'[t] = IF count_ = 0 THEN "null" ELSE "item"
  BY <1>1 DEF IInv, TypeOK
<1>3. FrontShown' = IF count_ = 0 THEN "null" ELSE "item"
  BY <1>1, <1>2, LeaveKeepsThreads DEF FrontShown
<1>4. UNCHANGED <<Elements(popped, pushed), pushed, flag, phase>>
  BY <1>1 DEF storage
<1>5. CASE count_ = 0
  <2>1. FrontShown # "item"
    BY <1>5, RingTyped DEF FrontShown, IInv, Pointers, PointerStaysValid
  <2> QED
    BY <1>1, <1>3, <1>4, <1>5, <2>1, QueueFacts DEF Fifo!FrontNull, flag
<1>6. CASE count_ # 0
  BY <1>1, <1>3, <1>4, <1>6, QueueFacts DEF Fifo!FrontItem, flag
<1> QED
  BY <1>5, <1>6

\* Removing the oldest element.
LEMMA PopElementRefines ==
    ASSUME IInv, PopElement, count_ > 0
    PROVE  /\ Elements(popped, pushed) # <<>> /\ pushed' = pushed
           /\ Elements(popped, pushed)' = Tail(Elements(popped, pushed))
<1>1. popped' = popped + 1 /\ pushed' = pushed
  BY DEF PopElement
<1>2. popped < pushed
  BY RingTyped
<1>3. Elements(popped + 1, pushed) = Tail(Elements(popped, pushed))
  BY <1>2, RingTyped, ElementsPushPop
<1> QED
  BY <1>1, <1>3, QueueFacts, RingTyped

LEMMA PopRefines ==
    ASSUME IInv, NEW t \in Threads, Pop(t)
    PROVE  Fifo!Pop
<1>1. /\ at[t] = "inside" /\ op[t] = "pop" /\ phase = "live" /\ Consumers = {t}
      /\ PopElement /\ UnlockThenNotify(t) /\ UNCHANGED <<flag, held, phase>>
  BY InCriticalSection, OnlyConsumer DEF Pop, UnlockThenNotify
<1>2. count_ > 0 /\ held[t] = "none"
  BY <1>1 DEF IInv, Pointers, PointerStaysValid
<1>3. FrontShown = "item"
  BY <1>1 DEF FrontShown
<1>4. FrontShown' = "none"
  BY <1>1, <1>2, UnlockKeepsThreads DEF FrontShown
<1> QED
  BY <1>1, <1>2, <1>3, <1>4, PopElementRefines DEF Fifo!Pop, flag

LEMMA CloseRefines ==
    ASSUME IInv, NEW t \in Threads, Close(t)
    PROVE  Fifo!Close
<1>1. /\ at[t] = "inside" /\ op[t] = "close" /\ phase = "live" /\ Leave(t)
      /\ closed_' = TRUE /\ sealed' = IF closed_ THEN sealed ELSE pushed
      /\ UNCHANGED <<storage, held, sawClosed, phase>>
  BY InCriticalSection DEF Close, Return, Leave
<1>2. FrontShown' = FrontShown
  BY <1>1, LeaveKeepsThreads, SameFront DEF OthersStay, Threads
<1> QED
  BY <1>1, <1>2 DEF Fifo!Close, storage

LEMMA ClosedRefines ==
    ASSUME IInv, NEW t \in Threads, Closed(t)
    PROVE  Fifo!SeeClosed \/ UNCHANGED Fifo!fifoVars
<1>1. /\ at[t] = "inside" /\ op[t] = "closed" /\ phase = "live" /\ Leave(t)
      /\ sawClosed' = (sawClosed \/ closed_)
      /\ UNCHANGED <<storage, closed_, sealed, held, phase>>
  BY InCriticalSection DEF Closed, Return, Leave
<1>2. FrontShown' = FrontShown
  BY <1>1, LeaveKeepsThreads, SameFront DEF OthersStay, Threads
<1>3. CASE closed_
  <2>1. sawClosed' = TRUE
    BY <1>1, <1>3
  <2> QED
    BY <1>1, <1>2, <1>3, <2>1 DEF Fifo!SeeClosed, storage
<1>4. CASE ~closed_
  <2>1. sawClosed' = sawClosed
    BY <1>1, <1>4 DEF IInv, TypeOK
  <2> QED
    BY <1>1, <1>2, <2>1, Silent DEF flag
<1> QED
  BY <1>3, <1>4

\* The owner's steps.
LEMMA OwnerRefines ==
    ASSUME IInv, Join \/ DestroyElement \/ Deallocate
    PROVE  Fifo!Join \/ Fifo!Pop \/ Fifo!Deallocate
<1>1. CASE Join
  <2>1. /\ phase = "live" /\ phase' = "dtor" /\ UNCHANGED <<storage, flag, op, at>>
        /\ held' = [c \in Consumers |-> "none"] /\ \A c \in Consumers : at[c] = "out"
    BY <1>1 DEF Join, Threads
  <2>2. FrontShown' = "none"
    BY <2>1 DEF FrontShown
  <2> QED
    BY <2>1, <2>2 DEF Fifo!Join, storage, flag
<1>2. CASE DestroyElement
  <2>1. /\ phase = "dtor" /\ count_ > 0 /\ PopElement
        /\ UNCHANGED <<flag, op, at, held, phase>>
    BY <1>2 DEF DestroyElement
  <2>2. \A c \in Consumers : at[c] = "out" /\ held[c] = "none"
    BY <2>1 DEF IInv, Positions, Pointers, Threads
  <2>3. FrontShown' = "none"
    BY <2>1, <2>2 DEF FrontShown
  <2> QED
    BY <2>1, <2>3, PopElementRefines DEF Fifo!Pop, flag
<1>3. CASE Deallocate
  <2>1. /\ phase = "dtor" /\ count_ = 0 /\ phase' = "freed"
        /\ UNCHANGED <<storage, flag, op, at, held>>
    BY <1>3 DEF Deallocate
  <2>2. FrontShown' = FrontShown
    BY <2>1 DEF FrontShown
  <2> QED
    BY <2>1, <2>2, QueueFacts DEF Fifo!Deallocate, storage, flag
<1> QED
  BY <1>1, <1>2, <1>3

LEMMA InitRefines == Init => Fifo!Init
<1> SUFFICES ASSUME Init
             PROVE  Fifo!Init
  OBVIOUS
<1>1. Elements(popped, pushed) = <<>>
  BY ElementsAreAQueue DEF Init
<1>2. FrontShown = "none"
  BY DEF Init, FrontShown, Threads
<1> QED
  BY <1>1, <1>2, MutexAssumption DEF Init, Fifo!Init

LEMMA NextRefines ==
    ConsumerApi = "front_pop" /\ IInv /\ [Next]_vars => [Fifo!Next]_(Fifo!fifoVars)
<1> SUFFICES ASSUME ConsumerApi = "front_pop", IInv, [Next]_vars
             PROVE  Fifo!Next \/ UNCHANGED Fifo!fifoVars
  OBVIOUS
<1>1. ASSUME NEW t \in Threads, NEW o \in OpsOf(t), Call(t, o)
      PROVE  UNCHANGED Fifo!fifoVars
  BY <1>1, CallPopRefines, ThreadMovesOn
<1>2. ASSUME NEW t \in Threads, Operation(t) \/ SpuriousWakeup(t) \/ Throws(t)
      PROVE  Fifo!Next \/ UNCHANGED Fifo!fifoVars
  <2>1. CASE Emplaces(t)
    BY <2>1, EmplacesRefines DEF Fifo!Next
  <2>2. CASE Front(t)
    BY <2>2, FrontRefines DEF Fifo!Next
  <2>3. CASE Pop(t)
    BY <2>3, PopRefines DEF Fifo!Next
  <2>4. CASE Close(t)
    BY <2>4, CloseRefines DEF Fifo!Next
  <2>5. CASE Closed(t)
    BY <2>5, ClosedRefines DEF Fifo!Next
  <2>6. CASE TryPop(t)
    <3>1. Inside(t, "try_pop")
      BY <2>6 DEF TryPop
    <3>2. "try_pop" \in OpsOf(t)
      BY <3>1, InCriticalSection
    <3> QED
      BY <3>2 DEF OpsOf, PushOps, PopOps
  <2>7. CASE \/ Acquire(t) \/ EmplaceWaits(t) \/ SpuriousWakeup(t) \/ TryEmplaceRefused(t)
             \/ Throws(t) \/ NotifyOne(t)
    BY <2>7, ThreadMovesOn
  <2> QED
    BY <1>2, <2>1, <2>2, <2>3, <2>4, <2>5, <2>6, <2>7 DEF Operation
<1>3. CASE Join \/ DestroyElement \/ Deallocate
  BY <1>3, OwnerRefines DEF Fifo!Next
<1>4. CASE UNCHANGED vars
  BY <1>4, SameFront, Silent DEF vars
<1> QED
  BY <1>1, <1>2, <1>3, <1>4 DEF Next

\* The buffer with a mutex keeps the promise of the lock-free one
\* (MutexBuffer.hpp:95): its threads see a queue of capacity() elements,
\* whatever they overtake each other and whoever sleeps.
THEOREM MutexRefinement ==
    ASSUME ConsumerApi = "front_pop"
    PROVE  Spec => ImplementsFifo
<1>1. IInv /\ [Next]_vars => [Fifo!Next]_(Fifo!fifoVars)
  BY NextRefines
<1> QED
  BY <1>1, InitRefines, MutexInvariance, PTL DEF Spec, ImplementsFifo, Fifo!Spec
=============================================================================
