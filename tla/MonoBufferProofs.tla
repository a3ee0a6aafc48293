-------------------------- MODULE MonoBufferProofs --------------------------
(***************************************************************************)
(* The safety of the buffers with monotonic cursors, and that they         *)
(* implement BoundedFifo: for every width of the cursors, every array and  *)
(* every number of elements, across any number of overflows if the slots   *)
(* divide the range of the cursors, and up to the overflow if not.         *)
(***************************************************************************)
EXTENDS MonoVariants, CursorArithmeticProofs

-----------------------------------------------------------------------------
(* What the tests and the indices compute.                                 *)

\* The number of values of a cursor.
CursorValues == 2 ^ CursorBits

LEMMA Constants ==
    /\ CursorValues \in Nat \ {0} /\ MaxSlots \in Nat /\ ItemCount \in Nat
    /\ MaxSlots < CursorValues
    /\ \A k \in 0 .. CursorBits : 2 ^ k \in Nat \ {0} /\ CursorValues % (2 ^ k) = 0
<1>1. CursorBits \in 0 .. CursorBits
  BY MonoAssumption
<1> QED
  BY <1>1, MonoAssumption DEF CursorValues

\* The types and bounds that the arithmetic needs.
LEMMA Counted ==
    ASSUME IInv
    PROVE  /\ capacity_ \in Nat \ {0} /\ capacity_ <= MaxSlots /\ capacity_ < CursorValues
           /\ pushed \in Nat /\ popped \in Nat /\ popped <= pushed
           /\ pushed - popped <= capacity_ /\ pushed - popped < CursorValues
           /\ pushCursor_ = pushed % CursorValues /\ popCursor_ = popped % CursorValues
           /\ ItemLimit \in Nat /\ pushed <= ItemLimit
           /\ slot \in [Slots -> Nat]
<1>1. capacity_ \in Nat \ {0} /\ capacity_ <= MaxSlots /\ capacity_ < CursorValues
  BY Constants DEF IInv, TypeOK
<1>2. ItemLimit \in Nat
  BY Constants DEF ItemLimit, CursorValues
<1>3. pushCursor_ = pushed % CursorValues /\ popCursor_ = popped % CursorValues
  BY DEF IInv, Cursors, SizeT, CursorValues
<1> QED
  BY <1>1, <1>2, <1>3, Constants DEF IInv, TypeOK, Cursors

\* The difference of the cursors is the number of elements (MonoModulus.hpp:75,
\* MonoBitmask.hpp:77), and they are equal just when there are none.
LEMMA FullAndEmpty ==
    ASSUME IInv
    PROVE  /\ Full <=> pushed - popped = capacity_
           /\ Empty <=> popped = pushed
<1>1. (pushCursor_ - popCursor_) % CursorValues = pushed - popped
  BY Counted, Constants, DifferenceOfWrappedCursors
<1>2. Full <=> pushed - popped = capacity_
  BY <1>1 DEF Full, SizeT, CursorValues
<1>3. ASSUME Empty PROVE popped = pushed
  <2>1. pushCursor_ \in Nat /\ pushCursor_ - popCursor_ = 0
    BY <1>3, Counted, Constants, DivMod DEF Empty
  <2>2. 0 % CursorValues = 0
    BY Constants
  <2> QED
    BY <1>1, <2>1, <2>2, Counted
<1>4. ASSUME popped = pushed PROVE Empty
  BY <1>4, Counted DEF Empty
<1> QED
  BY <1>2, <1>3, <1>4

\* A cursor designates the slot of its element, before and, where the slots
\* divide the cursor's values, after its overflow.
LEMMA IndexOfElement ==
    ASSUME IInv, NEW n \in Nat, n < ItemLimit
    PROVE  Index(n % CursorValues) = RingSlot(n, capacity_) /\ RingSlot(n, capacity_) \in Slots
<1>1. RingSlot(n, capacity_) \in Slots
  BY Counted, RingSlotType DEF Slots
<1>2. CASE CursorValues % capacity_ = 0
  BY <1>1, <1>2, Counted, Constants, SlotOfWrappedCursor DEF Index
<1>3. CASE CursorValues % capacity_ # 0
  <2>1. n < CursorValues
    BY <1>3, Constants DEF ItemLimit, CursorValues
  <2>2. n % CursorValues = n
    BY <2>1, Constants
  <2> QED
    BY <1>1, <2>2 DEF Index
<1> QED
  BY <1>2, <1>3

\* The producer constructs where the ring has room.
LEMMA ProducerSlot ==
    ASSUME IInv, prodAt # "idle"
    PROVE  /\ Index(pushCursor_) = RingSlot(pushed, capacity_) /\ RingSlot(pushed, capacity_) \in Slots
           /\ pushed - popped < capacity_ /\ pushed < ItemLimit /\ phase = "live"
<1>1. pushed - popped < capacity_ /\ pushed < ItemLimit /\ phase = "live"
  BY DEF IInv, Tested
<1> QED
  BY <1>1, Counted, IndexOfElement

\* The consumer destroys the oldest element.
LEMMA ConsumerSlot ==
    ASSUME IInv, consAt # "idle" \/ front = "item"
    PROVE  /\ Index(popCursor_) = RingSlot(popped, capacity_) /\ RingSlot(popped, capacity_) \in Slots
           /\ popped < pushed
<1>1. popped < pushed
  BY DEF IInv, Tested
<1>2. popped < ItemLimit
  BY <1>1, Counted
<1> QED
  BY <1>1, <1>2, Counted, IndexOfElement

-----------------------------------------------------------------------------
(* Steps that leave the slots alone.                                       *)

LEMMA SameObject ==
    ASSUME UNCHANGED object
    PROVE  UNCHANGED <<class, capacity_, Slots, ItemLimit>>
BY DEF object, Slots, ItemLimit

LEMMA SameRing ==
    ASSUME IInv, UNCHANGED <<object, slot>>, Alive' = Alive
    PROVE  Ring'
BY DEF IInv, Ring, object, Slots

LEMMA SameCursors ==
    ASSUME IInv, UNCHANGED <<object, atomics, pushed, popped>>
    PROVE  Cursors'
BY SameObject DEF IInv, Cursors, atomics, SizeT

LEMMA BeginPushStep ==
    ASSUME IInv, BeginPush
    PROVE  IInv'
<1>1. /\ phase = "live" /\ prodAt = "idle" /\ pushed < ItemLimit /\ ~Full /\ prodAt' = "construct"
      /\ UNCHANGED <<object, atomics, slot, consAt, front, phase, history>>
  BY DEF BeginPush, FindRoom
<1>2. TypeOK'
  BY <1>1, SameObject DEF IInv, TypeOK, atomics, history
<1>3. Cursors'
  BY <1>1, SameCursors DEF history
<1>4. pushed - popped < capacity_
  BY <1>1, FullAndEmpty, Counted
<1>5. Tested'
  BY <1>1, <1>4, SameObject DEF IInv, Tested, history
<1>6. Ring'
  <2>1. Alive' = Alive
    BY <1>1 DEF Alive, history
  <2> QED
    BY <1>1, <2>1, SameRing
<1> QED
  BY <1>2, <1>3, <1>5, <1>6 DEF IInv

LEMMA ConstructThrowsStep ==
    ASSUME IInv, ConstructThrows
    PROVE  IInv'
<1>1. /\ prodAt = "construct" /\ prodAt' = "idle"
      /\ UNCHANGED <<object, atomics, slot, consAt, front, phase, history>>
  BY DEF ConstructThrows
<1>2. TypeOK'
  BY <1>1, SameObject DEF IInv, TypeOK, atomics, history
<1>3. Cursors'
  BY <1>1, SameCursors DEF history
<1>4. Tested'
  BY <1>1, SameObject DEF IInv, Tested, history
<1>5. Ring'
  <2>1. Alive' = Alive
    BY <1>1 DEF Alive, history
  <2> QED
    BY <1>1, <2>1, SameRing
<1> QED
  BY <1>2, <1>3, <1>4, <1>5 DEF IInv

\* Storing the next value of a cursor, overflow included, counts one element.
LEMMA NextCursor ==
    ASSUME NEW n \in Nat
    PROVE  /\ SizeT((n % CursorValues) + 1) = SizeT(n + 1)
           /\ SizeT(n + 1) \in 0 .. CursorValues - 1
<1>1. n % CursorValues \in 0 .. CursorValues - 1 /\ (n + 1) % CursorValues \in 0 .. CursorValues - 1
  <2>1. n + 1 \in Nat
    OBVIOUS
  <2> QED
    BY <2>1, Constants, DivMod
<1>2. RingSlot(n + 1, CursorValues) = ModulusNext(RingSlot(n, CursorValues), CursorValues)
  BY <1>1, Constants, BranchNextIsSuccessor, BranchNextIsModulusNext DEF RingSlot
<1> QED
  BY <1>1, <1>2 DEF SizeT, CursorValues, RingSlot, ModulusNext

LEMMA PublishPushStep ==
    ASSUME IInv, PublishPush
    PROVE  IInv'
<1>1. /\ prodAt = "publish" /\ prodAt' = "idle"
      /\ pushCursor_' = SizeT(pushCursor_ + 1) /\ pushed' = pushed + 1
      /\ UNCHANGED <<object, popCursor_, closed_, slot, consAt, front, phase, popped, sealed, sawClosed>>
  BY DEF PublishPush
<1>2. pushed - popped < capacity_ /\ pushed < ItemLimit /\ phase = "live"
  BY <1>1, ProducerSlot
<1>3. pushCursor_' = SizeT(pushed') /\ pushCursor_' \in 0 .. CursorValues - 1
  BY <1>1, Counted, NextCursor
<1>4. TypeOK'
  BY <1>1, <1>3, SameObject DEF IInv, TypeOK, CursorValues
<1>5. Cursors'
  <2>1. popCursor_' = SizeT(popped)'
    BY <1>1 DEF IInv, Cursors, SizeT
  <2>2. popped' <= pushed' /\ pushed' - popped' <= capacity_' /\ pushed' <= ItemLimit'
    BY <1>1, <1>2, Counted, SameObject
  <2>3. class' = "bitmask" => (2 ^ CursorBits) % capacity_' = 0
    BY <1>1 DEF IInv, Cursors, object
  <2> QED
    BY <1>3, <2>1, <2>2, <2>3 DEF Cursors, SizeT
<1>6. Tested'
  BY <1>1, <1>2, Counted, SameObject DEF IInv, Tested
<1>7. Ring'
  <2>1. Alive' = Alive
    BY <1>1, Counted DEF Alive
  <2> QED
    BY <1>1, <2>1, SameRing
<1> QED
  BY <1>4, <1>5, <1>6, <1>7 DEF IInv

LEMMA CloseOrClosedStep ==
    ASSUME IInv, Close \/ Closed
    PROVE  IInv'
<1>1. UNCHANGED <<object, pushCursor_, popCursor_, slot, prodAt, consAt, front, phase, pushed, popped>>
  BY DEF Close, Closed, atomics
<1>2. closed_' \in BOOLEAN /\ sawClosed' \in BOOLEAN /\ sealed' \in Nat
  <2>1. closed_ \in BOOLEAN /\ sawClosed \in BOOLEAN /\ sealed \in Nat /\ pushed \in Nat
    BY DEF IInv, TypeOK
  <2>2. CASE Close
    BY <2>1, <2>2 DEF Close
  <2>3. CASE Closed
    BY <2>1, <2>3 DEF Closed, atomics
  <2> QED
    BY <2>2, <2>3
<1>3. TypeOK'
  BY <1>1, <1>2, SameObject DEF IInv, TypeOK
<1>4. Cursors'
  BY <1>1, SameObject DEF IInv, Cursors, SizeT
<1>5. Tested'
  BY <1>1, SameObject DEF IInv, Tested
<1>6. Ring'
  <2>1. Alive' = Alive
    BY <1>1 DEF Alive
  <2> QED
    BY <1>1, <2>1, SameRing
<1> QED
  BY <1>3, <1>4, <1>5, <1>6 DEF IInv

\* Nobody pushes after the join, so that an empty answer is final then.
LEMMA FrontStep ==
    ASSUME IInv, Front
    PROVE  IInv'
<1>1. /\ consAt = "idle" /\ phase # "freed"
      /\ front' = IF Empty THEN "null" ELSE "item"
      /\ UNCHANGED <<object, atomics, slot, prodAt, consAt, phase, history>>
  BY DEF Front
<1>2. TypeOK'
  BY <1>1, SameObject DEF IInv, TypeOK, atomics, history
<1>3. Cursors'
  BY <1>1, SameCursors DEF history
<1>4. Tested'
  BY <1>1, FullAndEmpty, Counted, SameObject DEF IInv, Tested, history
<1>5. Ring'
  <2>1. Alive' = Alive
    BY <1>1 DEF Alive, history
  <2> QED
    BY <1>1, <2>1, SameRing
<1> QED
  BY <1>2, <1>3, <1>4, <1>5 DEF IInv

LEMMA PopOrAssertStep ==
    ASSUME IInv, Pop \/ PopAssert
    PROVE  IInv'
<1>1. /\ consAt \in {"idle", "assert"} /\ front = "item"
      /\ UNCHANGED <<object, atomics, slot, prodAt, front, phase, history>>
  BY DEF Pop, PopAssert, IInv, Tested
<1>2. popped < pushed /\ ~Empty
  BY <1>1, ConsumerSlot, FullAndEmpty, Counted
<1>3. consAt' \in {"assert", "destroy"}
  BY <1>2 DEF Pop, PopAssert
<1>4. TypeOK'
  BY <1>1, <1>3, SameObject DEF IInv, TypeOK, atomics, history
<1>5. Cursors'
  BY <1>1, SameCursors DEF history
<1>6. Tested'
  <2>1. phase # "freed"
    BY <1>1 DEF IInv, Tested
  <2> QED
    BY <1>1, <1>2, <1>3, <2>1, SameObject DEF IInv, Tested, history
<1>7. Ring'
  <2>1. Alive' = Alive
    BY <1>1, <1>3 DEF Alive, history
  <2> QED
    BY <1>1, <2>1, SameRing
<1> QED
  BY <1>4, <1>5, <1>6, <1>7 DEF IInv

LEMMA PublishPopStep ==
    ASSUME IInv, PublishPop
    PROVE  IInv'
<1>1. /\ consAt = "publish" /\ consAt' = "idle" /\ front' = "none"
      /\ popCursor_' = SizeT(popCursor_ + 1) /\ popped' = popped + 1
      /\ UNCHANGED <<object, pushCursor_, closed_, slot, prodAt, phase, pushed, sealed, sawClosed>>
  BY DEF PublishPop
<1>2. popped < pushed /\ phase # "freed"
  BY <1>1, ConsumerSlot DEF IInv, Tested
<1>3. popCursor_' = SizeT(popped') /\ popCursor_' \in 0 .. CursorValues - 1
  BY <1>1, Counted, NextCursor
<1>4. TypeOK'
  BY <1>1, <1>3, SameObject DEF IInv, TypeOK, CursorValues
<1>5. Cursors'
  <2>1. pushCursor_' = SizeT(pushed)'
    BY <1>1 DEF IInv, Cursors, SizeT
  <2>2. popped' <= pushed' /\ pushed' - popped' <= capacity_' /\ pushed' <= ItemLimit'
    BY <1>1, <1>2, Counted, SameObject
  <2>3. class' = "bitmask" => (2 ^ CursorBits) % capacity_' = 0
    BY <1>1 DEF IInv, Cursors, object
  <2> QED
    BY <1>3, <2>1, <2>2, <2>3 DEF Cursors, SizeT
<1>6. Tested'
  BY <1>1, <1>2, Counted, SameObject DEF IInv, Tested
<1>7. Ring'
  <2>1. Alive' = Alive
    BY <1>1, Counted DEF Alive
  <2> QED
    BY <1>1, <2>1, SameRing
<1> QED
  BY <1>4, <1>5, <1>6, <1>7 DEF IInv

LEMMA JoinOrDeallocateStep ==
    ASSUME IInv, Join \/ Deallocate
    PROVE  IInv'
<1>1. /\ consAt = "idle" /\ UNCHANGED <<object, atomics, slot, prodAt, consAt, history>>
      /\ \/ phase = "live" /\ prodAt = "idle" /\ phase' = "dtor" /\ front' = "none"
         \/ phase = "dtor" /\ front = "null" /\ phase' = "freed" /\ front' = "null"
  BY DEF Join, Deallocate
<1>2. TypeOK'
  BY <1>1, SameObject DEF IInv, TypeOK, atomics, history
<1>3. Cursors'
  BY <1>1, SameCursors DEF history
<1>4. Tested'
  BY <1>1, SameObject DEF IInv, Tested, history
<1>5. Ring'
  <2>1. Alive' = Alive
    BY <1>1 DEF Alive, history
  <2> QED
    BY <1>1, <2>1, SameRing
<1> QED
  BY <1>2, <1>3, <1>4, <1>5 DEF IInv

-----------------------------------------------------------------------------
(* Constructing and destroying.                                            *)

\* No element alive is further than the array from the oldest one.
LEMMA AliveBounds ==
    ASSUME IInv, NEW n \in Alive
    PROVE  /\ n \in Nat /\ n - 1 \in Nat /\ popped <= n - 1 /\ n - 1 < popped + capacity_
           /\ prodAt # "publish" => n - 1 < pushed
           /\ RingSlot(n - 1, capacity_) \in Slots
<1>1. /\ n \in Nat /\ n - 1 \in Nat /\ popped <= n - 1
      /\ n <= pushed \/ (prodAt = "publish" /\ n <= pushed + 1)
  BY Counted DEF Alive
<1>2. n - 1 < popped + capacity_
  BY <1>1, Counted, ProducerSlot
<1>3. prodAt # "publish" => n - 1 < pushed
  BY <1>1, Counted
<1>4. RingSlot(n - 1, capacity_) \in Slots
  BY <1>1, Counted, RingSlotType DEF Slots
<1> QED
  BY <1>1, <1>2, <1>3, <1>4

LEMMA ConstructStep ==
    ASSUME IInv, Construct
    PROVE  IInv'
<1>1. /\ prodAt = "construct" /\ prodAt' = "publish"
      /\ slot' = [slot EXCEPT ![RingSlot(pushed, capacity_)] = pushed + 1]
      /\ UNCHANGED <<object, atomics, consAt, front, phase, history>>
  BY ProducerSlot DEF Construct
<1>2. RingSlot(pushed, capacity_) \in Slots /\ pushed - popped < capacity_
  BY <1>1, ProducerSlot
<1>3. TypeOK'
  <2>1. slot' \in [Slots -> Nat]
    BY <1>1, <1>2, Counted
  <2> QED
    BY <1>1, <2>1, SameObject DEF IInv, TypeOK, atomics, history
<1>4. Cursors'
  BY <1>1, SameCursors DEF history
<1>5. Tested'
  BY <1>1, SameObject DEF IInv, Tested, history
<1>6. Alive' = Alive \cup {pushed + 1}
  <2>1. consAt = "publish" => popped < pushed
    BY ConsumerSlot
  <2> QED
    BY <1>1, <2>1, Counted DEF Alive, history
<1>7. ASSUME NEW n \in Alive'
      PROVE  slot'[RingSlot(n - 1, capacity_)] = n
  <2>1. CASE n = pushed + 1
    BY <1>1, <1>2, <2>1, Counted
  <2>2. CASE n # pushed + 1
    <3>1. n \in Alive
      BY <1>6, <2>2
    <3>2. n - 1 \in Nat /\ n - 1 < pushed /\ pushed < (n - 1) + capacity_
      BY <1>1, <1>2, <3>1, AliveBounds, Counted
    <3>3. RingSlot(n - 1, capacity_) # RingSlot(pushed, capacity_)
      BY <3>2, Counted, RingSlotDistinct
    <3>4. slot[RingSlot(n - 1, capacity_)] = n /\ RingSlot(n - 1, capacity_) \in Slots
      BY <3>1, AliveBounds DEF IInv, Ring
    <3> QED
      BY <1>1, <3>3, <3>4, Counted
  <2> QED
    BY <2>1, <2>2
<1>8. ASSUME NEW s \in Slots, slot'[s] # Raw
      PROVE  slot'[s] \in Alive' /\ RingSlot(slot'[s] - 1, capacity_) = s
  <2>1. CASE s = RingSlot(pushed, capacity_)
    BY <1>1, <1>6, <2>1, Counted
  <2>2. CASE s # RingSlot(pushed, capacity_)
    <3>1. slot'[s] = slot[s]
      BY <1>1, <2>2, Counted
    <3> QED
      BY <1>6, <1>8, <3>1 DEF IInv, Ring
  <2> QED
    BY <2>1, <2>2
<1>9. Ring'
  BY <1>1, <1>7, <1>8, SameObject DEF Ring
<1> QED
  BY <1>3, <1>4, <1>5, <1>9 DEF IInv

LEMMA PopDestroyStep ==
    ASSUME IInv, PopDestroy
    PROVE  IInv'
<1>1. /\ consAt = "destroy" /\ consAt' = "publish"
      /\ slot' = [slot EXCEPT ![RingSlot(popped, capacity_)] = Raw]
      /\ UNCHANGED <<object, atomics, prodAt, front, phase, history>>
  BY ConsumerSlot DEF PopDestroy
<1>2. RingSlot(popped, capacity_) \in Slots /\ popped < pushed
  BY <1>1, ConsumerSlot
<1>3. TypeOK'
  BY <1>1, <1>2, Counted, SameObject DEF IInv, TypeOK, atomics, history, Raw
<1>4. Cursors'
  BY <1>1, SameCursors DEF history
<1>5. Tested'
  BY <1>1, SameObject DEF IInv, Tested, history
<1>6. Alive' = Alive \ {popped + 1}
  BY <1>1, Counted DEF Alive, history
<1>7. ASSUME NEW n \in Alive'
      PROVE  slot'[RingSlot(n - 1, capacity_)] = n
  <2>1. n \in Alive /\ n # popped + 1
    BY <1>6
  <2>2. n - 1 \in Nat /\ popped < n - 1 /\ n - 1 < popped + capacity_
    BY <2>1, AliveBounds, Counted
  <2>3. RingSlot(n - 1, capacity_) # RingSlot(popped, capacity_)
    BY <2>2, Counted, RingSlotDistinct
  <2>4. slot[RingSlot(n - 1, capacity_)] = n /\ RingSlot(n - 1, capacity_) \in Slots
    BY <2>1, AliveBounds DEF IInv, Ring
  <2> QED
    BY <1>1, <2>3, <2>4, Counted
<1>8. ASSUME NEW s \in Slots, slot'[s] # Raw
      PROVE  slot'[s] \in Alive' /\ RingSlot(slot'[s] - 1, capacity_) = s
  <2>1. s # RingSlot(popped, capacity_) /\ slot'[s] = slot[s]
    BY <1>1, <1>8, Counted
  <2>2. slot[s] \in Alive /\ RingSlot(slot[s] - 1, capacity_) = s
    BY <1>8, <2>1 DEF IInv, Ring
  <2>3. slot[s] # popped + 1
    BY <2>1, <2>2, Counted
  <2> QED
    BY <1>6, <2>1, <2>2, <2>3
<1>9. Ring'
  BY <1>1, <1>7, <1>8, SameObject DEF Ring
<1> QED
  BY <1>3, <1>4, <1>5, <1>9 DEF IInv

-----------------------------------------------------------------------------
(* The invariant and what it implies.                                      *)

LEMMA InitIInv == Init => IInv
<1> SUFFICES ASSUME Init
             PROVE  IInv
  OBVIOUS
<1>1. PICK n \in 1 .. MaxSlots :
          \/ class = "modulus" /\ capacity_ \in SPSCBufferMonoModulus(n)
          \/ class = "bitmask" /\ capacity_ \in SPSCBufferMonoBitmask(n)
  BY DEF Init
<1>2. /\ class \in {"modulus", "bitmask"} /\ capacity_ \in 1 .. MaxSlots
      /\ class = "bitmask" => CursorValues % capacity_ = 0
  <2>1. capacity_ <= MaxSlots
    BY DEF Init
  <2>2. CASE class = "modulus" /\ capacity_ \in SPSCBufferMonoModulus(n)
    BY <2>1, <2>2, Constants DEF SPSCBufferMonoModulus
  <2>3. CASE class = "bitmask" /\ capacity_ \in SPSCBufferMonoBitmask(n)
    <3>1. PICK k \in 0 .. CursorBits : capacity_ = 2 ^ k
      BY <2>3 DEF SPSCBufferMonoBitmask
    <3> QED
      BY <2>1, <2>3, <3>1, Constants
  <2> QED
    BY <1>1, <2>2, <2>3
<1>3. SizeT(0) = 0 /\ 0 \in 0 .. CursorValues - 1
  BY Constants DEF SizeT, CursorValues
<1>4. TypeOK
  BY <1>2, <1>3 DEF Init, TypeOK, Raw, CursorValues
<1>5. Cursors
  <2>1. ItemLimit \in Nat
    BY Constants DEF ItemLimit, CursorValues
  <2> QED
    BY <1>2, <1>3, <2>1 DEF Init, Cursors, CursorValues
<1>6. Tested
  BY DEF Init, Tested
<1>7. Ring
  BY DEF Init, Ring, Alive, Raw
<1> QED
  BY <1>4, <1>5, <1>6, <1>7 DEF IInv

LEMMA NextIInv == IInv /\ [Next]_vars => IInv'
<1> SUFFICES ASSUME IInv, [Next]_vars
             PROVE  IInv'
  OBVIOUS
<1>1. CASE UNCHANGED vars
  <2>1. /\ UNCHANGED <<object, atomics, slot, prodAt, consAt, front, phase, history>>
        /\ Alive' = Alive
    BY <1>1 DEF vars, Alive, history
  <2>2. TypeOK' /\ Tested'
    BY <2>1, SameObject DEF IInv, TypeOK, Tested, atomics, history
  <2> QED
    BY <2>1, <2>2, SameRing, SameCursors DEF IInv, history
<1> QED
  BY <1>1, BeginPushStep, ConstructThrowsStep, ConstructStep, PublishPushStep, CloseOrClosedStep,
     FrontStep, PopOrAssertStep, PopDestroyStep, PublishPopStep, JoinOrDeallocateStep
     DEF Next, Operation

\* The invariant behind all others: for cursors of any width, before and
\* after their overflow.
THEOREM MonoInvariance == Spec => []IInv
BY InitIInv, NextIInv, PTL DEF Spec

\* Elements are constructed in raw slots and the consumer finds the oldest
\* (README.md:89 and 90).
THEOREM CircularInvariance == Spec => []CircularArithmetic
<1>1. ASSUME IInv, prodAt = "construct"
      PROVE  slot[Index(pushCursor_)] = Raw
  <2>1. /\ Index(pushCursor_) = RingSlot(pushed, capacity_) /\ RingSlot(pushed, capacity_) \in Slots
        /\ pushed - popped < capacity_
    BY <1>1, ProducerSlot
  <2>2. SUFFICES ASSUME slot[RingSlot(pushed, capacity_)] # Raw
                 PROVE  FALSE
    BY <2>1
  <2>3. PICK n \in Alive : RingSlot(n - 1, capacity_) = RingSlot(pushed, capacity_)
    BY <1>1, <2>1, <2>2 DEF IInv, Ring
  <2>4. n - 1 \in Nat /\ n - 1 < pushed /\ pushed < (n - 1) + capacity_
    BY <1>1, <2>1, AliveBounds, Counted
  <2> QED
    BY <1>1, <2>3, <2>4, Counted, RingSlotDistinct
<1>2. ASSUME IInv, consAt \in {"assert", "destroy"}
      PROVE  slot[Index(popCursor_)] = popped + 1
  <2>1. Index(popCursor_) = RingSlot(popped, capacity_) /\ popped < pushed
    BY <1>2, ConsumerSlot
  <2>2. popped + 1 \in Alive /\ (popped + 1) - 1 = popped
    BY <1>2, <2>1, Counted DEF Alive
  <2> QED
    BY <1>2, <2>1, <2>2 DEF IInv, Ring
<1>3. IInv => CircularArithmetic
  BY <1>1, <1>2 DEF CircularArithmetic
<1> QED
  BY <1>3, MonoInvariance, PTL

\* The full test (MonoModulus.hpp:75, MonoBitmask.hpp:77) keeps the elements
\* to the slots.
THEOREM SlotsSuffice == Spec => []HoldsSlots
<1>1. IInv => HoldsSlots
  BY DEF IInv, Cursors, HoldsSlots
<1> QED
  BY <1>1, MonoInvariance, PTL

\* The destructor destroys what the consumer has left, wherever the cursors
\* stand.
THEOREM MonoDestructorDrains == Spec => []NoElementLeaks
<1>1. ASSUME IInv, phase = "freed"
      PROVE  popped = pushed /\ \A s \in Slots : slot[s] = Raw
  <2>1. popped = pushed /\ prodAt = "idle" /\ consAt = "idle"
    BY <1>1 DEF IInv, Tested
  <2>2. Alive = {}
    BY <1>1, <2>1, Counted DEF Alive
  <2> QED
    BY <1>1, <2>1, <2>2 DEF IInv, Ring
<1>2. IInv => NoElementLeaks
  BY <1>1 DEF NoElementLeaks
<1> QED
  BY <1>2, MonoInvariance, PTL

-----------------------------------------------------------------------------
(* The refinement of BoundedFifo.                                          *)

LEMMA QueueFacts ==
    ASSUME IInv
    PROVE  /\ Len(Elements(popped, pushed)) = pushed - popped
           /\ Elements(popped, pushed) = <<>> <=> popped = pushed
           /\ Elements(popped, pushed + 1) = Append(Elements(popped, pushed), pushed + 1)
           /\ popped < pushed => Elements(popped + 1, pushed) = Tail(Elements(popped, pushed))
<1>1. pushed \in Nat /\ popped \in Nat /\ popped <= pushed
  BY Counted
<1> QED
  BY <1>1, ElementsAreAQueue, ElementsPushPop

LEMMA PublishPushRefines ==
    ASSUME IInv, PublishPush
    PROVE  Fifo!Push
<1>1. /\ prodAt = "publish" /\ pushed' = pushed + 1
      /\ UNCHANGED <<closed_, front, phase, popped, sealed, sawClosed>>
  BY DEF PublishPush
<1>2. phase = "live" /\ Len(Elements(popped, pushed)) < capacity_
  BY <1>1, ProducerSlot, QueueFacts, Counted, Constants
<1> QED
  BY <1>1, <1>2, QueueFacts DEF Fifo!Push

LEMMA FrontRefines ==
    ASSUME IInv, Front
    PROVE  Fifo!FrontItem \/ Fifo!FrontNull
<1>1. /\ phase # "freed" /\ front' = IF Empty THEN "null" ELSE "item"
      /\ UNCHANGED <<atomics, phase, history>>
  BY DEF Front
<1>2. CASE Empty
  <2>1. popped = pushed /\ front # "item"
    BY <1>2, FullAndEmpty, Counted DEF IInv, Tested
  <2> QED
    BY <1>1, <1>2, <2>1, QueueFacts DEF Fifo!FrontNull, atomics, history
<1>3. CASE ~Empty
  BY <1>1, <1>3, FullAndEmpty, QueueFacts DEF Fifo!FrontItem, atomics, history
<1> QED
  BY <1>2, <1>3

LEMMA PublishPopRefines ==
    ASSUME IInv, PublishPop
    PROVE  Fifo!Pop
<1>1. /\ consAt = "publish" /\ front' = "none" /\ popped' = popped + 1
      /\ UNCHANGED <<closed_, phase, pushed, sealed, sawClosed>>
  BY DEF PublishPop
<1>2. popped < pushed /\ front = "item" /\ phase # "freed"
  BY <1>1, ConsumerSlot DEF IInv, Tested
<1> QED
  BY <1>1, <1>2, QueueFacts, Counted DEF Fifo!Pop

LEMMA FlagRefines ==
    ASSUME IInv, Close \/ Closed
    PROVE  Fifo!Close \/ Fifo!SeeClosed \/ UNCHANGED Fifo!fifoVars
<1>1. CASE Close
  BY <1>1 DEF Close, Fifo!Close
<1>2. CASE Closed
  <2>1. /\ phase = "live" /\ sawClosed' = (sawClosed \/ closed_)
        /\ UNCHANGED <<capacity_, closed_, front, phase, pushed, popped, sealed>>
    BY <1>2 DEF Closed, object, atomics
  <2>2. CASE closed_
    <3>1. sawClosed' = TRUE
      BY <2>1, <2>2
    <3> QED
      BY <2>1, <2>2, <3>1 DEF Fifo!SeeClosed
  <2>3. CASE ~closed_
    <3>1. sawClosed' = sawClosed
      BY <2>1, <2>3 DEF IInv, TypeOK
    <3> QED
      BY <2>1, <3>1 DEF Fifo!fifoVars
  <2> QED
    BY <2>2, <2>3
<1> QED
  BY <1>1, <1>2

LEMMA OwnerRefines ==
    ASSUME IInv, Join \/ Deallocate
    PROVE  Fifo!Join \/ Fifo!Deallocate
<1>1. CASE Join
  BY <1>1 DEF Join, Fifo!Join, atomics, history
<1>2. CASE Deallocate
  <2>1. Elements(popped, pushed) = <<>>
    BY <1>2, QueueFacts DEF Deallocate, IInv, Tested
  <2> QED
    BY <1>2, <2>1 DEF Deallocate, Fifo!Deallocate, atomics, history
<1> QED
  BY <1>1, <1>2

LEMMA InitRefines == Init => Fifo!Init
<1> SUFFICES ASSUME Init
             PROVE  Fifo!Init
  OBVIOUS
<1>1. Elements(popped, pushed) = <<>>
  BY ElementsAreAQueue DEF Init
<1>2. capacity_ \in Nat \ {0}
  BY InitIInv, Counted
<1> QED
  BY <1>1, <1>2 DEF Init, Fifo!Init

LEMMA NextRefines == IInv /\ [Next]_vars => [Fifo!Next]_(Fifo!fifoVars)
<1> SUFFICES ASSUME IInv, [Next]_vars
             PROVE  Fifo!Next \/ UNCHANGED Fifo!fifoVars
  OBVIOUS
<1>0. UNCHANGED capacity_
  BY DEF Next, Operation, BeginPush, FindRoom, Construct, ConstructThrows, PublishPush, Close,
     Front, Pop, PopAssert, PopDestroy, PublishPop, Closed, Join, Deallocate, object, vars
<1>1. CASE PublishPush \/ PublishPop
  BY <1>0, <1>1, PublishPushRefines, PublishPopRefines DEF Fifo!Next
<1>2. CASE Front
  BY <1>0, <1>2, FrontRefines DEF Fifo!Next
<1>3. CASE Close \/ Closed
  BY <1>0, <1>3, FlagRefines DEF Fifo!Next
<1>4. CASE Join \/ Deallocate
  BY <1>0, <1>4, OwnerRefines DEF Fifo!Next
<1>5. CASE \/ BeginPush \/ Construct \/ ConstructThrows \/ Pop \/ PopAssert \/ PopDestroy
           \/ UNCHANGED vars
  <2>1. UNCHANGED <<closed_, front, phase, pushed, popped, sealed, sawClosed>>
    BY <1>5 DEF BeginPush, FindRoom, Construct, ConstructThrows, Pop, PopAssert, PopDestroy, vars, atomics,
                history
  <2> QED
    BY <1>0, <2>1 DEF Fifo!fifoVars
<1> QED
  BY <1>1, <1>2, <1>3, <1>4, <1>5 DEF Next, Operation

\* The cursors that count on and on give their threads the queue that the
\* wrapping ones do.
THEOREM MonoRefinement == Spec => ImplementsFifo
BY InitRefines, NextRefines, MonoInvariance, PTL DEF Spec, ImplementsFifo, Fifo!Spec

\* The benchmark drivers of both classes, and any other use, take only steps
\* of the buffer, so that all of the above holds of it in them.
THEOREM DriversAreClients == VariantsSpec => Spec
<1>1. VariantsInit => Init
  BY DEF VariantsInit
<1>2. [VariantsNext]_variantsVars => [Next]_vars
  BY DEF VariantsNext, variantsVars, AnyUse, BM_SPSCBufferMonoModulus, BM_SPSCBufferMonoBitmask,
         Driver, ProducerLoop, ConsumerLoop, EndOfIteration, InOperation, Next
<1> QED
  BY <1>1, <1>2, PTL DEF VariantsSpec, Spec

\* The loops of a driver end in order: the producer's with its last push and
\* the close, the consumer's after it.
LoopsInOrder ==
    /\ producer \in {"any", "pushing", "done"} /\ (producer = "any" => consumer = "any")
    /\ producer = "pushing" => ~closed_
    /\ producer = "done" => prodAt = "idle" /\ pushed = ItemLimit
    /\ consumer = "done" => producer = "done"

LEMMA VariantsStepInOrder ==
    ASSUME LoopsInOrder, [VariantsNext]_variantsVars
    PROVE  LoopsInOrder'
<1>1. CASE AnyUse
  BY <1>1 DEF AnyUse, LoopsInOrder, loops
<1>2. CASE ProducerLoop
  BY <1>2 DEF ProducerLoop, BeginPush, FindRoom, Close, LoopsInOrder, loops, object, atomics, history,
     ItemLimit
<1>3. CASE ConsumerLoop
  BY <1>3 DEF ConsumerLoop, Front, Pop, Closed, LoopsInOrder, object, atomics, history, ItemLimit
<1>4. CASE EndOfIteration
  BY <1>4 DEF EndOfIteration, Join, Front, Pop, Deallocate, LoopsInOrder, loops, object, atomics,
     history, ItemLimit
<1>5. CASE InOperation
  <2>1. /\ UNCHANGED <<closed_, capacity_, producer, consumer>>
        /\ prodAt = "idle" => UNCHANGED <<prodAt, pushed>>
    BY <1>5 DEF InOperation, Operation, Construct, PublishPush, PopAssert, PopDestroy, PublishPop,
       loops, object, atomics, history
  <2> QED
    BY <2>1 DEF LoopsInOrder, ItemLimit
<1>6. CASE UNCHANGED variantsVars
  BY <1>6 DEF variantsVars, vars, loops, object, atomics, history, LoopsInOrder, ItemLimit
<1> QED
  BY <1>1, <1>2, <1>3, <1>4, <1>5, <1>6
     DEF VariantsNext, BM_SPSCBufferMonoModulus, BM_SPSCBufferMonoBitmask, Driver

\* When the consumer of a driver leaves (MonoModulus and MonoBitmask benches,
\* line 56) the producer has pushed everything, and no more elements are left
\* to the destructor than the array has slots.
THEOREM AtMostTheSlotsAreMissed ==
    VariantsSpec =>
        [](consumer = "done" => pushed = ItemLimit /\ pushed - popped \in 0 .. capacity_)
<1>1. VariantsInit => LoopsInOrder
  BY DEF VariantsInit, Init, LoopsInOrder
<1>2. VariantsSpec => []LoopsInOrder
  BY <1>1, VariantsStepInOrder, PTL DEF VariantsSpec
<1>3. IInv /\ LoopsInOrder =>
        (consumer = "done" => pushed = ItemLimit /\ pushed - popped \in 0 .. capacity_)
  <2> SUFFICES ASSUME IInv, LoopsInOrder, consumer = "done"
               PROVE  pushed = ItemLimit /\ pushed - popped \in 0 .. capacity_
    OBVIOUS
  <2>1. pushed \in Nat /\ popped \in Nat /\ capacity_ \in Nat
    BY DEF IInv, TypeOK
  <2> QED
    BY <2>1 DEF LoopsInOrder, IInv, Cursors
<1> QED
  BY <1>2, <1>3, DriversAreClients, MonoInvariance, PTL
=============================================================================
