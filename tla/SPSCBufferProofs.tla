-------------------------- MODULE SPSCBufferProofs --------------------------
(***************************************************************************)
(* SPSCBufferSafety's invariants hold in SPSCBuffer for every capacity,    *)
(* every number of elements, both builds and all variants.                 *)
(***************************************************************************)
EXTENDS SPSCBufferSafety, CursorArithmeticProofs, SequenceTheorems

-----------------------------------------------------------------------------
(* Elements and their slots.                                               *)

\* The slots of successive elements: where they start, how cursors advance.
LEMMA SlotOfFacts ==
    /\ capacity_ \in Nat \ {0} /\ capacity_ = BufferSize + 1
    /\ SlotOf(1) = 0
    /\ \A n \in Nat \ {0} : SlotOf(n) \in Cursors
    /\ \A n \in Nat \ {0} : NextCursor(SlotOf(n)) = SlotOf(n + 1)
<1>1. capacity_ \in Nat \ {0} /\ capacity_ = BufferSize + 1
  BY SPSCAssumption DEF capacity_
<1>2. SlotOf(1) = 0
  BY <1>1, RingSlotZero DEF SlotOf
<1>3. ASSUME NEW n \in Nat \ {0}
      PROVE  SlotOf(n) \in Cursors
  <2>1. n - 1 \in Nat
    OBVIOUS
  <2> QED
    BY <1>1, <2>1, RingSlotType DEF SlotOf, Cursors
<1>4. ASSUME NEW n \in Nat \ {0}
      PROVE  NextCursor(SlotOf(n)) = SlotOf(n + 1)
  <2>1. n - 1 \in Nat /\ (n + 1) - 1 = (n - 1) + 1
    OBVIOUS
  <2>2. SlotOf(n) \in Cursors
    BY <1>3
  <2>3. BranchNext(SlotOf(n), capacity_) = ModulusNext(SlotOf(n), capacity_)
    BY <1>1, <2>2, BranchNextIsModulusNext DEF Cursors
  <2>4. BranchNext(SlotOf(n), capacity_) = SlotOf(n + 1)
    BY <1>1, <2>1, BranchNextIsSuccessor DEF SlotOf
  <2> QED
    BY <2>3, <2>4 DEF NextCursor
<1> QED
  BY <1>1, <1>2, <1>3, <1>4

\* Elements at most a buffer apart share a slot only if they are the same, as
\* do those exactly capacity_ apart.
LEMMA SlotOfDistinct ==
    ASSUME NEW m \in Nat \ {0}, NEW n \in Nat \ {0}, m <= n
    PROVE  /\ n <= m + BufferSize /\ SlotOf(m) = SlotOf(n) => m = n
           /\ n = m + capacity_ => SlotOf(m) = SlotOf(n)
<1>1. m - 1 \in Nat /\ n - 1 \in Nat
  OBVIOUS
<1>2. CASE m < n /\ n <= m + BufferSize
  <2>1. m - 1 < n - 1 /\ n - 1 < (m - 1) + capacity_
    BY <1>2, SlotOfFacts, SPSCAssumption
  <2>2. SlotOf(m) # SlotOf(n)
    BY <1>1, <2>1, SlotOfFacts, RingSlotDistinct DEF SlotOf
  <2> QED
    BY <1>2, <2>2, SlotOfFacts, SPSCAssumption
<1>3. CASE n = m + capacity_
  <2>1. n - 1 = (m - 1) + capacity_
    BY <1>3, SlotOfFacts
  <2>2. SlotOf(m) = SlotOf(n)
    BY <1>1, <2>1, SlotOfFacts, RingSlotWraps DEF SlotOf
  <2> QED
    BY <1>3, <2>2, SlotOfFacts, SPSCAssumption
<1> QED
  BY <1>2, <1>3, SlotOfFacts, SPSCAssumption

\* A release store appends one message and keeps the others.
LEMMA StoreReleaseFacts ==
    ASSUME NEW V, NEW mo \in Seq(Messages(V)), NEW v \in V, NEW view \in View
    PROVE  /\ StoreRelease(mo, v, view) \in Seq(Messages(V))
           /\ Len(StoreRelease(mo, v, view)) = Len(mo) + 1
           /\ \A i \in 1 .. Len(mo) : StoreRelease(mo, v, view)[i] = mo[i]
           /\ StoreRelease(mo, v, view)[Len(mo) + 1] = [val |-> v, view |-> view]
<1>1. [val |-> v, view |-> view] \in Messages(V)
  BY DEF Messages
<1> QED
  BY <1>1, AppendProperties DEF StoreRelease

-----------------------------------------------------------------------------
(* What the invariant says of the counters, in element numbers.            *)

LEMMA LatestOfHistory ==
    ASSUME NEW mo, Len(mo) \in Nat \ {0}, CursorHistory(mo)
    PROVE  Latest(mo) = SlotOf(Len(mo))
<1>1. mo[Len(mo)] = [val |-> SlotOf(Len(mo)), view |-> [at |-> Len(mo), hb |-> Len(mo) - 1]]
  BY DEF CursorHistory
<1> QED
  BY <1>1 DEF Latest

CounterFacts ==
    /\ Len(pushCursor_) \in Nat \ {0} /\ Pushed = Len(pushCursor_) - 1
    /\ Len(popCursor_) \in Nat \ {0} /\ Popped = Len(popCursor_) - 1
    /\ Len(closed_) \in Nat \ {0}
    /\ Pushed \in Nat /\ Popped \in Nat
    /\ PushSlot = SlotOf(Pushed + 1) /\ PopSlot = SlotOf(Popped + 1)
    /\ prod.view.at \in Nat /\ prod.view.hb \in 0 .. Popped
    /\ cons.view.at \in Nat /\ cons.view.hb \in Popped .. Pushed
    /\ Pushed - Popped <= BufferSize
    /\ Constructed \in {Pushed, Pushed + 1}
    /\ Destroyed \in {Popped, Popped + 1} /\ Destroyed <= Pushed

\* A load returns a position of the modification order, never one before the
\* position its thread has already read.
LEMMA PositionFromView ==
    ASSUME NEW len \in Nat \ {0}, NEW at \in 1 .. len, NEW i \in at .. len
    PROVE  i \in 1 .. len /\ i \in Nat \ {0} /\ i >= at /\ i - 1 >= at - 1
OBVIOUS

\* Joining two views that both know one access less than their position gives
\* such a view again.
LEMMA JoinedViews ==
    ASSUME NEW v \in View, NEW w \in View, NEW len \in Nat,
           v.hb = v.at - 1, w.hb = w.at - 1, v.at \in 1 .. len, w.at <= len
    PROVE  /\ JoinViews(v, w) \in View
           /\ JoinViews(v, w).hb = JoinViews(v, w).at - 1
           /\ JoinViews(v, w).at \in 1 .. len
           /\ JoinViews(v, w).hb >= v.hb /\ JoinViews(v, w).hb >= w.hb
<1>1. v.at \in Nat /\ v.hb \in Nat /\ w.at \in Nat /\ w.hb \in Nat
  BY DEF View
<1>2. /\ JoinViews(v, w).at = Larger(v.at, w.at)
      /\ JoinViews(v, w).hb = Larger(v.hb, w.hb)
      /\ JoinViews(v, w) = [at |-> Larger(v.at, w.at), hb |-> Larger(v.hb, w.hb)]
  BY DEF JoinViews
<1>3. /\ Larger(v.at, w.at) \in Nat /\ Larger(v.hb, w.hb) \in Nat
      /\ Larger(v.hb, w.hb) = Larger(v.at, w.at) - 1
      /\ Larger(v.at, w.at) \in 1 .. len
      /\ Larger(v.hb, w.hb) >= v.hb /\ Larger(v.hb, w.hb) >= w.hb
  BY <1>1 DEF Larger
<1> QED
  BY <1>2, <1>3 DEF View

LEMMA Counters ==
    ASSUME IInv
    PROVE  CounterFacts
<1> USE DEF IInv
<1>1. /\ Len(pushCursor_) \in Nat \ {0} /\ Len(popCursor_) \in Nat \ {0}
      /\ Len(closed_) \in Nat \ {0}
  BY EmptySeq, LenProperties DEF TypeOK
<1>2. Pushed \in Nat /\ Popped \in Nat
  BY <1>1 DEF Pushed, Popped
<1>3. PushSlot = SlotOf(Pushed + 1) /\ PopSlot = SlotOf(Popped + 1)
  <2>1. Pushed + 1 = Len(pushCursor_) /\ Popped + 1 = Len(popCursor_)
    BY <1>1 DEF Pushed, Popped
  <2> QED
    BY <1>1, <2>1, LatestOfHistory DEF PushSlot, PopSlot
<1>4. /\ prod.view.at \in Nat /\ prod.view.hb \in 0 .. Popped
      /\ cons.view.at \in Nat /\ cons.view.hb \in 0 .. Pushed
  <2>1. /\ prod.view.at \in 1 .. Len(popCursor_) /\ cons.view.at \in 1 .. Len(pushCursor_)
    BY DEF TypeOK
  <2>2. prod.view.hb = prod.view.at - 1 /\ cons.view.hb = cons.view.at - 1
    BY DEF ProducerKnows, ConsumerKnows
  <2> QED
    BY <1>1, <2>1, <2>2 DEF Pushed, Popped
<1>5. PICK n \in Popped .. cons.view.hb :
          cons.pc \in {"assert", "destroy", "publish"} => n > Popped
  BY DEF ConsumerKnows
<1>6. Pushed - Popped <= BufferSize
  BY <1>2, <1>4, SPSCAssumption DEF ProducerKnows
<1>7. Constructed \in {Pushed, Pushed + 1} /\ Destroyed \in {Popped, Popped + 1}
  BY DEF Constructed, Destroyed
<1>8. Destroyed <= Pushed
  BY <1>2, <1>4, <1>5 DEF Destroyed
<1> QED
  BY <1>1, <1>2, <1>3, <1>4, <1>5, <1>6, <1>7, <1>8 DEF CounterFacts, Pushed, Popped

\* The cursor test of emplace and try_emplace finds the ring full exactly when
\* the pops the producer compares with leave capacity() elements.
LEMMA FullTest ==
    ASSUME IInv, NEW i \in prod.view.at .. Len(popCursor_)
    PROVE  /\ PushCursorNext \in Cursors
           /\ popCursor_[i] = [val |-> SlotOf(i), view |-> [at |-> i, hb |-> i - 1]]
           /\ Pushed - (i - 1) <= BufferSize
           /\ PushCursorNext = SlotOf(i) <=> Pushed - (i - 1) = BufferSize
<1>0. CounterFacts
  BY Counters
<1>1. /\ Len(popCursor_) \in Nat \ {0} /\ Popped = Len(popCursor_) - 1
      /\ Pushed \in Nat /\ prod.view.hb \in Nat /\ BufferSize \in Nat
      /\ Pushed - Popped <= BufferSize /\ Popped <= Pushed
  BY <1>0, SPSCAssumption DEF CounterFacts
<1>2. /\ i \in 1 .. Len(popCursor_) /\ i \in Nat \ {0}
      /\ prod.view.hb <= i - 1 /\ i - 1 <= Popped
  <2>1. prod.view.at \in 1 .. Len(popCursor_) /\ prod.view.hb = prod.view.at - 1
    BY DEF IInv, TypeOK, ProducerKnows
  <2> QED
    BY <1>1, <2>1
<1>3. popCursor_[i] = [val |-> SlotOf(i), view |-> [at |-> i, hb |-> i - 1]]
  BY <1>2 DEF IInv, CursorHistory
<1>4. Pushed - (i - 1) <= BufferSize
  BY <1>1, <1>2 DEF IInv, ProducerKnows
<1>5. PushCursorNext = SlotOf(Pushed + 2) /\ SlotOf(Pushed + 2) \in Cursors
  <2>1. Pushed + 1 \in Nat \ {0} /\ Pushed + 2 \in Nat \ {0} /\ (Pushed + 1) + 1 = Pushed + 2
    BY <1>1
  <2>2. NextCursor(SlotOf(Pushed + 1)) = SlotOf(Pushed + 2)
    BY <2>1, SlotOfFacts
  <2> QED
    BY <1>0, <2>1, <2>2, SlotOfFacts DEF CounterFacts, PushCursorNext, PushSlot
<1>6. /\ Pushed + 2 \in Nat \ {0} /\ i <= Pushed + 2 /\ i # Pushed + 2
      /\ Pushed + 2 <= i + BufferSize \/ Pushed + 2 = i + capacity_
      /\ (Pushed + 2 = i + capacity_) <=> (Pushed - (i - 1) = BufferSize)
  <2>1. capacity_ = BufferSize + 1
    BY SlotOfFacts
  <2> QED
    BY <1>1, <1>2, <1>4, <2>1
<1>7. SlotOf(i) = SlotOf(Pushed + 2) <=> Pushed + 2 = i + capacity_
  BY <1>2, <1>6, SlotOfDistinct
<1> QED
  BY <1>3, <1>4, <1>5, <1>6, <1>7

\* The cursor test of front() finds the ring empty exactly when every push it
\* compares with has been popped.
LEMMA EmptyTest ==
    ASSUME IInv, NEW i \in Popped + 1 .. Len(pushCursor_)
    PROVE  /\ i \in 1 .. Len(pushCursor_)
           /\ pushCursor_[i] = [val |-> SlotOf(i), view |-> [at |-> i, hb |-> i - 1]]
           /\ PopSlot = SlotOf(i) <=> i - 1 = Popped
<1>0. CounterFacts
  BY Counters
<1>1. /\ Len(pushCursor_) \in Nat \ {0} /\ Pushed = Len(pushCursor_) - 1
      /\ Popped \in Nat /\ Pushed - Popped <= BufferSize /\ BufferSize \in Nat
  BY <1>0, SPSCAssumption DEF CounterFacts
<1>2. /\ i \in 1 .. Len(pushCursor_) /\ i \in Nat \ {0} /\ i <= Popped + 1 + BufferSize
      /\ Popped + 1 \in Nat \ {0} /\ Popped + 1 <= i
  BY <1>1
<1>3. pushCursor_[i] = [val |-> SlotOf(i), view |-> [at |-> i, hb |-> i - 1]]
  BY <1>2 DEF IInv, CursorHistory
<1>4. SlotOf(Popped + 1) = SlotOf(i) => Popped + 1 = i
  BY <1>2, SlotOfDistinct
<1>5. PopSlot = SlotOf(Popped + 1)
  BY <1>0 DEF CounterFacts
<1> QED
  BY <1>1, <1>2, <1>3, <1>4, <1>5

-----------------------------------------------------------------------------
(* The safety properties follow from the invariant.                        *)

\* An element that shares its slot with the next one to be constructed is a
\* whole ring older.
LEMMA SameSlotAsNext ==
    ASSUME IInv, NEW m \in 1 .. Pushed, SlotOf(m) = PushSlot
    PROVE  m <= Pushed - BufferSize
<1>0. CounterFacts
  BY Counters
<1>1. /\ Pushed \in Nat /\ BufferSize \in Nat
      /\ m \in Nat \ {0} /\ Pushed + 1 \in Nat \ {0} /\ m < Pushed + 1
  BY <1>0, SPSCAssumption DEF CounterFacts
<1>2. SlotOf(m) = SlotOf(Pushed + 1)
  BY <1>0 DEF CounterFacts
<1>3. ~(Pushed + 1 <= m + BufferSize)
  BY <1>1, <1>2, SlotOfDistinct
<1> QED
  BY <1>1, <1>3

LEMMA SafetyOfIInv ==
    ASSUME IInv
    PROVE  NoDataRace /\ ConstructsInRawStorage /\ FrontIsOldest /\ NoElementLeaks
<1>0. CounterFacts
  BY Counters
<1>1. /\ Pushed \in Nat /\ Popped \in Nat /\ prod.view.hb \in 0 .. Popped
      /\ Destroyed \in Popped .. Pushed /\ BufferSize \in Nat
  BY <1>0, SPSCAssumption DEF CounterFacts
<1>2. PushSlot \in Cursors /\ PopSlot = SlotOf(Popped + 1)
  <2>1. Pushed + 1 \in Nat \ {0}
    BY <1>1
  <2> QED
    BY <1>0, <2>1, SlotOfFacts DEF CounterFacts
<1>3. FrontIsOldest
  <2>1. SUFFICES ASSUME cons.front = "item" \/ cons.pc \in {"assert", "destroy"}
                 PROVE  slot[PopSlot] = Popped + 1
    BY DEF FrontIsOldest
  <2>2. PICK n \in Popped .. cons.view.hb : n > Popped
    BY <2>1 DEF IInv, ConsumerKnows
  <2>3. Popped + 1 <= cons.view.hb /\ cons.view.hb <= Pushed
    BY <1>0, <2>2 DEF CounterFacts
  <2>4. Destroyed = Popped
    BY <2>1 DEF IInv, ConsumerKnows, Destroyed
  <2>5. Popped + 1 \in Destroyed + 1 .. Constructed
    BY <1>0, <1>1, <2>3, <2>4 DEF CounterFacts
  <2> QED
    BY <1>2, <2>5 DEF IInv, Contents
<1>4. NoDataRace
  <2>1. ASSUME prod.pc = "construct"
        PROVE  lastDestroy[PushSlot] <= prod.view.hb
    <3>1. CASE lastDestroy[PushSlot] = 0
      BY <1>1, <3>1
    <3>2. CASE lastDestroy[PushSlot] # 0
      <4> DEFINE m == lastDestroy[PushSlot]
      <4>1. m \in 1 .. Destroyed /\ PushSlot = SlotOf(m)
        BY <1>2, <3>2 DEF IInv, Contents
      <4> HIDE DEF m
      <4>2. m \in 1 .. Pushed
        BY <1>1, <4>1
      <4>3. m <= Pushed - BufferSize
        BY <4>1, <4>2, SameSlotAsNext
      <4>4. Pushed - prod.view.hb < BufferSize
        BY <2>1 DEF IInv, ProducerKnows
      <4>5. m <= prod.view.hb
        BY <1>1, <4>2, <4>3, <4>4
      <4> QED
        BY <4>5 DEF m
    <3> QED
      BY <3>1, <3>2
  <2>2. ASSUME cons.front = "item" \/ cons.pc = "destroy"
        PROVE  slot[PopSlot] <= cons.view.hb
    <3>1. slot[PopSlot] = Popped + 1
      BY <1>3, <2>2 DEF FrontIsOldest
    <3>2. PICK n \in Popped .. cons.view.hb : n > Popped
      BY <2>2 DEF IInv, ConsumerKnows
    <3> QED
      BY <1>0, <1>1, <3>1, <3>2 DEF CounterFacts
  <2> QED
    BY <2>1, <2>2 DEF NoDataRace
<1>5. ConstructsInRawStorage
  <2>1. SUFFICES ASSUME prod.pc = "construct", slot[PushSlot] # Raw
                 PROVE  FALSE
    BY DEF ConstructsInRawStorage
  <2> DEFINE m == slot[PushSlot]
  <2>2. m \in Destroyed + 1 .. Constructed /\ PushSlot = SlotOf(m)
    BY <1>2, <2>1 DEF IInv, Contents
  <2>3. Constructed = Pushed
    BY <2>1 DEF Constructed
  <2> HIDE DEF m
  <2>4. m \in 1 .. Pushed /\ m > Popped
    BY <1>1, <2>2, <2>3
  <2>5. m <= Pushed - BufferSize
    BY <2>2, <2>4, SameSlotAsNext
  <2>6. Pushed - prod.view.hb < BufferSize
    BY <2>1 DEF IInv, ProducerKnows
  <2> QED
    BY <1>1, <2>4, <2>5, <2>6
<1>6. NoElementLeaks
  <2>1. SUFFICES ASSUME phase = "freed"
                 PROVE  slot = [c \in Cursors |-> Raw] /\ Popped = Pushed
    BY DEF NoElementLeaks
  <2>2. prod.pc = "idle" /\ cons.pc = "idle" /\ Popped = Pushed
    BY <2>1 DEF IInv, Joined
  <2>3. Constructed = Pushed /\ Destroyed = Popped
    BY <2>2 DEF Constructed, Destroyed
  <2>4. \A c \in Cursors : slot[c] = Raw
    <3>1. Destroyed + 1 .. Constructed = {}
      BY <1>1, <2>2, <2>3
    <3> QED
      BY <3>1 DEF IInv, Contents
  <2> QED
    BY <2>2, <2>4 DEF IInv, TypeOK
<1> QED
  BY <1>3, <1>4, <1>5, <1>6

-----------------------------------------------------------------------------
(* The initial states.                                                     *)

LEMMA InitialisedFacts ==
    ASSUME NEW V, NEW v \in V, NEW view \in View
    PROVE  /\ Initialised(v, view) \in Seq(Messages(V)) /\ Initialised(v, view) # <<>>
           /\ Len(Initialised(v, view)) = 1
           /\ Initialised(v, view)[1] = [val |-> v, view |-> view]
<1>1. [val |-> v, view |-> view] \in Messages(V)
  BY DEF Messages
<1> QED
  BY <1>1 DEF Initialised

LEMMA InitIInv == Init => IInv
<1> SUFFICES ASSUME Init
             PROVE  IInv
  OBVIOUS
<1> DEFINE start == [at |-> 1, hb |-> 0]
<1>1. start \in View /\ start.at = 1 /\ start.hb = 0
  BY DEF View
<1>2. 0 \in Cursors /\ 0 = SlotOf(1) /\ BufferSize \in Nat \ {0}
  BY SlotOfFacts, SPSCAssumption DEF Cursors
<1>3. /\ pushCursor_ = Initialised(0, start)
      /\ popCursor_ = Initialised(0, start)
      /\ closed_ = Initialised(FALSE, start)
      /\ slot = [c \in Cursors |-> Raw]
      /\ lastDestroy = [c \in Cursors |-> 0]
      /\ prod = [pc |-> "idle", popCursorCache_ |-> 0, view |-> start]
      /\ cons = [pc |-> "idle", pushCursorCache_ |-> 0, view |-> start,
                 closedAt |-> 1, front |-> "none"]
      /\ phase = "live" /\ variant \in Variants
  BY DEF Init
<1> HIDE DEF start
<1>4. /\ pushCursor_ \in Seq(Messages(Cursors)) /\ pushCursor_ # <<>>
      /\ Len(pushCursor_) = 1 /\ pushCursor_[1] = [val |-> 0, view |-> start]
  BY <1>1, <1>2, <1>3, InitialisedFacts
<1>5. /\ popCursor_ \in Seq(Messages(Cursors)) /\ popCursor_ # <<>>
      /\ Len(popCursor_) = 1 /\ popCursor_[1] = [val |-> 0, view |-> start]
  BY <1>1, <1>2, <1>3, InitialisedFacts
<1>6. /\ closed_ \in Seq(Messages(BOOLEAN)) /\ closed_ # <<>>
      /\ Len(closed_) = 1 /\ closed_[1] = [val |-> FALSE, view |-> start]
  BY <1>1, <1>3, InitialisedFacts
<1>7. Pushed = 0 /\ Popped = 0 /\ Constructed = 0 /\ Destroyed = 0
  BY <1>3, <1>4, <1>5 DEF Pushed, Popped, Constructed, Destroyed
<1>8. prod.view = start /\ cons.view = start /\ cons.closedAt = 1
  BY <1>3
<1>9. TypeOK
  <2>1. prod \in Producer /\ cons \in Consumer
    BY <1>1, <1>2, <1>3 DEF Producer, Consumer
  <2>2. slot \in [Cursors -> Nat] /\ lastDestroy \in [Cursors -> Nat]
    BY <1>3 DEF Raw
  <2>3. /\ prod.view.at \in 1 .. Len(popCursor_) /\ cons.view.at \in 1 .. Len(pushCursor_)
        /\ cons.closedAt \in 1 .. Len(closed_)
    BY <1>1, <1>8, <1>4, <1>5, <1>6
  <2> QED
    BY <1>3, <1>4, <1>5, <1>6, <2>1, <2>2, <2>3 DEF TypeOK
<1>10. CursorHistory(pushCursor_) /\ CursorHistory(popCursor_)
  BY <1>2, <1>4, <1>5 DEF CursorHistory, start
<1>11. ClosedHistory
  BY <1>1, <1>4, <1>6 DEF ClosedHistory
<1>12. ProducerKnows
  BY <1>1, <1>2, <1>3, <1>7 DEF ProducerKnows
<1>13. ConsumerKnows
  <2>1. 0 \in Popped .. cons.view.hb /\ cons.pushCursorCache_ = SlotOf(0 + 1)
    BY <1>1, <1>2, <1>3, <1>7
  <2>2. cons.front = "none" /\ cons.pc = "idle"
    BY <1>3
  <2>3. closed_[cons.closedAt].view.hb <= cons.view.hb /\ cons.view.hb = cons.view.at - 1
    BY <1>1, <1>8, <1>6
  <2> QED
    BY <2>1, <2>2, <2>3 DEF ConsumerKnows
<1>14. Contents
  BY <1>3, <1>7 DEF Contents
<1>15. Joined /\ AssertNeverFires
  BY <1>3 DEF Joined, AssertNeverFires
<1> QED
  BY <1>9, <1>10, <1>11, <1>12, <1>13, <1>14, <1>15 DEF IInv

-----------------------------------------------------------------------------
(* Steps of the producer.                                                  *)

\* Steps that only change what the producer is doing or knows.
LEMMA ProducerLocalStep ==
    ASSUME IInv, UNCHANGED <<variant, atomics, storage, cons, phase>>,
           phase = "live" \/ prod'.pc = "idle",
           prod.pc # "publish", prod'.pc # "publish",
           prod' \in Producer, prod'.view.at \in 1 .. Len(popCursor_),
           ProducerKnows'
    PROVE  IInv'
<1>1. TypeOK'
  BY DEF IInv, TypeOK, atomics, storage
<1>2. /\ Pushed' = Pushed /\ Popped' = Popped
      /\ Constructed' = Constructed /\ Destroyed' = Destroyed
  BY DEF atomics, Pushed, Popped, Constructed, Destroyed
<1>3. CursorHistory(pushCursor_)' /\ CursorHistory(popCursor_)' /\ ClosedHistory'
  BY DEF IInv, atomics, CursorHistory, ClosedHistory
<1>4. ConsumerKnows'
  BY <1>2 DEF IInv, ConsumerKnows, atomics
<1>5. Contents'
  BY <1>2 DEF IInv, Contents, storage
<1>6. Joined' /\ AssertNeverFires'
  BY <1>2 DEF IInv, Joined, AssertNeverFires, atomics
<1> QED
  BY <1>1, <1>3, <1>4, <1>5, <1>6 DEF IInv

LEMMA BeginPushStep ==
    ASSUME IInv, NEW onFull \in {"spin", "refresh"}, BeginPush(onFull)
    PROVE  IInv'
<1>0. CounterFacts
  BY Counters
<1>1. /\ prod.pc = "idle" /\ phase = "live" /\ UNCHANGED <<variant, atomics, storage, cons, phase>>
      /\ prod' = [prod EXCEPT !.pc =
                    IF Cached /\ PushCursorNext # prod.popCursorCache_
                    THEN "construct" ELSE onFull]
  BY DEF BeginPush
<1>2. prod \in Producer /\ prod.view.at \in 1 .. Len(popCursor_)
  BY DEF IInv, TypeOK
<1>3. /\ prod' \in Producer /\ prod'.view = prod.view
      /\ prod'.popCursorCache_ = prod.popCursorCache_
      /\ prod'.pc \in {onFull, "construct"}
      /\ prod'.pc = "construct" => PushCursorNext # prod.popCursorCache_
  BY <1>1, <1>2 DEF Producer
<1>4. ProducerKnows'
  <2>1. /\ prod.view.hb = prod.view.at - 1 /\ Pushed - prod.view.hb <= BufferSize
        /\ prod.popCursorCache_ = SlotOf(prod.view.at)
    BY DEF IInv, ProducerKnows
  <2>2. PushCursorNext = SlotOf(prod.view.at) <=> Pushed - (prod.view.at - 1) = BufferSize
    <3>1. prod.view.at \in prod.view.at .. Len(popCursor_)
      BY <1>0, <1>2 DEF CounterFacts
    <3> QED
      BY <3>1, FullTest
  <2>3. Pushed' = Pushed
    BY <1>1 DEF Pushed, atomics
  <2>4. prod'.pc = "construct" => Pushed - prod.view.hb < BufferSize
    BY <1>0, <1>2, <1>3, <2>1, <2>2, SPSCAssumption DEF CounterFacts
  <2>5. prod'.pc # "publish"
    BY <1>3
  <2> QED
    BY <1>3, <2>1, <2>3, <2>4, <2>5 DEF ProducerKnows
<1> QED
  BY <1>1, <1>2, <1>3, <1>4, ProducerLocalStep

LEMMA RefreshPopCursorStep ==
    ASSUME IInv, NEW from \in {"spin", "refresh"}, NEW onFull \in {"spin", "idle"},
           NEW i \in Readable(popCursor_, prod.view.at), RefreshPopCursor(from, onFull, i)
    PROVE  IInv'
<1>0. CounterFacts
  BY Counters
<1>1. /\ prod.pc = from /\ UNCHANGED <<variant, atomics, storage, cons, phase>>
      /\ prod' = [pc |-> IF PushCursorNext = popCursor_[i].val THEN onFull ELSE "construct",
                  popCursorCache_ |-> popCursor_[i].val,
                  view |-> AcquireCursor(prod.view, popCursor_, i)]
  BY DEF RefreshPopCursor
<1>2. i \in prod.view.at .. Len(popCursor_)
  BY DEF Readable
<1>3. /\ popCursor_[i] = [val |-> SlotOf(i), view |-> [at |-> i, hb |-> i - 1]]
      /\ Pushed - (i - 1) <= BufferSize
      /\ PushCursorNext = SlotOf(i) <=> Pushed - (i - 1) = BufferSize
  BY <1>2, FullTest
<1>4. prod.view.at \in 1 .. Len(popCursor_) /\ prod.view.hb = prod.view.at - 1 /\ prod.view \in View
  BY DEF IInv, TypeOK, ProducerKnows, Producer
<1>5. i \in 1 .. Len(popCursor_) /\ i \in Nat \ {0} /\ i >= prod.view.at /\ i - 1 >= prod.view.hb
  <2>1. Len(popCursor_) \in Nat \ {0}
    BY <1>0 DEF CounterFacts
  <2>2. i \in 1 .. Len(popCursor_) /\ i \in Nat \ {0} /\ i >= prod.view.at /\ i - 1 >= prod.view.at - 1
    BY <1>2, <1>4, <2>1, PositionFromView
  <2> QED
    BY <1>4, <2>2
<1>6. AcquireCursor(prod.view, popCursor_, i) = [at |-> i, hb |-> i - 1]
  BY <1>0, <1>3, <1>4, <1>5 DEF AcquireCursor, JoinViews, Larger, View, CounterFacts
<1>7. /\ prod' = [pc |-> IF PushCursorNext = SlotOf(i) THEN onFull ELSE "construct",
                  popCursorCache_ |-> SlotOf(i), view |-> [at |-> i, hb |-> i - 1]]
      /\ SlotOf(i) \in Cursors
  BY <1>1, <1>3, <1>5, <1>6, SlotOfFacts
<1>8. prod' \in Producer /\ prod'.view.at \in 1 .. Len(popCursor_)
  BY <1>5, <1>7 DEF Producer, View
<1>9. ProducerKnows'
  <2>1. Pushed' = Pushed /\ Pushed \in Nat /\ BufferSize \in Nat
    BY <1>0, <1>1, SPSCAssumption DEF Pushed, atomics, CounterFacts
  <2>2. prod'.pc = "construct" => Pushed - (i - 1) < BufferSize
    BY <1>3, <1>5, <1>7, <2>1
  <2>3. prod'.pc # "publish"
    BY <1>7
  <2> QED
    BY <1>3, <1>5, <1>7, <2>1, <2>2, <2>3 DEF ProducerKnows
<1>10. phase = "live" /\ prod.pc # "publish" /\ prod'.pc # "publish"
  BY <1>1, <1>7 DEF IInv, Joined
<1> QED
  BY <1>1, <1>8, <1>9, <1>10, ProducerLocalStep

LEMMA ConstructThrowsStep ==
    ASSUME IInv, ConstructThrows
    PROVE  IInv'
<1>1. /\ prod.pc = "construct" /\ prod' = [prod EXCEPT !.pc = "idle"]
      /\ UNCHANGED <<variant, atomics, storage, cons, phase>>
  BY DEF ConstructThrows
<1>2. prod' \in Producer /\ prod'.view = prod.view /\ prod'.pc = "idle"
      /\ prod'.popCursorCache_ = prod.popCursorCache_ /\ prod.view.at \in 1 .. Len(popCursor_)
  BY <1>1 DEF IInv, TypeOK, Producer
<1>3. ProducerKnows'
  BY <1>1, <1>2 DEF IInv, ProducerKnows, Pushed, atomics
<1> QED
  BY <1>1, <1>2, <1>3, ProducerLocalStep

LEMMA ConstructStep ==
    ASSUME IInv, Construct
    PROVE  IInv'
<1>0. CounterFacts
  BY Counters
<1>1. /\ prod.pc = "construct" /\ prod' = [prod EXCEPT !.pc = "publish"]
      /\ slot' = [slot EXCEPT ![PushSlot] = Pushed + 1]
      /\ UNCHANGED <<variant, atomics, lastDestroy, cons, phase>>
  BY DEF Construct, PushSlot
<1>2. /\ Pushed \in Nat /\ Popped \in Nat /\ Destroyed \in Nat /\ Destroyed <= Pushed
      /\ PushSlot = SlotOf(Pushed + 1) /\ PushSlot \in Cursors
  <2>1. Pushed \in Nat /\ Pushed + 1 \in Nat \ {0}
    BY <1>0 DEF CounterFacts
  <2> QED
    BY <1>0, <2>1, SlotOfFacts DEF CounterFacts
<1>3. /\ prod' \in Producer /\ prod'.view = prod.view /\ prod'.pc = "publish"
      /\ prod'.popCursorCache_ = prod.popCursorCache_
  BY <1>1 DEF IInv, TypeOK, Producer
<1>4. slot \in [Cursors -> Nat] /\ slot' \in [Cursors -> Nat]
  BY <1>1, <1>2 DEF IInv, TypeOK
<1>5. /\ Pushed' = Pushed /\ Popped' = Popped /\ Destroyed' = Destroyed
      /\ Constructed = Pushed /\ Constructed' = Pushed + 1
  BY <1>1, <1>3 DEF Pushed, Popped, Constructed, Destroyed, atomics
<1>6. TypeOK'
  BY <1>1, <1>3, <1>4 DEF IInv, TypeOK, atomics
<1>7. CursorHistory(pushCursor_)' /\ CursorHistory(popCursor_)' /\ ClosedHistory'
  BY <1>1 DEF IInv, atomics, CursorHistory, ClosedHistory
<1>8. ProducerKnows'
  BY <1>1, <1>3, <1>5 DEF IInv, ProducerKnows
<1>9. ConsumerKnows'
  BY <1>1, <1>5 DEF IInv, ConsumerKnows, atomics
<1>10. Contents'
  <2>1. slot[PushSlot] = Raw
    BY <1>1, SafetyOfIInv DEF ConstructsInRawStorage
  <2>2. ASSUME NEW n \in Destroyed + 1 .. Pushed + 1
        PROVE  slot'[SlotOf(n)] = n
    <3>1. CASE n = Pushed + 1
      BY <1>1, <1>2, <1>4, <3>1
    <3>2. CASE n # Pushed + 1
      <4>1. n \in Destroyed + 1 .. Pushed /\ n \in Nat \ {0}
        BY <1>2, <3>2
      <4>2. slot[SlotOf(n)] = n /\ SlotOf(n) \in Cursors
        BY <1>5, <4>1, SlotOfFacts DEF IInv, Contents
      <4>3. SlotOf(n) # PushSlot
        BY <2>1, <4>1, <4>2 DEF Raw
      <4> QED
        BY <1>1, <1>4, <4>2, <4>3
    <3> QED
      BY <3>1, <3>2
  <2>3. ASSUME NEW c \in Cursors, slot'[c] # Raw
        PROVE  slot'[c] \in Destroyed + 1 .. Pushed + 1 /\ c = SlotOf(slot'[c])
    <3>1. CASE c = PushSlot
      BY <1>1, <1>2, <1>4, <3>1
    <3>2. CASE c # PushSlot
      <4>1. slot'[c] = slot[c]
        BY <1>1, <1>4, <3>2
      <4>2. slot[c] \in Destroyed + 1 .. Pushed /\ c = SlotOf(slot[c])
        BY <1>5, <2>3, <4>1 DEF IInv, Contents
      <4> QED
        BY <1>2, <4>1, <4>2
    <3> QED
      BY <3>1, <3>2
  <2> QED
    BY <1>1, <1>5, <2>2, <2>3 DEF IInv, Contents
<1>11. Joined' /\ AssertNeverFires'
  BY <1>1, <1>5 DEF IInv, Joined, AssertNeverFires, atomics
<1> QED
  BY <1>6, <1>7, <1>8, <1>9, <1>10, <1>11 DEF IInv

\* The history of a cursor grows by the slot of the next element.
LEMMA CursorHistoryGrows ==
    ASSUME NEW mo \in Seq(Messages(Cursors)), Len(mo) \in Nat \ {0}, CursorHistory(mo),
           NEW view, view = [at |-> Len(mo) + 1, hb |-> Len(mo)]
    PROVE  /\ StoreRelease(mo, NextCursor(Latest(mo)), view) \in Seq(Messages(Cursors))
           /\ Len(StoreRelease(mo, NextCursor(Latest(mo)), view)) = Len(mo) + 1
           /\ CursorHistory(StoreRelease(mo, NextCursor(Latest(mo)), view))
<1> DEFINE new == StoreRelease(mo, NextCursor(Latest(mo)), view)
<1>1. NextCursor(Latest(mo)) = SlotOf(Len(mo) + 1) /\ SlotOf(Len(mo) + 1) \in Cursors
  <2>1. Len(mo) + 1 \in Nat \ {0}
    OBVIOUS
  <2> QED
    BY <2>1, LatestOfHistory, SlotOfFacts
<1>2. view \in View
  BY DEF View
<1>3. /\ new \in Seq(Messages(Cursors)) /\ Len(new) = Len(mo) + 1
      /\ \A i \in 1 .. Len(mo) : new[i] = mo[i]
      /\ new[Len(mo) + 1] = [val |-> SlotOf(Len(mo) + 1), view |-> view]
  BY <1>1, <1>2, StoreReleaseFacts
<1> HIDE DEF new
<1>4. ASSUME NEW i \in 1 .. Len(new)
      PROVE  new[i] = [val |-> SlotOf(i), view |-> [at |-> i, hb |-> i - 1]]
  <2>1. CASE i = Len(mo) + 1
    BY <1>3, <2>1
  <2>2. CASE i # Len(mo) + 1
    <3>1. i \in 1 .. Len(mo)
      BY <1>3, <2>2
    <3> QED
      BY <1>3, <3>1 DEF CursorHistory
  <2> QED
    BY <2>1, <2>2
<1>5. CursorHistory(new)
  BY <1>4 DEF CursorHistory
<1> QED
  BY <1>3, <1>5 DEF new

LEMMA PublishPushStep ==
    ASSUME IInv, PublishPush
    PROVE  IInv'
<1>0. CounterFacts
  BY Counters
<1>1. /\ prod.pc = "publish" /\ prod' = [prod EXCEPT !.pc = "idle"]
      /\ pushCursor_' = StoreRelease(pushCursor_, NextCursor(Latest(pushCursor_)), PushView)
      /\ UNCHANGED <<variant, popCursor_, closed_, storage, cons, phase>>
  BY DEF PublishPush, PushCursorNext
<1>2. /\ Len(pushCursor_) \in Nat \ {0} /\ Pushed = Len(pushCursor_) - 1
      /\ Pushed \in Nat /\ prod.view.hb \in Nat /\ BufferSize \in Nat
  BY <1>0, SPSCAssumption DEF CounterFacts
<1>3. PushView = [at |-> Len(pushCursor_) + 1, hb |-> Len(pushCursor_)]
  BY <1>1, <1>2 DEF PushView, Constructed
<1>4. /\ pushCursor_' \in Seq(Messages(Cursors)) /\ Len(pushCursor_') = Len(pushCursor_) + 1
      /\ CursorHistory(pushCursor_')
  BY <1>1, <1>2, <1>3, CursorHistoryGrows DEF IInv, TypeOK
<1>5. /\ prod' \in Producer /\ prod'.view = prod.view /\ prod'.pc = "idle"
      /\ prod'.popCursorCache_ = prod.popCursorCache_
  BY <1>1 DEF IInv, TypeOK, Producer
<1>6. /\ Pushed' = Pushed + 1 /\ Popped' = Popped
      /\ Constructed' = Constructed /\ Destroyed' = Destroyed
  BY <1>1, <1>2, <1>4, <1>5 DEF Pushed, Popped, Constructed, Destroyed
<1>7. TypeOK'
  <2>1. pushCursor_' # <<>>
    BY <1>2, <1>4
  <2>2. cons.view.at \in 1 .. Len(pushCursor_')
    BY <1>2, <1>4 DEF IInv, TypeOK
  <2> QED
    BY <1>1, <1>4, <1>5, <2>1, <2>2 DEF IInv, TypeOK, storage
<1>8. CursorHistory(pushCursor_)' /\ CursorHistory(popCursor_)'
  BY <1>1, <1>4 DEF IInv, CursorHistory
<1>9. ClosedHistory'
  <2>1. ASSUME NEW i \in 1 .. Len(closed_)
        PROVE  closed_[i].view.at <= Len(pushCursor_')
    <3>1. closed_[i] \in Messages(BOOLEAN)
      BY ElementOfSeq DEF IInv, TypeOK
    <3>2. closed_[i].view.at \in Nat /\ closed_[i].view.at <= Len(pushCursor_)
      BY <3>1 DEF IInv, ClosedHistory, Messages, View
    <3> QED
      BY <1>2, <1>4, <3>2
  <2> QED
    BY <1>1, <2>1 DEF IInv, ClosedHistory
<1>10. ProducerKnows'
  <2>1. Pushed - prod.view.hb < BufferSize
    BY <1>1 DEF IInv, ProducerKnows
  <2>2. Pushed' - prod'.view.hb <= BufferSize
    BY <1>2, <1>5, <1>6, <2>1
  <2> QED
    BY <1>5, <2>2 DEF IInv, ProducerKnows
<1>11. ConsumerKnows'
  BY <1>1, <1>6 DEF IInv, ConsumerKnows
<1>12. Contents'
  BY <1>1, <1>6 DEF IInv, Contents, storage
<1>13. Joined' /\ AssertNeverFires'
  BY <1>1 DEF IInv, Joined, AssertNeverFires
<1> QED
  BY <1>7, <1>8, <1>9, <1>10, <1>11, <1>12, <1>13 DEF IInv

LEMMA CloseStep ==
    ASSUME IInv, Close
    PROVE  IInv'
<1>0. CounterFacts
  BY Counters
<1>1. /\ prod.pc = "idle" /\ closed_' = StoreRelease(closed_, TRUE, CloseView)
      /\ UNCHANGED <<variant, pushCursor_, popCursor_, storage, prod, cons, phase>>
  BY DEF Close
<1>2. /\ Len(closed_) \in Nat \ {0} /\ Len(pushCursor_) \in Nat \ {0}
      /\ CloseView = [at |-> Len(pushCursor_), hb |-> Len(pushCursor_) - 1]
      /\ CloseView \in View
  BY <1>0, <1>1 DEF CounterFacts, CloseView, Constructed, View
<1>3. closed_ \in Seq(Messages(BOOLEAN)) /\ cons.closedAt \in 1 .. Len(closed_)
  BY DEF IInv, TypeOK
<1>4. /\ closed_' \in Seq(Messages(BOOLEAN)) /\ Len(closed_') = Len(closed_) + 1
      /\ \A i \in 1 .. Len(closed_) : closed_'[i] = closed_[i]
      /\ closed_'[Len(closed_) + 1] = [val |-> TRUE, view |-> CloseView]
  <2> DEFINE message == [val |-> TRUE, view |-> CloseView]
  <2>1. message \in Messages(BOOLEAN)
    BY <1>2 DEF Messages
  <2>2. closed_' = Append(closed_, message)
    BY <1>1 DEF StoreRelease
  <2> HIDE DEF message
  <2>3. /\ closed_' \in Seq(Messages(BOOLEAN)) /\ Len(closed_') = Len(closed_) + 1
        /\ \A i \in 1 .. Len(closed_) : closed_'[i] = closed_[i]
        /\ closed_'[Len(closed_) + 1] = message
    BY <1>3, <2>1, <2>2, AppendProperties
  <2> QED
    BY <2>3 DEF message
<1>5. TypeOK'
  <2>1. closed_' # <<>> /\ cons.closedAt \in 1 .. Len(closed_')
    BY <1>2, <1>3, <1>4
  <2> QED
    BY <1>1, <1>4, <2>1 DEF IInv, TypeOK, storage
<1>6. CursorHistory(pushCursor_)' /\ CursorHistory(popCursor_)'
  BY <1>1 DEF IInv, CursorHistory
<1>7. ClosedHistory'
  <2>1. ASSUME NEW i \in 1 .. Len(closed_)
        PROVE  /\ closed_[i].view.at \in Nat /\ closed_[i].view.hb = closed_[i].view.at - 1
               /\ closed_[i].view.at <= Len(pushCursor_)
    <3>1. closed_[i] \in Messages(BOOLEAN)
      BY <1>3, ElementOfSeq
    <3> QED
      BY <3>1 DEF IInv, ClosedHistory, Messages, View
  <2>2. ASSUME NEW i \in 1 .. Len(closed_'), NEW j \in 1 .. i
        PROVE  /\ closed_'[i].view.hb = closed_'[i].view.at - 1
               /\ closed_'[i].view.at <= Len(pushCursor_)
               /\ closed_'[j].view.hb <= closed_'[i].view.hb
    <3>1. CASE i \in 1 .. Len(closed_)
      <4>1. j \in 1 .. Len(closed_)
        BY <1>2, <3>1
      <4> QED
        BY <1>4, <3>1, <4>1, <2>1 DEF IInv, ClosedHistory
    <3>2. CASE i = Len(closed_) + 1
      <4>1. /\ closed_'[i].view.hb = Len(pushCursor_) - 1
            /\ closed_'[i].view.at = Len(pushCursor_)
        BY <1>2, <1>4, <3>2
      <4>2. CASE j = i
        BY <1>2, <4>1, <4>2
      <4>3. CASE j \in 1 .. Len(closed_)
        BY <1>2, <1>4, <2>1, <4>1, <4>3
      <4> QED
        BY <1>2, <3>2, <4>2, <4>3
    <3> QED
      BY <1>2, <1>4, <3>1, <3>2
  <2>3. ASSUME NEW i \in 1 .. Len(closed_')
        PROVE  i \in 1 .. i
    BY <1>2, <1>4
  <2> QED
    BY <1>1, <2>2, <2>3 DEF ClosedHistory
<1>8. /\ Pushed' = Pushed /\ Popped' = Popped
      /\ Constructed' = Constructed /\ Destroyed' = Destroyed
  BY <1>1 DEF Pushed, Popped, Constructed, Destroyed
<1>9. ProducerKnows'
  BY <1>1, <1>8 DEF IInv, ProducerKnows
<1>10. ConsumerKnows'
  BY <1>1, <1>3, <1>4, <1>8 DEF IInv, ConsumerKnows
<1>11. Contents' /\ Joined' /\ AssertNeverFires'
  BY <1>1, <1>8 DEF IInv, Contents, Joined, AssertNeverFires, storage
<1> QED
  BY <1>5, <1>6, <1>7, <1>9, <1>10, <1>11 DEF IInv

-----------------------------------------------------------------------------
(* Steps of the consumer, and of the owner.                                *)

\* Steps that only change what the consumer is doing or knows.
LEMMA ConsumerLocalStep ==
    ASSUME IInv, UNCHANGED <<variant, atomics, storage, prod>>,
           phase' \in {"live", "dtor", "freed"},
           cons.pc # "publish", cons'.pc \notin {"publish", "aborted"},
           cons' \in Consumer, cons'.view.at \in 1 .. Len(pushCursor_),
           cons'.closedAt \in 1 .. Len(closed_),
           ConsumerKnows', Joined'
    PROVE  IInv'
<1>1. TypeOK'
  BY DEF IInv, TypeOK, atomics, storage
<1>2. /\ Pushed' = Pushed /\ Popped' = Popped
      /\ Constructed' = Constructed /\ Destroyed' = Destroyed
  BY DEF atomics, Pushed, Popped, Constructed, Destroyed
<1>3. CursorHistory(pushCursor_)' /\ CursorHistory(popCursor_)' /\ ClosedHistory'
  BY DEF IInv, atomics, CursorHistory, ClosedHistory
<1>4. ProducerKnows'
  BY <1>2 DEF IInv, ProducerKnows
<1>5. Contents'
  BY <1>2 DEF IInv, Contents, storage
<1>6. AssertNeverFires'
  BY DEF AssertNeverFires
<1> QED
  BY <1>1, <1>3, <1>4, <1>5, <1>6 DEF IInv

\* What the consumer is before each of its steps.
LEMMA ConsumerTyped ==
    ASSUME IInv
    PROVE  /\ cons \in Consumer /\ cons.view \in View
           /\ cons.view.at \in 1 .. Len(pushCursor_) /\ cons.view.hb = cons.view.at - 1
           /\ cons.closedAt \in 1 .. Len(closed_)
           /\ phase \in {"live", "dtor", "freed"}
BY DEF IInv, TypeOK, ConsumerKnows, Consumer

\* The same counters, closes and pushes after a step local to the consumer.
LEMMA ConsumerFrame ==
    ASSUME UNCHANGED <<variant, atomics, storage, prod>>
    PROVE  /\ Pushed' = Pushed /\ Popped' = Popped
           /\ UNCHANGED <<variant, pushCursor_, popCursor_, closed_, prod>>
BY DEF atomics, Pushed, Popped

LEMMA FrontStep ==
    ASSUME IInv, Front
    PROVE  IInv'
<1>0. CounterFacts /\ Pushed' = Pushed /\ Popped' = Popped
  BY Counters, ConsumerFrame DEF Front
<1>1. /\ cons.pc = "idle" /\ UNCHANGED <<variant, atomics, storage, prod, phase>>
      /\ phase = "live" \/ (phase = "dtor" /\ cons.front = "none")
      /\ cons' = IF Cached /\ PopSlot # cons.pushCursorCache_
                    THEN [cons EXCEPT !.front = "item"]
                    ELSE [cons EXCEPT !.pc = "refresh"]
  BY DEF Front, PopSlot
<1>2. /\ cons' \in Consumer /\ cons'.view = cons.view /\ cons'.closedAt = cons.closedAt
      /\ cons'.pushCursorCache_ = cons.pushCursorCache_
      /\ cons'.pc \in {"idle", "refresh"} /\ cons'.front \in {cons.front, "item"}
      /\ PopSlot = cons.pushCursorCache_ => cons'.front = cons.front
  BY <1>1, ConsumerTyped DEF Consumer
<1>3. ConsumerKnows'
  <2>1. PICK n \in Popped .. cons.view.hb :
            /\ cons.pushCursorCache_ = SlotOf(n + 1)
            /\ cons.front = "item" => n > Popped
    BY DEF IInv, ConsumerKnows
  <2>2. cons'.front = "item" => n > Popped
    <3>1. CASE PopSlot = cons.pushCursorCache_
      BY <1>2, <2>1, <3>1
    <3>2. CASE PopSlot # cons.pushCursorCache_
      <4>1. PopSlot = SlotOf(Popped + 1) /\ Popped \in Nat /\ cons.view.hb \in Nat
        BY <1>0 DEF CounterFacts
      <4>2. n # Popped
        BY <2>1, <3>2, <4>1
      <4> QED
        BY <2>1, <4>1, <4>2
    <3> QED
      BY <3>1, <3>2
  <2>3. n \in Popped' .. cons'.view.hb /\ (cons'.front = "item" => n > Popped')
    BY <1>0, <1>2, <2>2
  <2>4. /\ cons.view.hb = cons.view.at - 1
        /\ closed_[cons.closedAt].view.hb <= cons.view.hb /\ closed_' = closed_
    BY <1>1 DEF IInv, ConsumerKnows, atomics
  <2> QED
    BY <1>2, <2>1, <2>3, <2>4 DEF ConsumerKnows
<1>4. Joined'
  BY <1>0, <1>1, <1>2 DEF IInv, Joined, atomics
<1> QED
  BY <1>1, <1>2, <1>3, <1>4, ConsumerTyped, ConsumerLocalStep

\* What an acquire load of pushCursor_ (lines 125 and 141) tells the consumer.
LEMMA ConsumerAcquires ==
    ASSUME IInv, NEW i \in Readable(pushCursor_, cons.view.at)
    PROVE  /\ i \in Popped + 1 .. Len(pushCursor_) /\ i \in Nat \ {0}
           /\ i - 1 \in cons.view.hb .. Pushed
           /\ pushCursor_[i].val = SlotOf(i) /\ SlotOf(i) \in Cursors
           /\ PopSlot = SlotOf(i) <=> i - 1 = Popped
           /\ AcquireCursor(cons.view, pushCursor_, i) = [at |-> i, hb |-> i - 1]
           /\ [at |-> i, hb |-> i - 1] \in View
           /\ closed_[cons.closedAt].view.hb <= i - 1
<1>0. CounterFacts
  BY Counters
<1>1. /\ Len(pushCursor_) \in Nat /\ Pushed = Len(pushCursor_) - 1
      /\ Popped \in Nat /\ cons.view.hb \in Popped .. Pushed
      /\ cons.view.at \in Nat /\ cons.view.hb = cons.view.at - 1
  BY <1>0, ConsumerTyped DEF CounterFacts
<1>2. i \in cons.view.at .. Len(pushCursor_)
  BY DEF Readable
<1>3. /\ i \in Popped + 1 .. Len(pushCursor_) /\ i \in Nat \ {0}
      /\ i - 1 \in cons.view.hb .. Pushed /\ i - 1 \in Nat
  BY <1>1, <1>2
<1>4. /\ pushCursor_[i] = [val |-> SlotOf(i), view |-> [at |-> i, hb |-> i - 1]]
      /\ PopSlot = SlotOf(i) <=> i - 1 = Popped
  BY <1>3, EmptyTest
<1>5. AcquireCursor(cons.view, pushCursor_, i) = [at |-> i, hb |-> i - 1]
  BY <1>1, <1>2, <1>3, <1>4, ConsumerTyped DEF AcquireCursor, JoinViews, Larger, View
<1>6. closed_[cons.closedAt].view.hb <= i - 1
  <2>1. closed_[cons.closedAt] \in Messages(BOOLEAN)
    BY ConsumerTyped, ElementOfSeq DEF IInv, TypeOK
  <2>2. closed_[cons.closedAt].view.hb \in Nat
    BY <2>1 DEF Messages, View
  <2>3. closed_[cons.closedAt].view.hb <= cons.view.hb
    BY DEF IInv, ConsumerKnows
  <2> QED
    BY <1>1, <1>3, <2>2, <2>3
<1> QED
  BY <1>3, <1>4, <1>5, <1>6, SlotOfFacts DEF View

\* What a refreshing front() returns and knows.
LEMMA FrontRefreshReturns ==
    ASSUME IInv, NEW i \in Readable(pushCursor_, cons.view.at), FrontRefresh(i)
    PROVE  /\ cons' \in Consumer /\ cons'.view.at = i /\ cons'.view.hb = i - 1
           /\ cons'.closedAt = cons.closedAt /\ cons'.pushCursorCache_ = SlotOf(i)
           /\ cons'.pc = "idle"
           /\ cons'.front = IF PopSlot = SlotOf(i) THEN "null" ELSE "item"
<1> DEFINE seen   == [at |-> i, hb |-> i - 1]
           result == IF PopSlot = SlotOf(i) THEN "null" ELSE "item"
<1>1. cons' = [cons EXCEPT !.pc = "idle", !.pushCursorCache_ = SlotOf(i),
                           !.view = seen, !.front = result]
  BY ConsumerAcquires DEF FrontRefresh, PopSlot
<1>2. seen \in View /\ seen.at = i /\ seen.hb = i - 1 /\ SlotOf(i) \in Cursors
  BY ConsumerAcquires
<1>3. result \in {"null", "item"}
  OBVIOUS
<1> HIDE DEF seen, result
<1>4. /\ cons' \in Consumer /\ cons'.view = seen /\ cons'.closedAt = cons.closedAt
      /\ cons'.pushCursorCache_ = SlotOf(i) /\ cons'.pc = "idle" /\ cons'.front = result
  BY <1>1, <1>2, <1>3, ConsumerTyped DEF Consumer
<1> QED
  BY <1>2, <1>4 DEF result

LEMMA FrontRefreshStep ==
    ASSUME IInv, NEW i \in Readable(pushCursor_, cons.view.at), FrontRefresh(i)
    PROVE  IInv'
<1>0. CounterFacts /\ Pushed' = Pushed /\ Popped' = Popped
  BY Counters, ConsumerFrame DEF FrontRefresh
<1>1. cons.pc = "refresh" /\ UNCHANGED <<variant, atomics, storage, prod, phase>>
  BY DEF FrontRefresh
<1>2. cons'.view.at = i /\ cons'.view.hb = i - 1
  BY FrontRefreshReturns
<1>3. /\ i \in Popped + 1 .. Len(pushCursor_) /\ i \in Nat \ {0}
      /\ PopSlot = SlotOf(i) <=> i - 1 = Popped
  BY ConsumerAcquires
<1>4. /\ cons' \in Consumer /\ cons'.closedAt = cons.closedAt
      /\ cons'.pushCursorCache_ = SlotOf(i) /\ cons'.pc = "idle"
      /\ cons'.front = IF PopSlot = SlotOf(i) THEN "null" ELSE "item"
  BY FrontRefreshReturns
<1>5. /\ Popped \in Nat /\ Len(pushCursor_) \in Nat /\ Pushed = Len(pushCursor_) - 1
      /\ i \in 1 .. Len(pushCursor_)
  BY <1>0, <1>3 DEF CounterFacts
<1>6. ConsumerKnows'
  <2>1. /\ i - 1 \in Popped' .. cons'.view.hb /\ cons'.pushCursorCache_ = SlotOf((i - 1) + 1)
        /\ cons'.front = "item" => i - 1 > Popped'
    BY <1>0, <1>2, <1>3, <1>4, <1>5
  <2>2. /\ closed_' = closed_ /\ closed_[cons.closedAt].view.hb <= i - 1
        /\ cons'.view.hb = cons'.view.at - 1 /\ cons'.view.hb = i - 1
    BY <1>1, <1>2, <1>4, ConsumerAcquires DEF atomics
  <2> QED
    BY <1>4, <2>1, <2>2 DEF ConsumerKnows
<1>7. Joined'
  <2>1. ASSUME phase # "live"
        PROVE  /\ prod.pc = "idle" /\ i = Len(pushCursor_) /\ phase # "freed"
               /\ cons'.front = "null" => Popped = Pushed
    <3>1. prod.pc = "idle" /\ cons.view.at = Len(pushCursor_) /\ phase # "freed"
      BY <1>1, <2>1 DEF IInv, Joined
    <3>2. i = Len(pushCursor_)
      BY <1>5, <3>1 DEF Readable
    <3> QED
      BY <1>3, <1>4, <1>5, <3>1, <3>2
  <2> QED
    BY <1>0, <1>1, <1>2, <1>4, <2>1 DEF Joined, atomics
<1> QED
  BY <1>1, <1>2, <1>4, <1>5, <1>6, <1>7, ConsumerTyped, ConsumerLocalStep

LEMMA PopStep ==
    ASSUME IInv, Pop
    PROVE  IInv'
<1>0. CounterFacts /\ Pushed' = Pushed /\ Popped' = Popped
  BY Counters, ConsumerFrame DEF Pop
<1>1. /\ cons.pc = "idle" /\ cons.front = "item"
      /\ UNCHANGED <<variant, atomics, storage, prod, phase>>
      /\ cons' = [cons EXCEPT !.front = "none", !.pc = IF NDEBUG THEN "destroy" ELSE "assert"]
  BY DEF Pop
<1>2. /\ cons' \in Consumer /\ cons'.view = cons.view /\ cons'.closedAt = cons.closedAt
      /\ cons'.pushCursorCache_ = cons.pushCursorCache_
      /\ cons'.pc \in {"assert", "destroy"} /\ cons'.front = "none"
  BY <1>1, ConsumerTyped DEF Consumer
<1>3. ConsumerKnows'
  <2>1. PICK n \in Popped .. cons.view.hb : cons.pushCursorCache_ = SlotOf(n + 1) /\ n > Popped
    BY <1>1 DEF IInv, ConsumerKnows
  <2>2. n \in Popped' .. cons'.view.hb /\ cons'.pushCursorCache_ = SlotOf(n + 1) /\ n > Popped'
    BY <1>0, <1>2, <2>1
  <2>3. /\ cons.view.hb = cons.view.at - 1
        /\ closed_[cons.closedAt].view.hb <= cons.view.hb /\ closed_' = closed_
    BY <1>1 DEF IInv, ConsumerKnows, atomics
  <2> QED
    BY <1>2, <2>2, <2>3 DEF ConsumerKnows
<1>4. Joined'
  BY <1>0, <1>1, <1>2 DEF IInv, Joined, atomics
<1> QED
  BY <1>1, <1>2, <1>3, <1>4, ConsumerTyped, ConsumerLocalStep

LEMMA PopAssertStep ==
    ASSUME IInv, NEW i \in Readable(pushCursor_, cons.view.at), PopAssert(i)
    PROVE  IInv'
<1>0. CounterFacts /\ Pushed' = Pushed /\ Popped' = Popped
  BY Counters, ConsumerFrame DEF PopAssert
<1> DEFINE seen == [at |-> i, hb |-> i - 1]
<1>1. /\ cons.pc = "assert" /\ UNCHANGED <<variant, atomics, storage, prod, phase>>
      /\ cons' = [cons EXCEPT
                    !.view = seen,
                    !.pc = IF PopSlot # SlotOf(i) THEN "destroy" ELSE "aborted"]
  BY ConsumerAcquires DEF PopAssert, PopSlot
<1>2. seen \in View /\ seen.at = i /\ seen.hb = i - 1
  BY ConsumerAcquires
<1> HIDE DEF seen
<1>3. PICK n \in Popped .. cons.view.hb : cons.pushCursorCache_ = SlotOf(n + 1) /\ n > Popped
  BY <1>1 DEF IInv, ConsumerKnows
<1>4. /\ Popped \in Nat /\ Pushed \in Nat /\ cons.view.hb \in Nat
      /\ Len(pushCursor_) \in Nat /\ Pushed = Len(pushCursor_) - 1
  BY <1>0 DEF CounterFacts
<1>5. /\ i \in 1 .. Len(pushCursor_) /\ n \in Popped .. i - 1
      /\ PopSlot # SlotOf(i)
  <2>1. i - 1 \in cons.view.hb .. Pushed /\ i \in Nat \ {0}
    BY ConsumerAcquires
  <2>2. i - 1 # Popped
    BY <1>3, <1>4, <2>1
  <2>3. PopSlot # SlotOf(i)
    BY <2>2, ConsumerAcquires
  <2> QED
    BY <1>3, <1>4, <2>1, <2>3
<1>6. /\ cons' \in Consumer /\ cons'.view = seen /\ cons'.closedAt = cons.closedAt
      /\ cons'.pushCursorCache_ = cons.pushCursorCache_
      /\ cons'.pc = "destroy" /\ cons'.front = cons.front
  <2>1. cons' = [cons EXCEPT !.view = seen, !.pc = "destroy"]
    BY <1>1, <1>5
  <2> QED
    BY <1>2, <2>1, ConsumerTyped DEF Consumer
<1>7. ConsumerKnows'
  <2>1. n \in Popped' .. cons'.view.hb /\ cons'.pushCursorCache_ = SlotOf(n + 1) /\ n > Popped'
    BY <1>0, <1>2, <1>3, <1>5, <1>6
  <2>2. /\ closed_' = closed_ /\ closed_[cons.closedAt].view.hb <= i - 1
        /\ cons'.view.hb = cons'.view.at - 1 /\ cons'.view.hb = i - 1
    BY <1>1, <1>2, <1>6, ConsumerAcquires DEF atomics
  <2>3. cons'.front = "none"
    BY <1>1, <1>6 DEF IInv, ConsumerKnows
  <2> QED
    BY <1>6, <2>1, <2>2, <2>3 DEF ConsumerKnows
<1>8. Joined'
  <2>1. cons'.front = "none"
    BY <1>1, <1>6 DEF IInv, ConsumerKnows
  <2>2. ASSUME phase # "live"
        PROVE  prod.pc = "idle" /\ i = Len(pushCursor_) /\ phase # "freed"
    <3>1. prod.pc = "idle" /\ cons.view.at = Len(pushCursor_) /\ phase # "freed"
      BY <1>1, <2>2 DEF IInv, Joined
    <3>2. i = Len(pushCursor_)
      BY <1>4, <1>5, <3>1 DEF Readable
    <3> QED
      BY <3>1, <3>2
  <2> QED
    BY <1>1, <1>2, <1>6, <2>1, <2>2 DEF Joined, atomics
<1> QED
  BY <1>1, <1>2, <1>5, <1>6, <1>7, <1>8, ConsumerTyped, ConsumerLocalStep

LEMMA ClosedStep ==
    ASSUME IInv, NEW i \in Readable(closed_, cons.closedAt), Closed(i)
    PROVE  IInv'
<1>0. CounterFacts /\ Pushed' = Pushed /\ Popped' = Popped
  BY Counters, ConsumerFrame DEF Closed
<1> DEFINE seen == JoinViews(cons.view, closed_[i].view)
<1>1. /\ phase = "live" /\ cons.pc = "idle" /\ UNCHANGED <<variant, atomics, storage, prod, phase>>
      /\ cons' = [cons EXCEPT !.closedAt = i, !.view = seen]
  BY DEF Closed, AcquireFlag
<1>2. i \in 1 .. Len(closed_) /\ i \in Nat \ {0}
  BY <1>0, ConsumerTyped DEF Readable, CounterFacts
<1>3. /\ closed_[i].view \in View /\ closed_[i].view.hb = closed_[i].view.at - 1
      /\ closed_[i].view.at <= Len(pushCursor_)
  <2>1. closed_[i] \in Messages(BOOLEAN)
    BY <1>2, ElementOfSeq DEF IInv, TypeOK
  <2> QED
    BY <1>2, <2>1 DEF IInv, ClosedHistory, Messages
<1>4. /\ seen \in View /\ seen.hb = seen.at - 1 /\ seen.at \in 1 .. Len(pushCursor_)
      /\ seen.hb >= cons.view.hb /\ seen.hb >= closed_[i].view.hb
  <2>1. /\ cons.view \in View /\ cons.view.at \in 1 .. Len(pushCursor_)
        /\ cons.view.hb = cons.view.at - 1 /\ Len(pushCursor_) \in Nat
    BY <1>0, ConsumerTyped DEF CounterFacts
  <2> QED
    BY <1>3, <2>1, JoinedViews
<1> HIDE DEF seen
<1>5. /\ cons' \in Consumer /\ cons'.view = seen /\ cons'.closedAt = i
      /\ cons'.pushCursorCache_ = cons.pushCursorCache_
      /\ cons'.pc = "idle" /\ cons'.front = cons.front
  BY <1>1, <1>2, <1>4, ConsumerTyped DEF Consumer
<1>6. ConsumerKnows'
  <2>1. PICK n \in Popped .. cons.view.hb :
            /\ cons.pushCursorCache_ = SlotOf(n + 1)
            /\ cons.front = "item" => n > Popped
    BY DEF IInv, ConsumerKnows
  <2>2. n \in Popped' .. cons'.view.hb /\ (cons'.front = "item" => n > Popped')
    <3>1. cons.view.hb \in Nat /\ seen.hb \in Nat /\ Popped \in Nat
      BY <1>0, <1>4 DEF CounterFacts, View
    <3>2. n \in Popped .. seen.hb
      BY <1>4, <2>1, <3>1
    <3> QED
      BY <1>0, <1>5, <2>1, <3>2
  <2>3. /\ cons'.view.hb = cons'.view.at - 1
        /\ closed_[cons'.closedAt].view.hb <= cons'.view.hb /\ closed_' = closed_
    BY <1>1, <1>3, <1>4, <1>5 DEF atomics, View
  <2> QED
    BY <1>5, <2>1, <2>2, <2>3 DEF ConsumerKnows
<1>7. Joined'
  BY <1>1 DEF Joined
<1> QED
  BY <1>1, <1>2, <1>4, <1>5, <1>6, <1>7, ConsumerLocalStep

LEMMA JoinStep ==
    ASSUME IInv, Join
    PROVE  IInv'
<1>0. CounterFacts /\ Pushed' = Pushed /\ Popped' = Popped
  BY Counters, ConsumerFrame DEF Join
<1>1. /\ prod.pc = "idle" /\ cons.pc = "idle" /\ phase' = "dtor"
      /\ UNCHANGED <<variant, atomics, storage, prod>>
      /\ cons' = [cons EXCEPT !.view = CloseView, !.front = "none"]
  BY DEF Join
<1>2. /\ CloseView \in View /\ CloseView.at = Len(pushCursor_) /\ CloseView.hb = Pushed
      /\ Pushed \in Nat /\ Len(pushCursor_) \in Nat \ {0} /\ Pushed = Len(pushCursor_) - 1
  BY <1>0, <1>1 DEF CloseView, Constructed, View, CounterFacts
<1>3. /\ cons' \in Consumer /\ cons'.view = CloseView /\ cons'.closedAt = cons.closedAt
      /\ cons'.pushCursorCache_ = cons.pushCursorCache_
      /\ cons'.pc = "idle" /\ cons'.front = "none"
  BY <1>1, <1>2, ConsumerTyped DEF Consumer
<1>4. ConsumerKnows'
  <2>1. PICK n \in Popped .. cons.view.hb : cons.pushCursorCache_ = SlotOf(n + 1)
    BY DEF IInv, ConsumerKnows
  <2>2. cons.view.hb \in Popped .. Pushed /\ Popped \in Nat
    BY <1>0 DEF CounterFacts
  <2>3. n \in Popped' .. cons'.view.hb
    BY <1>0, <1>2, <1>3, <2>1, <2>2
  <2>4. closed_[cons.closedAt].view.hb <= Pushed
    <3>1. closed_[cons.closedAt] \in Messages(BOOLEAN)
      BY ConsumerTyped, ElementOfSeq DEF IInv, TypeOK
    <3>2. closed_[cons.closedAt].view.hb \in Nat
      BY <3>1 DEF Messages, View
    <3>3. closed_[cons.closedAt].view.hb <= cons.view.hb
      BY DEF IInv, ConsumerKnows
    <3> QED
      BY <1>2, <2>2, <3>2, <3>3
  <2>5. closed_' = closed_
    BY <1>1 DEF atomics
  <2> QED
    BY <1>2, <1>3, <2>1, <2>3, <2>4, <2>5 DEF ConsumerKnows
<1>5. Joined'
  BY <1>1, <1>2, <1>3 DEF Joined, atomics
<1> QED
  BY <1>1, <1>2, <1>3, <1>4, <1>5, ConsumerTyped, ConsumerLocalStep

LEMMA DeallocateStep ==
    ASSUME IInv, Deallocate
    PROVE  IInv'
<1>1. /\ phase = "dtor" /\ phase' = "freed" /\ cons.pc = "idle" /\ cons.front = "null"
      /\ UNCHANGED <<variant, atomics, storage, prod, cons>>
  BY DEF Deallocate
<1>2. Pushed' = Pushed /\ Popped' = Popped
  BY <1>1, ConsumerFrame
<1>3. ConsumerKnows'
  BY <1>1, <1>2 DEF IInv, ConsumerKnows, atomics
<1>4. Joined'
  BY <1>1, <1>2 DEF IInv, Joined, atomics
<1> QED
  BY <1>1, <1>3, <1>4, ConsumerTyped, ConsumerLocalStep

LEMMA PopDestroyStep ==
    ASSUME IInv, PopDestroy
    PROVE  IInv'
<1>0. CounterFacts
  BY Counters
<1>1. /\ cons.pc = "destroy" /\ cons' = [cons EXCEPT !.pc = "publish"]
      /\ slot' = [slot EXCEPT ![PopSlot] = Raw]
      /\ lastDestroy' = [lastDestroy EXCEPT ![PopSlot] = Popped + 1]
      /\ UNCHANGED <<variant, atomics, prod, phase>>
  BY DEF PopDestroy, PopSlot
<1>2. /\ Popped \in Nat /\ PopSlot = SlotOf(Popped + 1) /\ PopSlot \in Cursors
      /\ slot[PopSlot] = Popped + 1
  <2>1. Popped \in Nat /\ Popped + 1 \in Nat \ {0} /\ PopSlot = SlotOf(Popped + 1)
    BY <1>0 DEF CounterFacts
  <2> QED
    BY <1>1, <2>1, SlotOfFacts, SafetyOfIInv DEF FrontIsOldest
<1>3. /\ cons' \in Consumer /\ cons'.view = cons.view /\ cons'.closedAt = cons.closedAt
      /\ cons'.pushCursorCache_ = cons.pushCursorCache_
      /\ cons'.pc = "publish" /\ cons'.front = cons.front
  BY <1>1, ConsumerTyped DEF Consumer
<1>4. /\ slot \in [Cursors -> Nat] /\ slot' \in [Cursors -> Nat]
      /\ lastDestroy \in [Cursors -> Nat] /\ lastDestroy' \in [Cursors -> Nat]
  BY <1>1, <1>2 DEF IInv, TypeOK, Raw
<1>5. /\ Pushed' = Pushed /\ Popped' = Popped /\ Constructed' = Constructed
      /\ Destroyed = Popped /\ Destroyed' = Popped + 1
  BY <1>1, <1>3 DEF Pushed, Popped, Constructed, Destroyed, atomics
<1>6. TypeOK'
  BY <1>1, <1>3, <1>4 DEF IInv, TypeOK, atomics
<1>7. CursorHistory(pushCursor_)' /\ CursorHistory(popCursor_)' /\ ClosedHistory'
  BY <1>1 DEF IInv, atomics, CursorHistory, ClosedHistory
<1>8. ProducerKnows'
  BY <1>1, <1>5 DEF IInv, ProducerKnows
<1>9. ConsumerKnows'
  BY <1>1, <1>3, <1>5 DEF IInv, ConsumerKnows, atomics
<1>10. Contents'
  <2>1. Constructed \in Nat
    BY <1>0 DEF CounterFacts
  <2>2. ASSUME NEW n \in Popped + 2 .. Constructed
        PROVE  slot'[SlotOf(n)] = n
    <3>1. n \in Destroyed + 1 .. Constructed /\ n \in Nat \ {0} /\ n # Popped + 1
      BY <1>2, <1>5, <2>1
    <3>2. slot[SlotOf(n)] = n /\ SlotOf(n) \in Cursors
      BY <3>1, SlotOfFacts DEF IInv, Contents
    <3> QED
      BY <1>1, <1>2, <1>4, <3>1, <3>2
  <2>3. ASSUME NEW c \in Cursors, slot'[c] # Raw
        PROVE  slot'[c] \in Popped + 2 .. Constructed /\ c = SlotOf(slot'[c])
    <3>1. c # PopSlot /\ slot'[c] = slot[c]
      BY <1>1, <1>4, <2>3
    <3>2. slot[c] \in Popped + 1 .. Constructed /\ c = SlotOf(slot[c])
      BY <1>5, <2>3, <3>1 DEF IInv, Contents
    <3>3. slot[c] # Popped + 1
      BY <1>2, <3>1, <3>2
    <3> QED
      BY <1>2, <2>1, <3>1, <3>2, <3>3
  <2>4. ASSUME NEW c \in Cursors, lastDestroy'[c] # 0
        PROVE  lastDestroy'[c] \in 1 .. Popped + 1 /\ c = SlotOf(lastDestroy'[c])
    <3>1. CASE c = PopSlot
      BY <1>1, <1>2, <1>4, <3>1
    <3>2. CASE c # PopSlot
      <4>1. lastDestroy'[c] = lastDestroy[c]
        BY <1>1, <1>4, <3>2
      <4>2. lastDestroy[c] \in 1 .. Popped /\ c = SlotOf(lastDestroy[c])
        BY <1>5, <2>4, <4>1 DEF IInv, Contents
      <4> QED
        BY <1>2, <4>1, <4>2
    <3> QED
      BY <3>1, <3>2
  <2>5. Destroyed' + 1 = Popped + 2
    BY <1>2, <1>5
  <2> QED
    BY <1>5, <2>2, <2>3, <2>4, <2>5 DEF Contents
<1>11. Joined' /\ AssertNeverFires'
  BY <1>1, <1>3, <1>5 DEF IInv, Joined, ConsumerKnows, AssertNeverFires, atomics
<1> QED
  BY <1>6, <1>7, <1>8, <1>9, <1>10, <1>11 DEF IInv

LEMMA PublishPopStep ==
    ASSUME IInv, PublishPop
    PROVE  IInv'
<1>0. CounterFacts
  BY Counters
<1>1. /\ cons.pc = "publish" /\ cons' = [cons EXCEPT !.pc = "idle"]
      /\ popCursor_' = StoreRelease(popCursor_, NextCursor(Latest(popCursor_)), PopView)
      /\ UNCHANGED <<variant, pushCursor_, closed_, storage, prod, phase>>
  BY DEF PublishPop
<1>2. /\ Len(popCursor_) \in Nat \ {0} /\ Popped = Len(popCursor_) - 1 /\ Popped \in Nat
  BY <1>0 DEF CounterFacts
<1>3. PopView = [at |-> Len(popCursor_) + 1, hb |-> Len(popCursor_)]
  BY <1>1, <1>2 DEF PopView, Destroyed
<1>4. /\ popCursor_' \in Seq(Messages(Cursors)) /\ Len(popCursor_') = Len(popCursor_) + 1
      /\ CursorHistory(popCursor_')
  BY <1>1, <1>2, <1>3, CursorHistoryGrows DEF IInv, TypeOK
<1>5. /\ cons' \in Consumer /\ cons'.view = cons.view /\ cons'.closedAt = cons.closedAt
      /\ cons'.pushCursorCache_ = cons.pushCursorCache_
      /\ cons'.pc = "idle" /\ cons'.front = cons.front /\ cons.front = "none"
  BY <1>1, ConsumerTyped DEF Consumer, IInv, ConsumerKnows
<1>6. /\ Pushed' = Pushed /\ Popped' = Popped + 1
      /\ Constructed' = Constructed /\ Destroyed' = Destroyed
  BY <1>1, <1>2, <1>4, <1>5 DEF Pushed, Popped, Constructed, Destroyed
<1>7. TypeOK'
  <2>1. popCursor_' # <<>>
    BY <1>2, <1>4
  <2>2. prod.view.at \in 1 .. Len(popCursor_')
    BY <1>2, <1>4 DEF IInv, TypeOK
  <2> QED
    BY <1>1, <1>4, <1>5, <2>1, <2>2 DEF IInv, TypeOK, storage
<1>8. CursorHistory(pushCursor_)' /\ CursorHistory(popCursor_)' /\ ClosedHistory'
  BY <1>1, <1>4 DEF IInv, CursorHistory, ClosedHistory
<1>9. ProducerKnows'
  BY <1>1, <1>6 DEF IInv, ProducerKnows
<1>10. ConsumerKnows'
  <2>1. PICK n \in Popped .. cons.view.hb : cons.pushCursorCache_ = SlotOf(n + 1) /\ n > Popped
    BY <1>1 DEF IInv, ConsumerKnows
  <2>2. cons.view.hb \in Nat
    BY <1>0 DEF CounterFacts
  <2>3. n \in Popped' .. cons'.view.hb
    BY <1>2, <1>5, <1>6, <2>1, <2>2
  <2>4. /\ cons.view.hb = cons.view.at - 1
        /\ closed_[cons.closedAt].view.hb <= cons.view.hb /\ closed_' = closed_
    BY <1>1 DEF IInv, ConsumerKnows
  <2> QED
    BY <1>5, <2>1, <2>3, <2>4 DEF ConsumerKnows
<1>11. Contents'
  BY <1>1, <1>6 DEF IInv, Contents, storage
<1>12. Joined' /\ AssertNeverFires'
  BY <1>1, <1>5 DEF IInv, Joined, AssertNeverFires
<1> QED
  BY <1>7, <1>8, <1>9, <1>10, <1>11, <1>12 DEF IInv

-----------------------------------------------------------------------------
(* The invariant is inductive.                                             *)

LEMMA StutterIInv ==
    ASSUME IInv, UNCHANGED vars
    PROVE  IInv'
<1>1. UNCHANGED <<variant, pushCursor_, popCursor_, closed_, slot, lastDestroy, prod, cons, phase>>
  BY DEF vars, atomics, storage
<1>2. /\ Pushed' = Pushed /\ Popped' = Popped
      /\ Constructed' = Constructed /\ Destroyed' = Destroyed
  BY <1>1 DEF Pushed, Popped, Constructed, Destroyed
<1>3. TypeOK'
  BY <1>1 DEF IInv, TypeOK
<1>4. CursorHistory(pushCursor_)' /\ CursorHistory(popCursor_)' /\ ClosedHistory'
  BY <1>1 DEF IInv, CursorHistory, ClosedHistory
<1>5. ProducerKnows' /\ ConsumerKnows'
  BY <1>1, <1>2 DEF IInv, ProducerKnows, ConsumerKnows
<1>6. Contents' /\ Joined' /\ AssertNeverFires'
  BY <1>1, <1>2 DEF IInv, Contents, Joined, AssertNeverFires
<1> QED
  BY <1>3, <1>4, <1>5, <1>6 DEF IInv

\* Sequential consistency only takes outcomes of a load away.
LEMMA LoadableIsReadable ==
    ASSUME IInv
    PROVE  /\ Loadable(popCursor_, prod.view.at) \subseteq Readable(popCursor_, prod.view.at)
           /\ Loadable(pushCursor_, cons.view.at) \subseteq Readable(pushCursor_, cons.view.at)
           /\ Loadable(closed_, cons.closedAt) \subseteq Readable(closed_, cons.closedAt)
<1>1. CounterFacts
  BY Counters
<1>2. /\ prod.view.at \in 1 .. Len(popCursor_) /\ cons.view.at \in 1 .. Len(pushCursor_)
      /\ cons.closedAt \in 1 .. Len(closed_)
  BY DEF IInv, TypeOK
<1> QED
  BY <1>1, <1>2 DEF Loadable, Readable, CounterFacts

LEMMA NextIInv == IInv /\ [Next]_vars => IInv'
<1> SUFFICES ASSUME IInv, [Next]_vars
             PROVE  IInv'
  OBVIOUS
<1>1. CASE Emplace
  BY <1>1, BeginPushStep DEF Emplace
<1>2. CASE TryEmplace
  BY <1>2, BeginPushStep DEF TryEmplace
<1>3. ASSUME NEW i \in Readable(popCursor_, prod.view.at), EmplaceRefresh(i)
      PROVE  IInv'
  BY <1>3, RefreshPopCursorStep DEF EmplaceRefresh
<1>4. ASSUME NEW i \in Readable(popCursor_, prod.view.at), TryEmplaceRefresh(i)
      PROVE  IInv'
  BY <1>4, RefreshPopCursorStep DEF TryEmplaceRefresh
<1>5. CASE Construct
  BY <1>5, ConstructStep
<1>6. CASE ConstructThrows
  BY <1>6, ConstructThrowsStep
<1>7. CASE PublishPush
  BY <1>7, PublishPushStep
<1>8. CASE Close
  BY <1>8, CloseStep
<1>9. CASE Front
  BY <1>9, FrontStep
<1>10. ASSUME NEW i \in Readable(pushCursor_, cons.view.at), FrontRefresh(i)
       PROVE  IInv'
  BY <1>10, FrontRefreshStep
<1>11. CASE Pop
  BY <1>11, PopStep
<1>12. ASSUME NEW i \in Readable(pushCursor_, cons.view.at), PopAssert(i)
       PROVE  IInv'
  BY <1>12, PopAssertStep
<1>13. CASE PopDestroy
  BY <1>13, PopDestroyStep
<1>14. CASE PublishPop
  BY <1>14, PublishPopStep
<1>15. ASSUME NEW i \in Readable(closed_, cons.closedAt), Closed(i)
       PROVE  IInv'
  BY <1>15, ClosedStep
<1>16. CASE Join
  BY <1>16, JoinStep
<1>17. CASE Deallocate
  BY <1>17, DeallocateStep
<1>18. CASE UNCHANGED vars
  BY <1>18, StutterIInv
<1> QED
  BY <1>1, <1>2, <1>3, <1>4, <1>5, <1>6, <1>7, <1>8, <1>9, <1>10, <1>11, <1>12,
     <1>13, <1>14, <1>15, <1>16, <1>17, <1>18, LoadableIsReadable DEF Next, Operation

\* IInv holds in every reachable state, for every capacity and element count.
THEOREM Invariance == Spec => []IInv
BY InitIInv, NextIInv, PTL DEF Spec

\* Type correctness of the lock-free buffer.
THEOREM TypeCorrect == Spec => []TypeOK
<1>1. IInv => TypeOK
  BY DEF IInv
<1> QED
  BY <1>1, Invariance, PTL

\* The acquire/release pairs of SPSCBuffer order every conflicting pair of slot
\* accesses of its two threads.
THEOREM RaceFreedom == Spec => []NoDataRace
<1>1. IInv => NoDataRace
  BY SafetyOfIInv
<1> QED
  BY <1>1, Invariance, PTL

\* emplace and try_emplace never construct over a live element.
THEOREM NoOverwrite == Spec => []ConstructsInRawStorage
<1>1. IInv => ConstructsInRawStorage
  BY SafetyOfIInv
<1> QED
  BY <1>1, Invariance, PTL

\* front() and pop() act on the oldest element, in order of pushing.
THEOREM FifoOrder == Spec => []FrontIsOldest
<1>1. IInv => FrontIsOldest
  BY SafetyOfIInv
<1> QED
  BY <1>1, Invariance, PTL

\* The assertion of pop() never fires when pop() follows a non-null front().
THEOREM AssertHolds == Spec => []AssertNeverFires
<1>1. IInv => AssertNeverFires
  BY DEF IInv
<1> QED
  BY <1>1, Invariance, PTL

\* The destructor destroys every element before it frees the storage.
THEOREM DestructorDrains == Spec => []NoElementLeaks
<1>1. IInv => NoElementLeaks
  BY SafetyOfIInv
<1> QED
  BY <1>1, Invariance, PTL
=============================================================================
