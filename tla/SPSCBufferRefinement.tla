------------------------ MODULE SPSCBufferRefinement ------------------------
(***************************************************************************)
(* What the operations of SPSCBuffer return, and that it implements        *)
(* BoundedFifo, for every capacity and every number of elements.           *)
(***************************************************************************)
EXTENDS SPSCBufferProofs

-----------------------------------------------------------------------------
(* Results of try_emplace and front.                                       *)

\* A refusing try_emplace has loaded a message that leaves capacity() elements.
LEMMA RefusingStep ==
    ASSUME IInv, [Next]_vars, Refuses
    PROVE  \E i \in Loadable(popCursor_, prod.view.at) :
              prod'.view.at = i /\ i \in Nat /\ Pushed - (i - 1) = BufferSize
<1>1. PICK i \in Loadable(popCursor_, prod.view.at) : TryEmplaceRefresh(i)
  <2>1. prod' # prod
    BY DEF Refuses
  <2> QED
    BY <2>1 DEF Refuses, Next, Operation, vars, atomics, storage, Emplace, TryEmplace, BeginPush,
       EmplaceRefresh, RefreshPopCursor, Construct, ConstructThrows, PublishPush, Close, Front,
       FrontRefresh, Pop, PopAssert, PopDestroy, PublishPop, Closed, Join, Deallocate
<1>2. prod' = [pc |-> IF PushCursorNext = popCursor_[i].val THEN "idle" ELSE "construct",
               popCursorCache_ |-> popCursor_[i].val,
               view |-> AcquireCursor(prod.view, popCursor_, i)]
  BY <1>1 DEF TryEmplaceRefresh, RefreshPopCursor
<1>3. i \in prod.view.at .. Len(popCursor_)
  BY LoadableIsReadable DEF Readable
<1>4. /\ popCursor_[i] = [val |-> SlotOf(i), view |-> [at |-> i, hb |-> i - 1]]
      /\ PushCursorNext = SlotOf(i) <=> Pushed - (i - 1) = BufferSize
  BY <1>3, FullTest
<1>5. PushCursorNext = SlotOf(i)
  BY <1>2, <1>4 DEF Refuses
<1>6. prod'.view.at = i /\ i \in Nat
  <2>1. /\ prod.view.at \in Nat /\ Len(popCursor_) \in Nat
    BY Counters DEF CounterFacts
  <2>2. i \in Nat /\ i >= prod.view.at
    BY <1>3, <2>1
  <2> QED
    BY <1>2, <1>4, <2>1, <2>2 DEF AcquireCursor, JoinViews, Larger
<1> QED
  BY <1>4, <1>5, <1>6

\* A front() that returns null has loaded the message of the last popped push.
LEMMA FindingEmptyStep ==
    ASSUME IInv, [Next]_vars, FindsEmpty
    PROVE  \E i \in Loadable(pushCursor_, cons.view.at) :
              /\ cons'.view.at = i /\ i \in Nat /\ i - 1 = Popped
              /\ closed_[cons.closedAt].view.hb <= i - 1
<1>1. PICK i \in Loadable(pushCursor_, cons.view.at) : FrontRefresh(i)
  <2>1. cons' # cons
    BY DEF FindsEmpty
  <2> QED
    BY <2>1 DEF FindsEmpty, Next, Operation, vars, atomics, storage, Emplace, TryEmplace, BeginPush,
       EmplaceRefresh, TryEmplaceRefresh, RefreshPopCursor, Construct, ConstructThrows,
       PublishPush, Close, Front, Pop, PopAssert, PopDestroy, PublishPop, Closed, Join, Deallocate
<1>2. i \in Readable(pushCursor_, cons.view.at)
  BY LoadableIsReadable
<1>3. cons'.view.at = i /\ PopSlot = SlotOf(i)
  BY <1>1, <1>2, FrontRefreshReturns DEF FindsEmpty
<1>4. i - 1 = Popped /\ closed_[cons.closedAt].view.hb <= i - 1 /\ i \in Nat
  BY <1>2, <1>3, ConsumerAcquires
<1> QED
  BY <1>3, <1>4

\* try_emplace refuses exactly when capacity() elements are left by the pops
\* it has seen.
THEOREM RefusalIsJustified == Spec => RefusesOnlyWhenFull
<1>1. IInv /\ [Next]_vars => [Refuses => Pushed - (prod'.view.at - 1) = BufferSize]_vars
  BY RefusingStep
<1> QED
  BY <1>1, Invariance, PTL DEF Spec, RefusesOnlyWhenFull

\* front() returns null exactly when every push it has seen is popped, with
\* every push before a close that closed() has reported among them.
THEOREM EmptyIsJustified == Spec => EmptyOnlyWhenDrained
<1> DEFINE Drained == /\ Popped = cons'.view.at - 1
                      /\ Popped >= closed_[cons.closedAt].view.hb
<1>1. ASSUME IInv, [Next]_vars, FindsEmpty
      PROVE  Drained
  <2>1. PICK i \in Nat : /\ cons'.view.at = i /\ i - 1 = Popped
                         /\ closed_[cons.closedAt].view.hb <= i - 1
    BY <1>1, FindingEmptyStep
  <2>2. Popped \in Nat /\ closed_[cons.closedAt].view.hb \in Nat
    <3>1. closed_[cons.closedAt] \in Messages(BOOLEAN)
      BY <1>1, ConsumerTyped, ElementOfSeq DEF IInv, TypeOK
    <3> QED
      BY <1>1, <3>1, Counters DEF Messages, View, CounterFacts
  <2> QED
    BY <2>1, <2>2
<1>2. IInv /\ [Next]_vars => [FindsEmpty => Drained]_vars
  BY <1>1
<1> QED
  BY <1>2, Invariance, PTL DEF Spec, EmptyOnlyWhenDrained

\* In the variants that only use seq_cst accesses the buffer is full when
\* try_emplace refuses, and empty when front() returns null.
THEOREM SeqCstAnswersAreExact == Spec => ExactWhenSeqCst
<1> DEFINE Exact == /\ Refuses => Pushed - Popped = BufferSize
                    /\ FindsEmpty => Popped = Pushed
<1>1. ASSUME IInv, [Next]_vars, SeqCst
      PROVE  Exact
  <2>0. CounterFacts
    BY <1>1, Counters
  <2>1. /\ Loadable(popCursor_, prod.view.at) = {Len(popCursor_)}
        /\ Loadable(pushCursor_, cons.view.at) = {Len(pushCursor_)}
    BY <1>1, <2>0 DEF Loadable, Readable, CounterFacts
  <2>2. Refuses => Pushed - Popped = BufferSize
    BY <1>1, <2>0, <2>1, RefusingStep DEF CounterFacts
  <2>3. FindsEmpty => Popped = Pushed
    BY <1>1, <2>0, <2>1, FindingEmptyStep DEF CounterFacts
  <2> QED
    BY <2>2, <2>3
<1>2. IInv /\ [Next]_vars => [SeqCst => Exact]_vars
  BY <1>1
<1> QED
  BY <1>2, Invariance, PTL DEF Spec, ExactWhenSeqCst

-----------------------------------------------------------------------------
(* Every step of the buffer is a step of BoundedFifo or leaves it alone.   *)

LEMMA InitRefines == Init => Fifo!Init
<1> SUFFICES ASSUME Init
             PROVE  Fifo!Init
  OBVIOUS
<1>1. Len(pushCursor_) = 1 /\ Len(popCursor_) = 1 /\ Len(closed_) = 1
  BY DEF Init, Initialised
<1>2. cons.pc = "idle" /\ cons.front = "none" /\ cons.closedAt = 1 /\ phase = "live"
  BY DEF Init
<1>3. Pushed = 0 /\ Popped = 0
  BY <1>1 DEF Pushed, Popped
<1>4. Elements(Popped, Pushed) = <<>>
  BY <1>3, ElementsAreAQueue
<1>5. FrontShown = "none" /\ Sealed = 0
  BY <1>1, <1>2 DEF FrontShown, Sealed
<1> QED
  BY <1>1, <1>2, <1>3, <1>4, <1>5, SPSCAssumption DEF Fifo!Init

\* Steps local to the producer are invisible.
LEMMA ProducerLocalRefines ==
    ASSUME UNCHANGED <<atomics, storage, cons, phase>>
    PROVE  UNCHANGED Fifo!fifoVars
BY DEF Fifo!fifoVars, atomics, Pushed, Popped, FrontShown, Sealed

\* So are steps of the consumer that change neither result nor phase.
LEMMA ConsumerLocalRefines ==
    ASSUME UNCHANGED <<atomics, phase>>,
           FrontShown' = FrontShown, cons'.closedAt = cons.closedAt
    PROVE  UNCHANGED Fifo!fifoVars
BY DEF Fifo!fifoVars, atomics, Pushed, Popped, Sealed

LEMMA PublishPushRefines ==
    ASSUME IInv, PublishPush
    PROVE  Fifo!Push
<1>0. CounterFacts
  BY Counters
<1>1. /\ prod.pc = "publish" /\ Len(pushCursor_') = Len(pushCursor_) + 1
      /\ UNCHANGED <<popCursor_, closed_, storage, cons, phase>>
  <2>1. PushView = [at |-> Len(pushCursor_) + 1, hb |-> Len(pushCursor_)]
    BY <1>0 DEF PublishPush, PushView, Constructed, CounterFacts
  <2> QED
    BY <1>0, <2>1, CursorHistoryGrows
       DEF PublishPush, PushCursorNext, IInv, TypeOK, CounterFacts
<1>2. Pushed' = Pushed + 1 /\ Popped' = Popped
  BY <1>0, <1>1 DEF Pushed, Popped, CounterFacts
<1>3. Pushed \in Nat /\ Popped \in Nat /\ Popped <= Pushed
  BY <1>0 DEF CounterFacts
<1>4. Elements(Popped, Pushed)' = Append(Elements(Popped, Pushed), Pushed + 1)
  BY <1>2, <1>3, ElementsPushPop
<1>5. Len(Elements(Popped, Pushed)) < BufferSize
  <2>1. Pushed - prod.view.hb < BufferSize
    BY <1>1 DEF IInv, ProducerKnows
  <2>2. Pushed - Popped < BufferSize
    BY <1>0, <2>1, SPSCAssumption DEF CounterFacts
  <2>3. Len(Elements(Popped, Pushed)) = Pushed - Popped
    BY <1>3, ElementsAreAQueue
  <2> QED
    BY <2>2, <2>3
<1>6. phase = "live"
  BY <1>1 DEF IInv, Joined
<1>7. UNCHANGED <<FrontShown, Len(closed_) > 1, Sealed, cons.closedAt > 1, phase>>
  BY <1>1 DEF FrontShown, Sealed
<1> QED
  BY <1>2, <1>4, <1>5, <1>6, <1>7 DEF Fifo!Push

LEMMA CloseRefines ==
    ASSUME IInv, Close
    PROVE  Fifo!Close
<1>0. CounterFacts
  BY Counters
<1>1. /\ phase = "live" /\ prod.pc = "idle"
      /\ closed_' = Append(closed_, [val |-> TRUE, view |-> CloseView])
      /\ UNCHANGED <<pushCursor_, popCursor_, storage, prod, cons, phase>>
  BY DEF Close, StoreRelease
<1>2. /\ Len(closed_') = Len(closed_) + 1
      /\ \A i \in 1 .. Len(closed_) : closed_'[i] = closed_[i]
      /\ closed_'[Len(closed_) + 1] = [val |-> TRUE, view |-> CloseView]
  <2> DEFINE message == [val |-> TRUE, view |-> CloseView]
  <2>1. message \in Messages(BOOLEAN)
    BY <1>0 DEF Messages, CloseView, View, CounterFacts
  <2>2. closed_' = Append(closed_, message)
    BY <1>1
  <2> HIDE DEF message
  <2>3. /\ Len(closed_') = Len(closed_) + 1
        /\ \A i \in 1 .. Len(closed_) : closed_'[i] = closed_[i]
        /\ closed_'[Len(closed_) + 1] = message
    BY <2>1, <2>2, AppendProperties DEF IInv, TypeOK
  <2> QED
    BY <2>3 DEF message
<1>3. Len(closed_) \in Nat \ {0} /\ CloseView.hb = Pushed
  BY <1>0, <1>1 DEF CounterFacts, CloseView, Constructed
<1>4. Len(closed_') > 1
  BY <1>2, <1>3
<1>5. Sealed' = IF Len(closed_) > 1 THEN Sealed ELSE Pushed
  <2>1. CASE Len(closed_) > 1
    <3>1. closed_'[2] = closed_[2]
      BY <1>2, <1>3, <2>1
    <3> QED
      BY <1>4, <2>1, <3>1 DEF Sealed
  <2>2. CASE ~(Len(closed_) > 1)
    <3>1. Len(closed_) + 1 = 2
      BY <1>3, <2>2
    <3>2. closed_'[2].view.hb = Pushed
      BY <1>2, <1>3, <3>1
    <3> QED
      BY <1>4, <2>2, <3>2 DEF Sealed
  <2> QED
    BY <2>1, <2>2
<1>6. UNCHANGED <<Elements(Popped, Pushed), Pushed, FrontShown, cons.closedAt > 1, phase>>
  BY <1>1 DEF Pushed, Popped, FrontShown
<1> QED
  BY <1>1, <1>4, <1>5, <1>6 DEF Fifo!Close

LEMMA FrontRefines ==
    ASSUME IInv, Front
    PROVE  Fifo!FrontItem \/ UNCHANGED Fifo!fifoVars
<1>0. CounterFacts
  BY Counters
<1>1. /\ cons.pc = "idle" /\ UNCHANGED <<atomics, storage, prod, phase>>
      /\ phase # "freed"
      /\ cons' = IF Cached /\ PopSlot # cons.pushCursorCache_
                    THEN [cons EXCEPT !.front = "item"]
                    ELSE [cons EXCEPT !.pc = "refresh"]
  BY DEF Front, PopSlot
<1>2. CASE ~(Cached /\ PopSlot # cons.pushCursorCache_)
  <2>1. FrontShown' = FrontShown /\ cons'.closedAt = cons.closedAt
    BY <1>1, <1>2, ConsumerTyped DEF FrontShown, Consumer
  <2> QED
    BY <1>1, <2>1, ConsumerLocalRefines
<1>3. CASE Cached /\ PopSlot # cons.pushCursorCache_
  <2>1. FrontShown' = "item" /\ cons'.closedAt = cons.closedAt
    BY <1>1, <1>3, ConsumerTyped DEF FrontShown, Consumer
  <2>2. Elements(Popped, Pushed) # <<>>
    <3>1. PICK n \in Popped .. cons.view.hb : cons.pushCursorCache_ = SlotOf(n + 1)
      BY DEF IInv, ConsumerKnows
    <3>2. n # Popped
      BY <1>0, <1>3, <3>1 DEF CounterFacts
    <3>3. Popped \in Nat /\ Pushed \in Nat /\ Popped < Pushed
      BY <1>0, <3>1, <3>2 DEF CounterFacts
    <3> QED
      BY <3>3, ElementsAreAQueue
  <2>3. UNCHANGED <<Elements(Popped, Pushed), Pushed, Len(closed_) > 1, Sealed,
                    cons.closedAt > 1, phase>>
    BY <1>1, <2>1 DEF atomics, Pushed, Popped, Sealed
  <2> QED
    BY <1>1, <2>1, <2>2, <2>3 DEF Fifo!FrontItem
<1> QED
  BY <1>2, <1>3

LEMMA FrontRefreshRefines ==
    ASSUME IInv, NEW i \in Readable(pushCursor_, cons.view.at), FrontRefresh(i)
    PROVE  Fifo!FrontItem \/ Fifo!FrontNull
<1>0. CounterFacts
  BY Counters
<1>1. /\ cons.pc = "refresh" /\ UNCHANGED <<atomics, storage, prod, phase>>
  BY DEF FrontRefresh
<1>2. /\ cons'.closedAt = cons.closedAt /\ cons'.pc = "idle"
      /\ cons'.front = IF PopSlot = SlotOf(i) THEN "null" ELSE "item"
  BY FrontRefreshReturns
<1>3. /\ i - 1 \in cons.view.hb .. Pushed
      /\ PopSlot = SlotOf(i) <=> i - 1 = Popped
      /\ closed_[cons.closedAt].view.hb <= i - 1
  BY ConsumerAcquires
<1>4. Popped \in Nat /\ Pushed \in Nat /\ Popped <= Pushed /\ cons.view.hb \in Popped .. Pushed
  BY <1>0 DEF CounterFacts
<1>5. phase # "freed"
  BY <1>1 DEF IInv, Joined
<1>6. UNCHANGED <<Elements(Popped, Pushed), Pushed, Len(closed_) > 1, Sealed,
                  cons.closedAt > 1, phase>>
  BY <1>1, <1>2 DEF atomics, Pushed, Popped, Sealed
<1>7. CASE PopSlot # SlotOf(i)
  <2>1. Popped < Pushed
    BY <1>3, <1>4, <1>7
  <2>2. Elements(Popped, Pushed) # <<>> /\ FrontShown' = "item"
    BY <1>2, <1>4, <1>7, <2>1, ElementsAreAQueue DEF FrontShown
  <2> QED
    BY <1>5, <1>6, <2>2 DEF Fifo!FrontItem
<1>8. CASE PopSlot = SlotOf(i)
  <2>1. FrontShown' = "null" /\ i - 1 = Popped
    BY <1>2, <1>3, <1>8 DEF FrontShown
  <2>2. FrontShown # "item"
    <3>1. SUFFICES ASSUME cons.front = "item"
                   PROVE  FALSE
      BY <1>1 DEF FrontShown
    <3>2. PICK n \in Popped .. cons.view.hb : n > Popped
      BY <3>1 DEF IInv, ConsumerKnows
    <3> QED
      BY <1>3, <1>4, <2>1, <3>2
  <2>3. phase = "live" \/ Popped = Pushed
    <3>1. CASE phase # "live"
      <4>1. cons.view.at = Len(pushCursor_)
        BY <3>1 DEF IInv, Joined
      <4>2. cons.view.hb = Pushed
        BY <1>0, <4>1, ConsumerTyped DEF CounterFacts
      <4> QED
        BY <1>3, <1>4, <2>1, <4>2
    <3> QED
      BY <3>1
  <2>4. cons.closedAt > 1 => Sealed <= Popped
    <3>1. SUFFICES ASSUME cons.closedAt > 1
                   PROVE  Sealed <= Popped
      OBVIOUS
    <3>2. Len(closed_) > 1 /\ 2 \in 1 .. cons.closedAt /\ cons.closedAt \in 1 .. Len(closed_)
      BY <1>0, <3>1, ConsumerTyped DEF CounterFacts
    <3>3. closed_[2].view.hb <= closed_[cons.closedAt].view.hb
      BY <3>2 DEF IInv, ClosedHistory
    <3>4. closed_[2].view.hb \in Nat /\ closed_[cons.closedAt].view.hb \in Nat
      <4>1. 2 \in 1 .. Len(closed_)
        BY <1>0, <3>2 DEF CounterFacts
      <4>2. closed_[2] \in Messages(BOOLEAN) /\ closed_[cons.closedAt] \in Messages(BOOLEAN)
        BY <3>2, <4>1, ElementOfSeq DEF IInv, TypeOK
      <4> QED
        BY <4>2 DEF Messages, View
    <3> QED
      BY <1>3, <1>4, <2>1, <3>2, <3>3, <3>4 DEF Sealed
  <2>5. Elements(Popped, Pushed) # <<>> =>
            /\ phase = "live"
            /\ cons.closedAt > 1 => Sealed < Head(Elements(Popped, Pushed))
    <3>1. SUFFICES ASSUME Elements(Popped, Pushed) # <<>>
                   PROVE  /\ phase = "live"
                          /\ cons.closedAt > 1 => Sealed < Head(Elements(Popped, Pushed))
      OBVIOUS
    <3>2. Popped < Pushed
      BY <1>4, <3>1, ElementsAreAQueue
    <3>3. Head(Elements(Popped, Pushed)) = Popped + 1
      BY <1>4, <3>2, ElementsPushPop
    <3>4. Sealed \in Nat
      <4>1. CASE Len(closed_) > 1
        <5>1. 2 \in 1 .. Len(closed_)
          BY <1>0, <4>1 DEF CounterFacts
        <5>2. closed_[2] \in Messages(BOOLEAN)
          BY <5>1, ElementOfSeq DEF IInv, TypeOK
        <5> QED
          BY <4>1, <5>2 DEF Sealed, Messages, View
      <4>2. CASE ~(Len(closed_) > 1)
        BY <4>2 DEF Sealed
      <4> QED
        BY <4>1, <4>2
    <3> QED
      BY <1>4, <2>3, <2>4, <3>2, <3>3, <3>4
  <2> QED
    BY <1>5, <1>6, <2>1, <2>2, <2>5 DEF Fifo!FrontNull
<1> QED
  BY <1>7, <1>8

\* Until its release store, pop() shows the element it removes.
LEMMA PopRefines ==
    ASSUME IInv, Pop
    PROVE  UNCHANGED Fifo!fifoVars
<1>1. /\ cons.pc = "idle" /\ cons.front = "item" /\ UNCHANGED <<atomics, phase>>
      /\ cons' = [cons EXCEPT !.front = "none", !.pc = IF NDEBUG THEN "destroy" ELSE "assert"]
  BY DEF Pop
<1>2. FrontShown' = FrontShown /\ cons'.closedAt = cons.closedAt
  BY <1>1, ConsumerTyped DEF FrontShown, Consumer
<1> QED
  BY <1>1, <1>2, ConsumerLocalRefines

LEMMA PopAssertRefines ==
    ASSUME IInv, IInv', NEW i \in Readable(pushCursor_, cons.view.at), PopAssert(i)
    PROVE  UNCHANGED Fifo!fifoVars
<1>1. /\ cons.pc = "assert" /\ UNCHANGED <<atomics, phase>>
      /\ cons' = [cons EXCEPT
                    !.view = AcquireCursor(cons.view, pushCursor_, i),
                    !.pc = IF PopSlot # pushCursor_[i].val THEN "destroy" ELSE "aborted"]
  BY DEF PopAssert, PopSlot
<1>2. cons'.pc \in {"destroy", "aborted"} /\ cons'.closedAt = cons.closedAt
  BY <1>1, ConsumerTyped DEF Consumer
<1>3. cons'.pc = "destroy"
  BY <1>2 DEF IInv, AssertNeverFires
<1>4. FrontShown' = FrontShown
  BY <1>1, <1>3 DEF FrontShown
<1> QED
  BY <1>1, <1>2, <1>4, ConsumerLocalRefines

LEMMA PopDestroyRefines ==
    ASSUME IInv, PopDestroy
    PROVE  UNCHANGED Fifo!fifoVars
<1>1. /\ cons.pc = "destroy" /\ UNCHANGED <<atomics, phase>>
      /\ cons' = [cons EXCEPT !.pc = "publish"]
  BY DEF PopDestroy
<1>2. FrontShown' = FrontShown /\ cons'.closedAt = cons.closedAt
  BY <1>1, ConsumerTyped DEF FrontShown, Consumer
<1> QED
  BY <1>1, <1>2, ConsumerLocalRefines

LEMMA PublishPopRefines ==
    ASSUME IInv, PublishPop
    PROVE  Fifo!Pop
<1>0. CounterFacts
  BY Counters
<1>1. /\ cons.pc = "publish" /\ cons' = [cons EXCEPT !.pc = "idle"]
      /\ Len(popCursor_') = Len(popCursor_) + 1
      /\ UNCHANGED <<pushCursor_, closed_, phase>>
  <2>1. PopView = [at |-> Len(popCursor_) + 1, hb |-> Len(popCursor_)]
    BY <1>0 DEF PublishPop, PopView, Destroyed, CounterFacts
  <2> QED
    BY <1>0, <2>1, CursorHistoryGrows DEF PublishPop, IInv, TypeOK, CounterFacts
<1>2. /\ cons'.pc = "idle" /\ cons'.front = cons.front /\ cons'.closedAt = cons.closedAt
      /\ cons.front = "none"
  BY <1>1, ConsumerTyped DEF Consumer, IInv, ConsumerKnows
<1>3. FrontShown = "item" /\ FrontShown' = "none"
  BY <1>1, <1>2 DEF FrontShown
<1>4. Pushed' = Pushed /\ Popped' = Popped + 1
  BY <1>0, <1>1 DEF Pushed, Popped, CounterFacts
<1>5. Popped \in Nat /\ Pushed \in Nat /\ Popped < Pushed
  <2>1. PICK n \in Popped .. cons.view.hb : n > Popped
    BY <1>1 DEF IInv, ConsumerKnows
  <2> QED
    BY <1>0, <2>1 DEF CounterFacts
<1>6. Elements(Popped, Pushed)' = Tail(Elements(Popped, Pushed))
  <2>1. Elements(Popped, Pushed)' = Elements(Popped + 1, Pushed)
    BY <1>4
  <2>2. Elements(Popped + 1, Pushed) = Tail(Elements(Popped, Pushed))
    <3>1. Popped <= Pushed
      BY <1>5
    <3> QED
      BY <1>5, <3>1, ElementsPushPop
  <2> QED
    BY <2>1, <2>2
<1>7. phase # "freed"
  BY <1>1 DEF IInv, Joined
<1>8. UNCHANGED <<Pushed, Len(closed_) > 1, Sealed, cons.closedAt > 1, phase>>
  BY <1>1, <1>2, <1>4 DEF Sealed
<1>9. Elements(Popped, Pushed) # <<>>
  <2>1. Popped <= Pushed /\ Popped # Pushed
    BY <1>5
  <2> QED
    BY <1>5, <2>1, ElementsAreAQueue
<1> QED
  BY <1>3, <1>6, <1>7, <1>8, <1>9 DEF Fifo!Pop

LEMMA ClosedRefines ==
    ASSUME IInv, NEW i \in Readable(closed_, cons.closedAt), Closed(i)
    PROVE  Fifo!SeeClosed \/ UNCHANGED Fifo!fifoVars
<1>0. CounterFacts
  BY Counters
<1>1. /\ phase = "live" /\ cons.pc = "idle" /\ UNCHANGED <<atomics, phase>>
      /\ cons' = [cons EXCEPT !.closedAt = i, !.view = AcquireFlag(cons.view, closed_, i)]
  BY DEF Closed
<1>2. cons'.closedAt = i /\ FrontShown' = FrontShown
  BY <1>1, ConsumerTyped DEF FrontShown, Consumer
<1>3. i \in cons.closedAt .. Len(closed_) /\ cons.closedAt \in 1 .. Len(closed_)
  BY ConsumerTyped DEF Readable
<1>4. CASE i > 1
  <2>1. Len(closed_) > 1
    BY <1>0, <1>3, <1>4 DEF CounterFacts
  <2>2. UNCHANGED <<Elements(Popped, Pushed), Pushed, FrontShown, Len(closed_) > 1, Sealed, phase>>
    BY <1>1, <1>2 DEF atomics, Pushed, Popped, Sealed
  <2>3. (cons.closedAt > 1)' = TRUE
    BY <1>2, <1>4
  <2> QED
    BY <1>1, <2>1, <2>2, <2>3 DEF Fifo!SeeClosed
<1>5. CASE ~(i > 1)
  <2>1. cons'.closedAt = cons.closedAt
    BY <1>0, <1>2, <1>3, <1>5 DEF CounterFacts
  <2> QED
    BY <1>1, <1>2, <2>1, ConsumerLocalRefines
<1> QED
  BY <1>4, <1>5

LEMMA JoinRefines ==
    ASSUME IInv, Join
    PROVE  Fifo!Join
<1>1. /\ phase = "live" /\ phase' = "dtor" /\ cons.pc = "idle" /\ UNCHANGED atomics
      /\ cons' = [cons EXCEPT !.view = CloseView, !.front = "none"]
  BY DEF Join
<1>2. FrontShown' = "none" /\ cons'.closedAt = cons.closedAt
  BY <1>1, ConsumerTyped DEF FrontShown, Consumer
<1>3. UNCHANGED <<Elements(Popped, Pushed), Pushed, Len(closed_) > 1, Sealed, cons.closedAt > 1>>
  BY <1>1, <1>2 DEF atomics, Pushed, Popped, Sealed
<1> QED
  BY <1>1, <1>2, <1>3 DEF Fifo!Join

LEMMA DeallocateRefines ==
    ASSUME IInv, Deallocate
    PROVE  Fifo!Deallocate
<1>1. /\ phase = "dtor" /\ phase' = "freed" /\ cons.front = "null"
      /\ UNCHANGED <<atomics, storage, prod, cons>>
  BY DEF Deallocate
<1>2. Popped = Pushed
  BY <1>1 DEF IInv, Joined
<1>3. Elements(Popped, Pushed) = <<>>
  BY <1>2, Counters, ElementsAreAQueue DEF CounterFacts
<1>4. UNCHANGED <<Elements(Popped, Pushed), Pushed, FrontShown, Len(closed_) > 1, Sealed,
                  cons.closedAt > 1>>
  BY <1>1 DEF atomics, Pushed, Popped, FrontShown, Sealed
<1> QED
  BY <1>1, <1>3, <1>4 DEF Fifo!Deallocate

LEMMA NextRefines == IInv /\ IInv' /\ [Next]_vars => [Fifo!Next]_(Fifo!fifoVars)
<1> SUFFICES ASSUME IInv, IInv', [Next]_vars
             PROVE  Fifo!Next \/ UNCHANGED Fifo!fifoVars
  OBVIOUS
<1>1. CASE Emplace \/ TryEmplace \/ Construct \/ ConstructThrows
  <2>1. UNCHANGED Fifo!fifoVars
    BY <1>1 DEF Fifo!fifoVars, Emplace, TryEmplace, BeginPush, Construct, ConstructThrows,
       atomics, Pushed, Popped, FrontShown, Sealed
  <2> QED
    BY <2>1
<1>2. ASSUME NEW i \in Readable(popCursor_, prod.view.at), EmplaceRefresh(i) \/ TryEmplaceRefresh(i)
      PROVE  UNCHANGED Fifo!fifoVars
  BY <1>2, ProducerLocalRefines DEF EmplaceRefresh, TryEmplaceRefresh, RefreshPopCursor
<1>3. CASE PublishPush
  BY <1>3, PublishPushRefines DEF Fifo!Next
<1>4. CASE Close
  BY <1>4, CloseRefines DEF Fifo!Next
<1>5. CASE Front
  BY <1>5, FrontRefines DEF Fifo!Next
<1>6. ASSUME NEW i \in Readable(pushCursor_, cons.view.at), FrontRefresh(i)
      PROVE  Fifo!Next
  BY <1>6, FrontRefreshRefines DEF Fifo!Next
<1>7. CASE Pop
  BY <1>7, PopRefines
<1>8. ASSUME NEW i \in Readable(pushCursor_, cons.view.at), PopAssert(i)
      PROVE  UNCHANGED Fifo!fifoVars
  BY <1>8, PopAssertRefines
<1>9. CASE PopDestroy
  BY <1>9, PopDestroyRefines
<1>10. CASE PublishPop
  BY <1>10, PublishPopRefines DEF Fifo!Next
<1>11. ASSUME NEW i \in Readable(closed_, cons.closedAt), Closed(i)
       PROVE  Fifo!Next \/ UNCHANGED Fifo!fifoVars
  BY <1>11, ClosedRefines DEF Fifo!Next
<1>12. CASE Join
  BY <1>12, JoinRefines DEF Fifo!Next
<1>13. CASE Deallocate
  BY <1>13, DeallocateRefines DEF Fifo!Next
<1>14. CASE UNCHANGED vars
  BY <1>14 DEF Fifo!fifoVars, vars, atomics, Pushed, Popped, FrontShown, Sealed
<1> QED
  BY <1>1, <1>2, <1>3, <1>4, <1>5, <1>6, <1>7, <1>8, <1>9, <1>10, <1>11, <1>12,
     <1>13, <1>14, LoadableIsReadable DEF Next, Operation

\* SPSCBuffer implements the bounded FIFO queue: whatever the caches hold and
\* whichever messages the loads return, its threads see a queue of capacity()
\* elements.
THEOREM Refinement == Spec => ImplementsFifo
BY InitRefines, NextRefines, Invariance, PTL DEF Spec, ImplementsFifo, Fifo!Spec
=============================================================================
