------------------------- MODULE MutexStressProofs -------------------------
(***************************************************************************)
(* The programs of the stress tests and of the benchmark use MutexBuffer   *)
(* as it wants to be used, none of their consumers leaves early, and every *)
(* push takes effect exactly once, so that what is left behind at the end  *)
(* is at most a buffer: for every capacity, any number of threads and any  *)
(* share of elements.                                                      *)
(***************************************************************************)
EXTENDS MutexStress, MutexBufferProofs

-----------------------------------------------------------------------------
(* The programs are clients of the buffer.                                 *)

\* Every step of a program is one that MutexBuffer allows its threads.
LEMMA ProgramStep == [StressNext]_stressVars => [Next]_vars
<1> SUFFICES ASSUME [StressNext]_stressVars
             PROVE  Next \/ UNCHANGED vars
  OBVIOUS
<1>1. ASSUME NEW t \in Threads, ThreadStep(t)
      PROVE  Next \/ UNCHANGED vars
  <2>1. CASE t \in Producers /\ PushShare(t)
    <3>1. Call(t, "emplace") /\ "emplace" \in OpsOf(t)
      BY <2>1 DEF PushShare, Call
    <3> QED
      BY <3>1 DEF Next
  <2>2. CASE t \in Consumers /\ CallNext(t)
    <3>1. Call(t, next[t]) /\ next[t] \in OpsOf(t)
      BY <2>2 DEF CallNext, Call
    <3> QED
      BY <3>1 DEF Next
  <2>3. CASE t \in Consumers /\ ConsumerOperation(t)
    BY <2>3 DEF ConsumerOperation, Next, Operation
  <2>4. CASE JoinProducers \/ JoinConsumers \/ Destructor
    BY <2>4 DEF JoinProducers, JoinConsumers, Destructor, Next
  <2>5. CASE CloseBuffer(t)
    <3>1. Call(t, "close") /\ "close" \in OpsOf(t)
      BY <2>5 DEF CloseBuffer, Call
    <3> QED
      BY <3>1 DEF Next
  <2>6. CASE Lock(t) \/ InOperation(t)
    BY <2>6 DEF Lock, InOperation, Next, Operation
  <2> QED
    BY <1>1, <2>1, <2>2, <2>3, <2>4, <2>5, <2>6 DEF ThreadStep
<1>2. ASSUME NEW t \in Threads, WakeSpuriously(t)
      PROVE  Next
  BY <1>2 DEF WakeSpuriously, Next
<1>3. CASE Finished \/ UNCHANGED stressVars
  BY <1>3 DEF Finished, stressVars
<1> QED
  BY <1>1, <1>2, <1>3 DEF StressNext

\* The programs call no operation out of turn: whatever holds of MutexBuffer
\* holds of the buffer in MutexBufferStressTest.cpp and MutexBufferBench.cpp.
THEOREM ProgramsAreClients == StressSpec => Spec
<1>1. StressInit => Init
  BY DEF StressInit
<1> QED
  BY <1>1, ProgramStep, PTL DEF StressSpec, Spec

-----------------------------------------------------------------------------
(* The order in which the loops end.                                       *)

\* Steps inside an operation start no push and no close, and store into
\* closed_ only in close().
LEMMA OperationKeepsOrder ==
    ASSUME IInv, LoopsInOrder, NEW t \in Threads,
           Operation(t) \/ SpuriousWakeup(t), UNCHANGED <<left, main, closer, toClose>>
    PROVE  /\ AllPushed => AllPushed'
           /\ closed_ => closed_'
           /\ main' = "consume" \/ ~toClose' => AllPushed'
           /\ closed_' \/ (\E u \in Threads : op'[u] = "close") => ~toClose'
<1>1. \A u \in Threads : op'[u] \in {op[u], "none"}
  <2>1. CASE \/ Acquire(t) \/ EmplaceWaits(t) \/ SpuriousWakeup(t)
    BY <2>1 DEF Acquire, EmplaceWaits, SpuriousWakeup
  <2>2. CASE TryPop(t) \/ Pop(t)
    BY <2>2 DEF TryPop, Pop, UnlockThenNotify, Return, Leave, IInv, TypeOK
  <2>3. CASE \/ Emplaces(t) \/ TryEmplaceRefused(t) \/ Front(t) \/ NotifyOne(t)
             \/ Close(t) \/ Closed(t)
    BY <2>3 DEF Emplaces, TryEmplaceRefused, Front, NotifyOne, Close, Closed, Return, Leave,
                IInv, TypeOK
  <2> QED
    BY <2>1, <2>2, <2>3 DEF Operation
<1>2. closed_' = closed_ \/ (op[t] = "close" /\ closed_' = TRUE)
  BY DEF Operation, SpuriousWakeup, Acquire, EmplaceWaits, Emplaces, TryEmplaceRefused, TryPop,
         Front, Pop, NotifyOne, Close, Closed, Inside, flag
<1>3. AllPushed => AllPushed'
  BY <1>1 DEF AllPushed, Threads
<1> QED
  BY <1>1, <1>2, <1>3 DEF LoopsInOrder

LEMMA PushShareKeeps ==
    ASSUME IInv, LoopsInOrder, NEW p \in Producers, PushShare(p)
    PROVE  LoopsInOrder'
<1>1. ~AllPushed /\ main # "consume" /\ toClose /\ UNCHANGED <<next, main, closer, toClose>>
  BY DEF PushShare, AllPushed, LoopsInOrder
<1>2. closed_' = closed_ /\ \A u \in Threads : op'[u] = "close" => op[u] = "close"
  BY DEF PushShare, Call, flag, IInv, TypeOK
<1> QED
  BY <1>1, <1>2 DEF LoopsInOrder

LEMMA CallNextKeeps ==
    ASSUME IInv, LoopsInOrder, NEW c \in Consumers, CallNext(c)
    PROVE  LoopsInOrder'
<1>1. /\ next[c] \in {"try_pop", "front", "pop", "closed"}
      /\ Call(c, next[c]) /\ UNCHANGED <<control, flag>>
  BY DEF CallNext, Call, LoopsInOrder
<1>2. \A u \in Threads : /\ op'[u] = "close" => op[u] = "close"
                         /\ op'[u] = "emplace" => op[u] = "emplace"
  BY <1>1 DEF Call, IInv, TypeOK
<1>3. AllPushed => AllPushed'
  BY <1>1, <1>2 DEF AllPushed, control, Threads
<1> QED
  BY <1>1, <1>2, <1>3 DEF LoopsInOrder, control, flag

\* A consumer leaves its loop only when it has read closed_ = true.
LEMMA ConsumerOperationKeeps ==
    ASSUME IInv, LoopsInOrder, NEW c \in Consumers, ConsumerOperation(c)
    PROVE  LoopsInOrder'
<1>1. Operation(c) /\ c \in Threads /\ UNCHANGED <<left, main, closer, toClose>>
  BY DEF ConsumerOperation, Operation, Threads
<1>2. /\ closed_ => closed_'
      /\ main' = "consume" \/ ~toClose' => AllPushed'
      /\ closed_' \/ (\E u \in Threads : op'[u] = "close") => ~toClose'
  BY <1>1, OperationKeepsOrder
<1>3. /\ next' \in [Consumers -> {"try_pop", "front", "pop", "closed", "break"}]
      /\ \A d \in Consumers : next'[d] = "break" => next[d] = "break" \/ closed_
  BY DEF ConsumerOperation, LoopsInOrder, TakeOne
<1> QED
  BY <1>1, <1>2, <1>3 DEF LoopsInOrder

\* The producers are joined after their last push has returned.
LEMMA JoinProducersKeeps ==
    ASSUME IInv, LoopsInOrder, JoinProducers
    PROVE  LoopsInOrder'
<1>1. AllPushed'
  BY DEF JoinProducers, AllPushed, IInv, Positions, vars, Threads
<1> QED
  BY <1>1 DEF JoinProducers, LoopsInOrder, vars, flag

\* So does whoever calls close(): the owner has joined the producers, and a
\* producer that closes is the only one and has left its loop.
LEMMA CloseBufferKeeps ==
    ASSUME IInv, LoopsInOrder, NEW t \in Threads, CloseBuffer(t)
    PROVE  LoopsInOrder'
<1>1. /\ t = closer /\ toClose /\ t \in Closers /\ toClose' = FALSE
      /\ t = Owner => main = "consume"
      /\ t \in Producers => left[t] = 0
      /\ Call(t, "close") /\ at[t] = "out" /\ op' = [op EXCEPT ![t] = "close"]
      /\ UNCHANGED <<left, next, main, closer, closed_>>
  BY DEF CloseBuffer, Call, LoopsInOrder, flag
<1>2. AllPushed
  <2>1. CASE t = Owner
    BY <1>1, <2>1 DEF LoopsInOrder
  <2>2. CASE t # Owner
    <3>1. Producers = {t}
      BY <1>1, <2>2, MutexAssumption, CloserAssumption
    <3> QED
      BY <1>1, <3>1 DEF AllPushed, IInv, Positions
  <2> QED
    BY <2>1, <2>2
<1>3. AllPushed'
  BY <1>1, <1>2 DEF AllPushed, IInv, TypeOK, Threads
<1> QED
  BY <1>1, <1>3 DEF LoopsInOrder

LEMMA OwnerKeeps ==
    ASSUME IInv, LoopsInOrder, Join \/ DestroyElement \/ Deallocate, UNCHANGED control
    PROVE  LoopsInOrder'
<1>1. UNCHANGED <<flag, op, control>>
  BY DEF Join, DestroyElement, Deallocate
<1> QED
  BY <1>1 DEF LoopsInOrder, AllPushed, flag, control

LEMMA NextKeepsOrder ==
    ASSUME IInv, LoopsInOrder, [StressNext]_stressVars
    PROVE  LoopsInOrder'
<1>1. ASSUME NEW t \in Threads, ThreadStep(t)
      PROVE  LoopsInOrder'
  <2>1. CASE Lock(t) \/ InOperation(t)
    <3>1. Operation(t) /\ UNCHANGED control
      BY <2>1 DEF Lock, InOperation, Operation
    <3> QED
      BY <3>1, OperationKeepsOrder DEF control, LoopsInOrder
  <2>2. CASE CloseBuffer(t)
    BY <2>2, CloseBufferKeeps
  <2>3. CASE JoinProducers
    BY <2>3, JoinProducersKeeps
  <2>4. CASE JoinConsumers \/ Destructor
    BY <2>4, OwnerKeeps DEF JoinConsumers, Destructor
  <2> QED
    BY <1>1, <2>1, <2>2, <2>3, <2>4, PushShareKeeps, CallNextKeeps, ConsumerOperationKeeps
       DEF ThreadStep
<1>2. ASSUME NEW t \in Threads, WakeSpuriously(t)
      PROVE  LoopsInOrder'
  BY <1>2, OperationKeepsOrder DEF WakeSpuriously, control, LoopsInOrder
<1>3. CASE Finished \/ UNCHANGED stressVars
  BY <1>3 DEF Finished, stressVars, vars, control, flag, LoopsInOrder, AllPushed
<1> QED
  BY <1>1, <1>2, <1>3 DEF StressNext

-----------------------------------------------------------------------------
(* Counting the pushes.                                                    *)

\* Both sides of the count are finite: each producer has a finite share.
LEMMA CountsAreFinite ==
    /\ Producers # {} => Share \in Nat /\ Cardinality(Producers) \in Nat
    /\ IsFiniteSet(Begun) /\ Cardinality(Begun) \in Nat
    /\ IsFiniteSet(Pushing) /\ Cardinality(Pushing) \in Nat
<1>1. IsFiniteSet(Producers) /\ ItemCount \in Nat /\ Cardinality(Producers) \in Nat
  BY MutexAssumption, FS_CardinalityType
<1>2. IsFiniteSet(Pushing) /\ Cardinality(Pushing) \in Nat
  BY <1>1, FS_Subset, FS_CardinalityType DEF Pushing
<1>3. CASE Producers = {}
  <2>1. Begun = {}
    BY <1>3 DEF Begun
  <2> QED
    BY <1>2, <1>3, <2>1, FS_EmptySet
<1>4. CASE Producers # {}
  <2>1. Cardinality(Producers) \in Nat \ {0}
    BY <1>1, <1>4, FS_EmptySet
  <2>2. Share \in Nat
    BY <1>1, <2>1, DivMod DEF Share
  <2>3. IsFiniteSet(Producers \X (1 .. Share))
    <3>1. IsFiniteSet(1 .. Share)
      BY <2>2, FS_Interval
    <3> QED
      BY <1>1, <3>1, FS_Product
  <2>4. IsFiniteSet(Begun) /\ Cardinality(Begun) \in Nat
    <3>1. Begun \subseteq Producers \X (1 .. Share)
      BY DEF Begun
    <3> QED
      BY <2>3, <3>1, FS_Subset, FS_CardinalityType
  <2> QED
    BY <1>1, <1>2, <2>2, <2>4
<1> QED
  BY <1>3, <1>4

\* Steps that begin no push and end none.
LEMMA SameCount ==
    ASSUME PushesCounted, UNCHANGED <<left, pushed>>,
           \A t \in Threads : op'[t] # "try_emplace",
           \A p \in Producers : op'[p] = "emplace" <=> op[p] = "emplace"
    PROVE  PushesCounted'
<1>1. Begun' = Begun /\ Pushing' = Pushing
  BY DEF Begun, Pushing
<1> QED
  BY <1>1 DEF PushesCounted

\* A call of emplace is begun and under way.
LEMMA PushShareCounts ==
    ASSUME IInv, PushesCounted, NEW p \in Producers, PushShare(p)
    PROVE  PushesCounted'
<1>1. /\ left[p] > 0 /\ at[p] = "out" /\ pushed' = pushed
      /\ op' = [op EXCEPT ![p] = "emplace"]
      /\ left' = [left EXCEPT ![p] = @ - 1]
  BY DEF PushShare, Call, storage
<1>2. left \in [Producers -> 0 .. Share] /\ Share \in Nat /\ left[p] \in 1 .. Share
  BY <1>1, CountsAreFinite DEF PushesCounted
<1>3. op[p] # "emplace" /\ p \in Threads
  BY <1>1 DEF IInv, Positions, Threads
<1>4. Pushing' = Pushing \cup {p} /\ p \notin Pushing
  BY <1>1, <1>3 DEF Pushing, IInv, TypeOK
<1>5. Begun' = Begun \cup {<<p, left[p]>>} /\ <<p, left[p]>> \notin Begun
  BY <1>1, <1>2 DEF Begun
<1>6. /\ Cardinality(Pushing') = Cardinality(Pushing) + 1
      /\ Cardinality(Begun') = Cardinality(Begun) + 1
  BY <1>4, <1>5, CountsAreFinite, FS_AddElement
<1>7. left' \in [Producers -> 0 .. Share]
  BY <1>1, <1>2
<1>8. \A t \in Threads : op'[t] # "try_emplace"
  BY <1>1 DEF PushesCounted, IInv, TypeOK
<1> QED
  BY <1>1, <1>6, <1>7, <1>8, CountsAreFinite DEF PushesCounted, IInv, TypeOK

\* A push takes effect and is not under way any more.
LEMMA EmplacesCounts ==
    ASSUME IInv, PushesCounted, NEW t \in Threads, Emplaces(t), UNCHANGED left
    PROVE  PushesCounted'
<1>1. op[t] = "emplace" /\ pushed' = pushed + 1 /\ op' = [op EXCEPT ![t] = "none"]
  BY DEF Emplaces, Inside, PushesCounted, PushElement, Return, Leave
<1>2. t \in Producers
  BY <1>1 DEF IInv, Positions, OpsOf, PopOps
<1>3. Pushing' = Pushing \ {t} /\ t \in Pushing
  BY <1>1, <1>2 DEF Pushing, Threads, IInv, TypeOK
<1>4. Cardinality(Pushing') = Cardinality(Pushing) - 1
  BY <1>3, CountsAreFinite, FS_RemoveElement
<1>5. Begun' = Begun
  BY DEF Begun
<1>6. \A u \in Threads : op'[u] # "try_emplace"
  BY <1>1 DEF PushesCounted, IInv, TypeOK
<1> QED
  BY <1>1, <1>4, <1>5, <1>6, CountsAreFinite DEF PushesCounted, IInv, TypeOK

\* No other step inside an operation pushes, or ends a push.
LEMMA OperationCounts ==
    ASSUME IInv, PushesCounted, NEW t \in Threads,
           Operation(t) \/ SpuriousWakeup(t), UNCHANGED left
    PROVE  PushesCounted'
<1>1. CASE Emplaces(t)
  BY <1>1, EmplacesCounts
<1>2. CASE Acquire(t) \/ EmplaceWaits(t) \/ SpuriousWakeup(t)
  <2>1. UNCHANGED <<op, pushed>>
    BY <1>2 DEF Acquire, EmplaceWaits, SpuriousWakeup, storage
  <2> QED
    BY <2>1, SameCount DEF PushesCounted
<1>3. CASE \/ TryEmplaceRefused(t) \/ TryPop(t) \/ Front(t) \/ Pop(t) \/ NotifyOne(t)
           \/ Close(t) \/ Closed(t)
  <2>1. pushed' = pushed
    BY <1>3 DEF TryEmplaceRefused, TryPop, Front, Pop, NotifyOne, Close, Closed, PopElement,
                storage
  <2>2. op[t] # "emplace" /\ op' \in {op, [op EXCEPT ![t] = "none"]}
    BY <1>3 DEF TryEmplaceRefused, TryPop, Front, Pop, NotifyOne, Close, Closed, Inside,
                Return, Leave, UnlockThenNotify, IInv, Positions
  <2>3. \A u \in Threads : op'[u] = op[u] \/ (u = t /\ op'[u] = "none")
    BY <2>2 DEF IInv, TypeOK
  <2> QED
    BY <2>1, <2>2, <2>3, SameCount DEF PushesCounted, Threads
<1> QED
  BY <1>1, <1>2, <1>3 DEF Operation

\* A call of anything else is not a push.
LEMMA CallCounts ==
    ASSUME IInv, PushesCounted, NEW t \in Threads, NEW o, Call(t, o),
           o \notin PushOps, UNCHANGED left
    PROVE  PushesCounted'
<1>1. op' = [op EXCEPT ![t] = o] /\ op[t] = "none" /\ pushed' = pushed
  BY DEF Call, storage, IInv, Positions
<1>2. \A u \in Threads : op'[u] = op[u] \/ (u = t /\ op'[u] = o)
  BY <1>1 DEF IInv, TypeOK
<1> QED
  BY <1>1, <1>2, SameCount DEF PushesCounted, Threads, PushOps

LEMMA NextCountsPushes ==
    ASSUME IInv, LoopsInOrder, PushesCounted, [StressNext]_stressVars
    PROVE  PushesCounted'
<1>1. ASSUME NEW t \in Threads, ThreadStep(t)
      PROVE  PushesCounted'
  <2>1. CASE Lock(t) \/ InOperation(t)
    <3>1. Operation(t) /\ UNCHANGED control
      BY <2>1 DEF Lock, InOperation, Operation
    <3> QED
      BY <3>1, OperationCounts DEF control
  <2>2. CASE CloseBuffer(t)
    BY <2>2, CallCounts DEF CloseBuffer, PushOps
  <2>3. CASE t \in Consumers /\ CallNext(t)
    <3>1. Call(t, next[t]) /\ next[t] \notin PushOps /\ UNCHANGED left
      BY <2>3 DEF CallNext, LoopsInOrder, PushOps, control
    <3> QED
      BY <3>1, CallCounts
  <2>4. CASE t \in Consumers /\ ConsumerOperation(t)
    <3>1. Operation(t) /\ UNCHANGED left
      BY <2>4 DEF ConsumerOperation, Operation
    <3> QED
      BY <3>1, OperationCounts
  <2>5. CASE JoinProducers \/ JoinConsumers \/ Destructor
    <3>1. UNCHANGED <<left, pushed, op>>
      BY <2>5 DEF JoinProducers, JoinConsumers, Destructor, Join, DestroyElement, Deallocate,
                  PopElement, control, vars, storage
    <3> QED
      BY <3>1, SameCount DEF PushesCounted
  <2> QED
    BY <1>1, <2>1, <2>2, <2>3, <2>4, <2>5, PushShareCounts DEF ThreadStep
<1>2. ASSUME NEW t \in Threads, WakeSpuriously(t)
      PROVE  PushesCounted'
  BY <1>2, OperationCounts DEF WakeSpuriously, control
<1>3. CASE Finished \/ UNCHANGED stressVars
  <2>1. UNCHANGED <<left, pushed, op>>
    BY <1>3 DEF Finished, stressVars, vars, control, storage
  <2> QED
    BY <2>1, SameCount DEF PushesCounted
<1> QED
  BY <1>1, <1>2, <1>3 DEF StressNext

-----------------------------------------------------------------------------
(* The invariant of the programs.                                          *)

LEMMA InitCountsPushes == StressInit => PushesCounted
<1> SUFFICES ASSUME StressInit
             PROVE  PushesCounted
  OBVIOUS
<1>1. pushed = 0 /\ op = [t \in Threads |-> "none"] /\ left = [p \in Producers |-> Share]
  BY DEF StressInit, Init
<1>2. Begun = {}
  BY <1>1, CountsAreFinite DEF Begun
<1>3. Pushing = {}
  BY <1>1 DEF Pushing, Threads
<1>4. left \in [Producers -> 0 .. Share]
  BY <1>1, CountsAreFinite
<1>5. Cardinality(Begun) = 0 /\ Cardinality(Pushing) = 0
  BY <1>2, <1>3, FS_EmptySet
<1> QED
  BY <1>1, <1>4, <1>5 DEF PushesCounted

LEMMA InitInOrder == StressInit => StressIInv
<1> SUFFICES ASSUME StressInit
             PROVE  LoopsInOrder
  BY InitIInv, InitCountsPushes DEF StressInit, StressIInv
<1> QED
  BY DEF StressInit, Init, LoopsInOrder, TakeOne

\* The programs keep the invariant of the buffer, the order of their loops and
\* the count of their pushes.
THEOREM StressInvariance == StressSpec => []StressIInv
<1>1. StressIInv /\ [StressNext]_stressVars => StressIInv'
  BY ProgramStep, NextIInv, NextKeepsOrder, NextCountsPushes DEF StressIInv
<1> QED
  BY <1>1, InitInOrder, PTL DEF StressSpec

\* No consumer leaves while a push is still to come or to be woken, so that
\* close() can do without notifying anybody (MutexBuffer.hpp:159).
THEOREM LeavingInvariance == StressSpec => []ConsumersLeaveLast
<1>1. StressIInv => ConsumersLeaveLast
  BY DEF StressIInv, LoopsInOrder, AllPushed, ConsumersLeaveLast
<1> QED
  BY <1>1, StressInvariance, PTL

\* EveryElementConsumed is not true of the tests, but when a consumer leaves
\* (MutexBufferStressTest.cpp:104) all producers have pushed their whole share,
\* each element once, and no more than a full buffer is left behind.
THEOREM AtMostABufferIsLeft ==
    StressSpec =>
        [](Producers # {} /\ (\E c \in Consumers : next[c] = "break") =>
              /\ pushed = Cardinality(Producers) * Share
              /\ pushed - popped \in 0 .. BufferSize)
<1>1. ASSUME StressIInv, Producers # {}, NEW c \in Consumers, next[c] = "break"
      PROVE  pushed = Cardinality(Producers) * Share /\ pushed - popped \in 0 .. BufferSize
  <2>1. \A p \in Producers : left[p] = 0 /\ op[p] # "emplace"
    BY <1>1 DEF StressIInv, LoopsInOrder, AllPushed
  <2>2. Begun = Producers \X (1 .. Share) /\ Pushing = {}
    BY <2>1 DEF Begun, Pushing
  <2>3. Share \in Nat /\ Cardinality(Producers) \in Nat
    BY <1>1, CountsAreFinite
  <2>4. Cardinality(1 .. Share) = Share /\ IsFiniteSet(1 .. Share)
    BY <2>3, FS_Interval
  <2>5. Cardinality(Begun) = Cardinality(Producers) * Share
    BY <2>2, <2>4, MutexAssumption, FS_Product
  <2>6. Cardinality(Pushing) = 0
    BY <2>2, FS_EmptySet
  <2>7. pushed \in Nat /\ pushed - popped \in 0 .. BufferSize
    BY <1>1, RingTyped DEF StressIInv, IInv, TypeOK, capacity_
  <2> QED
    BY <1>1, <2>3, <2>5, <2>6, <2>7 DEF StressIInv, PushesCounted
<1>2. StressIInv => (Producers # {} /\ (\E c \in Consumers : next[c] = "break") =>
                        /\ pushed = Cardinality(Producers) * Share
                        /\ pushed - popped \in 0 .. BufferSize)
  BY <1>1
<1> QED
  BY <1>2, StressInvariance, PTL
=============================================================================
