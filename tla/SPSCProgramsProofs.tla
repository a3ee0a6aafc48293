------------------------- MODULE SPSCProgramsProofs -------------------------
(***************************************************************************)
(* What the example program, the stress test and the benchmark drivers     *)
(* make of SPSCBuffer and its variants, for every capacity and every       *)
(* number of elements and iterations.                                      *)
(***************************************************************************)
EXTENDS SPSCBenchmarks, SPSCBufferProofs

-----------------------------------------------------------------------------
(* The example program, the stress test and an iteration of a benchmark.   *)

\* Every step of the program is one that SPSCBuffer allows its threads.
LEMMA ExampleIsAllowed == [ExampleNext]_exampleVars => [Next]_vars
<1> SUFFICES ASSUME [ExampleNext]_exampleVars
             PROVE  Next \/ UNCHANGED vars
  OBVIOUS
<1>1. CASE PushNext \/ CloseAfterLast
  BY <1>1 DEF PushNext, CloseAfterLast, Next
<1>2. CASE CallFront \/ PopItem
  BY <1>2 DEF CallFront, PopItem, Next
<1>3. ASSUME NEW i \in Loadable(closed_, cons.closedAt), CheckClosed(i)
      PROVE  Next
  BY <1>3 DEF CheckClosed, Next
<1>4. CASE JoinBoth \/ Destructor
  BY <1>4 DEF JoinBoth, Destructor, Next
<1>5. CASE InOperation
  BY <1>5 DEF InOperation, Next
<1>6. CASE Finished \/ UNCHANGED exampleVars
  BY <1>6 DEF Finished, exampleVars
<1> QED
  BY <1>1, <1>2, <1>3, <1>4, <1>5, <1>6 DEF ExampleNext, ExampleStep

\* The program calls no operation out of turn: whatever holds of SPSCBuffer
\* holds of the buffer in examples/SPSCBufferExample.cpp.
THEOREM ExampleIsAClient == ExampleSpec => Spec
<1>1. ExampleInit => Init
  BY DEF ExampleInit
<1> QED
  BY <1>1, ExampleIsAllowed, PTL DEF ExampleSpec, Spec

LEMMA ExampleInitInOrder == ExampleInit => LoopsInOrder
<1> SUFFICES ASSUME ExampleInit
             PROVE  LoopsInOrder
  OBVIOUS
<1>1. Len(closed_) = 1 /\ ~closed_[1].val
  BY DEF ExampleInit, Init, Initialised
<1> QED
  BY <1>1 DEF ExampleInit, LoopsInOrder

\* Only the release stores lengthen the cursors' and the flag's histories.
LEMMA OperationInOrder ==
    ASSUME Operation, producer = "done" => prod.pc = "idle"
    PROVE  /\ UNCHANGED closed_
           /\ producer = "done" => prod'.pc = "idle" /\ Pushed' = Pushed
<1>1. ASSUME NEW i \in Loadable(popCursor_, prod.view.at), EmplaceRefresh(i) \/ TryEmplaceRefresh(i)
      PROVE  UNCHANGED closed_ /\ producer # "done"
  BY <1>1 DEF EmplaceRefresh, TryEmplaceRefresh, RefreshPopCursor, atomics
<1>2. CASE Construct \/ PublishPush
  BY <1>2 DEF Construct, PublishPush, atomics
<1>3. ASSUME NEW i \in Loadable(pushCursor_, cons.view.at), FrontRefresh(i) \/ PopAssert(i)
      PROVE  UNCHANGED <<closed_, pushCursor_, prod>>
  BY <1>3 DEF FrontRefresh, PopAssert, atomics
<1>4. CASE PopDestroy \/ PublishPop
  BY <1>4 DEF PopDestroy, PublishPop, atomics, Pushed
<1> QED
  BY <1>1, <1>2, <1>3, <1>4 DEF Operation, Pushed

\* closed() is true only if the message it loads is not the constructor's.
LEMMA ExampleStepInOrder ==
    ASSUME IInv, LoopsInOrder, [ExampleNext]_exampleVars
    PROVE  LoopsInOrder'
<1>1. CASE PushNext
  BY <1>1 DEF PushNext, Emplace, BeginPush, atomics, LoopsInOrder, Pushed
<1>2. CASE CloseAfterLast
  BY <1>2 DEF CloseAfterLast, Close, LoopsInOrder, Pushed
<1>3. CASE CallFront \/ PopItem \/ JoinBoth \/ Destructor
  BY <1>3 DEF CallFront, PopItem, JoinBoth, Destructor, Front, Pop, Join, Deallocate,
     atomics, LoopsInOrder, Pushed
<1>4. ASSUME NEW i \in Loadable(closed_, cons.closedAt), CheckClosed(i)
      PROVE  LoopsInOrder'
  <2>1. UNCHANGED <<closed_, pushCursor_, prod, producer>>
    BY <1>4 DEF CheckClosed, Closed, atomics
  <2>2. ASSUME closed_[i].val PROVE producer = "done"
    <3>1. i \in cons.closedAt .. Len(closed_)
      BY LoadableIsReadable DEF Readable
    <3>2. cons.closedAt \in 1 .. Len(closed_) /\ Len(closed_) \in Nat \ {0}
      BY Counters DEF CounterFacts, IInv, TypeOK
    <3>3. Len(closed_) = 1 => i = 1
      BY <3>1, <3>2
    <3> QED
      BY <2>2, <3>3 DEF LoopsInOrder
  <2>3. consumer' = "done" => producer = "done"
    BY <1>4, <2>2 DEF CheckClosed
  <2> QED
    BY <2>1, <2>3 DEF LoopsInOrder, Pushed
<1>5. CASE InOperation
  BY <1>5, OperationInOrder DEF InOperation, LoopsInOrder
<1>6. CASE Finished \/ UNCHANGED exampleVars
  BY <1>6 DEF Finished, exampleVars, vars, atomics, LoopsInOrder, Pushed
<1> QED
  BY <1>1, <1>2, <1>3, <1>4, <1>5, <1>6 DEF ExampleNext, ExampleStep

\* EveryElementConsumed is not true of the program, but the consumer leaves
\* (SPSCBufferExample.cpp:44) only after the last push, and no more than a full
\* buffer behind: as many items as a benchmark iteration can report too many.
THEOREM AtMostABufferIsMissed ==
    ExampleSpec => [](consumer = "done" => Pushed = ItemCount /\ Pushed - Popped <= BufferSize)
<1>1. ExampleSpec => []LoopsInOrder
  <2>1. IInv /\ LoopsInOrder /\ [ExampleNext]_exampleVars => LoopsInOrder'
    BY ExampleStepInOrder
  <2>2. ExampleSpec => []IInv
    BY ExampleIsAClient, Invariance, PTL
  <2> QED
    BY <2>1, <2>2, ExampleInitInOrder, PTL DEF ExampleSpec
<1>2. IInv /\ LoopsInOrder => (consumer = "done" => Pushed = ItemCount /\ Pushed - Popped <= BufferSize)
  BY Counters DEF CounterFacts, LoopsInOrder
<1> QED
  BY <1>1, <1>2, ExampleIsAClient, Invariance, PTL

-----------------------------------------------------------------------------
(* The benchmark drivers.                                                  *)

\* A driver's step is a step of its loops, a new buffer or the report.
LEMMA DriverSteps ==
    ASSUME BenchNext
    PROVE  Iterate \/ NextIteration \/ Report \/ Reported
<1>1. ASSUME NEW class, Driver(class)
      PROVE  Iterate \/ NextIteration \/ Report
  BY <1>1 DEF Driver
<1> QED
  BY <1>1 DEF BenchNext, BM_SPSCBuffer, BM_SPSCBufferBaseline, BM_SPSCBufferBranchWrapIndices,
     BM_SPSCBufferCacheAlignment, BM_SPSCBufferCachedCursors, BM_SPSCBufferMemOrder,
     BM_SPSCBufferPadding, BM_SPSCBufferStage1, BM_SPSCBufferStage2, BM_SPSCBufferStage3,
     BM_SPSCBufferStage4, BM_SPSCBufferStage5, BM_SPSCBufferStage6

\* Inside an operation nothing is joined or freed, and after the destructor
\* no operation is under way.
LEMMA OperationKeepsPhase ==
    ASSUME IInv, Operation
    PROVE  UNCHANGED phase /\ phase # "freed"
<1>1. phase = "freed" => prod.pc = "idle" /\ cons.pc = "idle"
  BY DEF IInv, Joined
<1>2. ASSUME NEW i \in Loadable(popCursor_, prod.view.at), EmplaceRefresh(i) \/ TryEmplaceRefresh(i)
      PROVE  UNCHANGED phase /\ phase # "freed"
  BY <1>1, <1>2 DEF EmplaceRefresh, TryEmplaceRefresh, RefreshPopCursor
<1>3. ASSUME NEW i \in Loadable(pushCursor_, cons.view.at), FrontRefresh(i) \/ PopAssert(i)
      PROVE  UNCHANGED phase /\ phase # "freed"
  BY <1>1, <1>3 DEF FrontRefresh, PopAssert
<1>4. CASE Construct \/ PublishPush
  BY <1>1, <1>4 DEF Construct, PublishPush
<1>5. CASE PopDestroy \/ PublishPop
  BY <1>1, <1>5 DEF PopDestroy, PublishPop
<1> QED
  BY <1>2, <1>3, <1>4, <1>5 DEF Operation

\* An iteration leaves its loops by joining both threads, which changes no
\* cursor, and does not come back; its last step frees the buffer.
LEMMA ExampleStepPhase ==
    ASSUME IInv, ExampleStep
    PROVE  /\ phase # "freed"
           /\ phase # "live" => phase' # "live"
           /\ phase = "live" /\ phase' # "live" =>
                producer = "done" /\ UNCHANGED <<pushCursor_, popCursor_>>
<1>1. phase = "freed" => cons.front = "null"
  BY DEF IInv, Joined
<1>2. CASE PushNext \/ CloseAfterLast
  BY <1>2 DEF PushNext, CloseAfterLast, Emplace, BeginPush, Close
<1>3. CASE CallFront \/ PopItem
  BY <1>1, <1>3 DEF CallFront, PopItem, Front, Pop
<1>4. ASSUME NEW i \in Loadable(closed_, cons.closedAt), CheckClosed(i)
      PROVE  phase = "live" /\ UNCHANGED phase
  BY <1>4 DEF CheckClosed, Closed
<1>5. CASE JoinBoth
  BY <1>5 DEF JoinBoth, Join, atomics
<1>6. CASE Destructor
  BY <1>6 DEF Destructor, Front, Pop, Deallocate
<1>7. CASE InOperation
  BY <1>7, OperationKeepsPhase DEF InOperation
<1> QED
  BY <1>2, <1>3, <1>4, <1>5, <1>6, <1>7 DEF ExampleStep

\* One more iteration of k items after n of them.
LEMMA OneMoreIteration ==
    ASSUME NEW n \in Nat, NEW k \in Nat
    PROVE  (n + 1) * k = n * k + k /\ n * k \in Nat
OBVIOUS

LEMMA InitBenchInv == BenchInit => BenchInv
<1> SUFFICES ASSUME BenchInit
             PROVE  BenchInv
  OBVIOUS
<1>1. IInv /\ LoopsInOrder
  BY InitIInv, ExampleInitInOrder DEF BenchInit, ExampleInit
<1>2. phase = "live" /\ Popped = 0 /\ iterations = 1 /\ transferred = 0 /\ itemsProcessed = 0
  BY DEF BenchInit, ExampleInit, Init, Initialised, Popped
<1>3. Joinings = 0 /\ PopsUntil = 0 /\ ItemCount \in Nat /\ BufferSize \in Nat
  BY <1>2, SPSCAssumption DEF Joinings, PopsUntil
<1>4. Joinings * ItemCount - PopsUntil = 0 /\ Joinings * BufferSize = 0
  BY <1>3
<1> QED
  BY <1>1, <1>2, <1>3, <1>4, IterationsAssumption DEF BenchInv

\* While the loops run nothing is settled; the joining settles an iteration,
\* and the destructor's pops do not count.
LEMMA IterateBenchInv ==
    ASSUME BenchInv, Iterate
    PROVE  BenchInv'
<1>1. IInv /\ LoopsInOrder /\ ExampleStep /\ CounterFacts
  BY Counters DEF BenchInv, Iterate
<1>2. IInv' /\ LoopsInOrder'
  <2>1. [ExampleNext]_exampleVars
    BY <1>1 DEF ExampleNext
  <2> QED
    BY <1>1, <2>1, ExampleIsAllowed, NextIInv, ExampleStepInOrder
<1>3. Popped' = Len(popCursor_') - 1 /\ Popped' \in Nat
  <2>1. popCursor_' \in Seq(Messages(Cursors)) /\ popCursor_' # <<>>
    BY <1>2 DEF IInv, TypeOK
  <2> QED
    BY <2>1 DEF Popped
<1>4. /\ iterations' = iterations /\ itemsProcessed' = itemsProcessed
      /\ transferred' = IF phase = "live" THEN transferred + Len(popCursor_') - Len(popCursor_)
                                          ELSE transferred
  BY DEF Iterate, Transfer
<1>5. itemsProcessed' = 0
  BY <1>1, <1>4, ExampleStepPhase DEF BenchInv
<1>6. /\ iterations \in Nat \ {0} /\ iterations' \in 1 .. MaxIterations
      /\ transferred \in Nat /\ PopsUntil \in Nat
      /\ BufferSize \in Nat /\ ItemCount \in Nat
  BY <1>4, SPSCAssumption, IterationsAssumption DEF BenchInv
<1>7. CASE phase = "live" /\ phase' = "live"
  <2>1. Joinings' = Joinings /\ PopsUntil' = PopsUntil
    BY <1>1, <1>3, <1>4, <1>6, <1>7 DEF Joinings, PopsUntil, CounterFacts
  <2>2. transferred' = PopsUntil + Popped'
    BY <1>1, <1>3, <1>4, <1>6, <1>7 DEF PopsUntil, CounterFacts
  <2>3. transferred' \in Nat
    BY <1>3, <1>6, <2>2
  <2> QED
    BY <1>2, <1>5, <1>6, <2>1, <2>3 DEF BenchInv
<1>8. CASE phase = "live" /\ phase' # "live"
  <2>1. UNCHANGED popCursor_ /\ Pushed = ItemCount
    BY <1>1, <1>8, ExampleStepPhase DEF LoopsInOrder
  <2>2. transferred' = transferred /\ transferred = PopsUntil + Popped
    BY <1>1, <1>4, <1>6, <1>8, <2>1 DEF PopsUntil, CounterFacts
  <2>3. Joinings \in Nat /\ Joinings' = Joinings + 1 /\ PopsUntil' = PopsUntil + Popped
    BY <1>4, <1>6, <1>8, <2>2 DEF Joinings, PopsUntil
  <2>4. ItemCount - Popped \in 0 .. BufferSize /\ Popped \in Nat
    BY <1>1, <1>6, <2>1 DEF CounterFacts, IInv, TypeOK
  <2>5. /\ Joinings' * ItemCount = Joinings * ItemCount + ItemCount
        /\ Joinings' * BufferSize = Joinings * BufferSize + BufferSize
        /\ Joinings * ItemCount \in Nat /\ Joinings * BufferSize \in Nat
    BY <1>6, <2>3, OneMoreIteration
  <2>6. Joinings * ItemCount - PopsUntil \in 0 .. Joinings * BufferSize
    BY DEF BenchInv
  <2>7. Joinings' * ItemCount - PopsUntil' \in 0 .. Joinings' * BufferSize
    BY <1>6, <2>3, <2>4, <2>5, <2>6
  <2>8. transferred' \in Nat /\ PopsUntil' \in Nat
    BY <1>6, <2>2, <2>3, <2>4
  <2> QED
    BY <1>2, <1>5, <1>6, <2>7, <2>8 DEF BenchInv
<1>9. CASE phase # "live"
  <2>1. phase' # "live"
    BY <1>1, <1>9, ExampleStepPhase
  <2>2. Joinings' = Joinings /\ PopsUntil' = PopsUntil /\ transferred' = transferred
    BY <1>4, <1>9, <2>1 DEF Joinings, PopsUntil
  <2> QED
    BY <1>2, <1>5, <1>6, <2>2 DEF BenchInv
<1> QED
  BY <1>7, <1>8, <1>9

\* The new buffer is initialised like the first, and of the same class.
LEMMA NextIterationStarts ==
    ASSUME BenchInv, NextIteration
    PROVE  ExampleInit'
<1>1. variant' \in Variants
  BY DEF NextIteration, BenchInv, IInv, TypeOK
<1> QED
  BY <1>1 DEF NextIteration, ExampleInit, Init

LEMMA ExampleInitNext == ExampleInit' => IInv' /\ LoopsInOrder'
<1>1. ExampleInit => IInv /\ LoopsInOrder
  BY InitIInv, ExampleInitInOrder DEF ExampleInit
<1> QED
  BY <1>1, PTL

LEMMA NextIterationBenchInv ==
    ASSUME BenchInv, NextIteration
    PROVE  BenchInv'
<1>1. IInv' /\ LoopsInOrder'
  BY NextIterationStarts, ExampleInitNext
<1>2. /\ phase = "freed" /\ phase' = "live" /\ iterations' = iterations + 1
      /\ iterations < MaxIterations /\ UNCHANGED <<transferred, itemsProcessed>>
      /\ itemsProcessed = 0 /\ Popped' = 0
  BY DEF NextIteration, Initialised, Popped
<1>3. iterations \in 1 .. MaxIterations /\ transferred \in Nat
  BY DEF BenchInv
<1>4. Joinings' = Joinings /\ PopsUntil' = PopsUntil /\ iterations' \in 1 .. MaxIterations
  BY <1>2, <1>3, IterationsAssumption DEF Joinings, PopsUntil
<1> QED
  BY <1>1, <1>2, <1>3, <1>4 DEF BenchInv

\* Steps that leave the buffer and its threads alone.
LEMMA ExampleStutters ==
    ASSUME IInv, LoopsInOrder, UNCHANGED exampleVars
    PROVE  IInv' /\ LoopsInOrder'
<1>1. UNCHANGED vars
  BY DEF exampleVars
<1> QED
  BY <1>1, StutterIInv, ExampleStepInOrder

LEMMA ReportBenchInv ==
    ASSUME BenchInv, Report \/ UNCHANGED benchVars
    PROVE  BenchInv'
<1>1. UNCHANGED exampleVars /\ UNCHANGED <<iterations, transferred>>
  BY DEF Report, benchVars
<1>2. UNCHANGED <<phase, popCursor_>>
  BY <1>1 DEF exampleVars, vars, atomics
<1>3. IInv' /\ LoopsInOrder'
  BY <1>1, ExampleStutters DEF BenchInv
<1>4. Joinings' = Joinings /\ PopsUntil' = PopsUntil
  BY <1>1, <1>2 DEF Joinings, PopsUntil, Popped
<1>5. itemsProcessed' # 0 => phase = "freed" /\ itemsProcessed' = iterations * ItemCount
  BY DEF Report, benchVars, BenchInv
<1> QED
  BY <1>1, <1>2, <1>3, <1>4, <1>5 DEF BenchInv

\* The invariant of the buffer holds in every iteration of every driver, and
\* no iteration leaves more than a full buffer behind.
THEOREM BenchInvariance == BenchSpec => []BenchInv
<1>1. BenchInv /\ [BenchNext]_benchVars => BenchInv'
  BY DriverSteps, IterateBenchInv, NextIterationBenchInv, ReportBenchInv DEF Reported
<1> QED
  BY <1>1, InitBenchInv, PTL DEF BenchSpec

\* However many iterations a driver runs, it reports as processed the items
\* its threads transferred and at most a full buffer per iteration more.
THEOREM ReportedWithinABuffer == BenchSpec => []ReportedItemsTransferred
<1>1. BenchInv => ReportedItemsTransferred
  <2> SUFFICES ASSUME BenchInv, itemsProcessed # 0
               PROVE  itemsProcessed - transferred \in 0 .. iterations * BufferSize
    BY DEF ReportedItemsTransferred
  <2>1. phase = "freed" /\ itemsProcessed = iterations * ItemCount
    BY DEF BenchInv
  <2>2. Joinings = iterations /\ PopsUntil = transferred
    BY <2>1 DEF Joinings, PopsUntil
  <2> QED
    BY <2>1, <2>2 DEF BenchInv
<1> QED
  BY <1>1, BenchInvariance, PTL

\* In every iteration of every driver, whatever its class caches and orders,
\* slot accesses are ordered, front() finds the oldest element and nothing
\* leaks: the buffer of an earlier iteration leaves no trace.
THEOREM EveryIterationIsSafe ==
    BenchSpec => [](NoDataRace /\ ConstructsInRawStorage /\ FrontIsOldest /\ NoElementLeaks)
<1>1. BenchInv => NoDataRace /\ ConstructsInRawStorage /\ FrontIsOldest /\ NoElementLeaks
  BY SafetyOfIInv DEF BenchInv
<1> QED
  BY <1>1, BenchInvariance, PTL

\* Every iteration is a run of the example program: all a driver does to the
\* buffer and its threads is a step of that program or its beginning anew.
THEOREM IterationsAreExamples ==
    BenchSpec => ExampleInit /\ [][ExampleNext \/ ExampleInit']_exampleVars
<1>1. BenchInit => ExampleInit
  BY DEF BenchInit
<1>2. ASSUME BenchInv, [BenchNext]_benchVars
      PROVE  ExampleNext \/ ExampleInit' \/ UNCHANGED exampleVars
  <2>1. CASE Iterate
    BY <2>1 DEF Iterate, ExampleNext
  <2>2. CASE NextIteration
    BY <1>2, <2>2, NextIterationStarts
  <2>3. CASE Report \/ Reported \/ UNCHANGED benchVars
    BY <2>3 DEF Report, Reported, benchVars
  <2> QED
    BY <1>2, <2>1, <2>2, <2>3, DriverSteps
<1>3. BenchInv /\ [BenchNext]_benchVars => [ExampleNext \/ ExampleInit']_exampleVars
  BY <1>2
<1> QED
  BY <1>1, <1>3, BenchInvariance, PTL DEF BenchSpec
=============================================================================
