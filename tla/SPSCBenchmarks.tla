--------------------------- MODULE SPSCBenchmarks ---------------------------
(***************************************************************************)
(* The benchmark drivers src/bench/*.cpp of the buffers whose cursors stay *)
(* below the capacity.  A driver runs the loops of SPSCExample on an       *)
(* object of its own class, once per iteration and each time on a new      *)
(* buffer, and then reports how many items it has transferred.  The        *)
(* benchmark library decides after how many iterations it stops; time and  *)
(* the bytes per item are left out.                                        *)
(***************************************************************************)
EXTENDS SPSCExample

CONSTANT MaxIterations   \* bound: iterations the library asks for

ASSUME IterationsAssumption == MaxIterations \in Nat \ {0}

VARIABLES
    iterations,           \* iterations begun: state.iterations() at the end
    transferred,          \* history: items the consumer threads have popped
    itemsProcessed        \* what SetItemsProcessed was told, 0 until then

benchVars == <<exampleVars, iterations, transferred, itemsProcessed>>

BenchInit == ExampleInit /\ iterations = 1 /\ transferred = 0 /\ itemsProcessed = 0

\* The driver's own variables while the loops run: what the destructor
\* destroys has not been transferred.
Transfer ==
    /\ transferred' = IF phase = "live" THEN transferred + Len(popCursor_') - Len(popCursor_)
                                        ELSE transferred
    /\ UNCHANGED <<iterations, itemsProcessed>>

Iterate == ExampleStep /\ Transfer

\* The buffer has left its scope: the next iteration constructs a new one,
\* all as in SPSCExample's ExampleInit, and starts two threads.
NextIteration ==
    LET start == [at |-> 1, hb |-> 0] IN
    /\ phase = "freed" /\ itemsProcessed = 0 /\ iterations < MaxIterations
    /\ pushCursor_' = Initialised(0, start) /\ popCursor_' = Initialised(0, start)
    /\ closed_' = Initialised(FALSE, start)
    /\ slot' = [c \in Cursors |-> Raw] /\ lastDestroy' = [c \in Cursors |-> 0]
    /\ prod' = [pc |-> "idle", popCursorCache_ |-> 0, view |-> start]
    /\ cons' = [pc |-> "idle", pushCursorCache_ |-> 0, view |-> start,
                closedAt |-> 1, front |-> "none"]
    /\ phase' = "live" /\ producer' = "pushing" /\ consumer' = "front"
    /\ iterations' = iterations + 1
    /\ UNCHANGED <<variant, transferred, itemsProcessed>>

\* Mutant: an iteration is counted that has not been run.
ReportOneMore ==
    /\ phase = "freed" /\ itemsProcessed = 0
    /\ itemsProcessed' = (iterations + 1) * ItemCount
    /\ UNCHANGED <<exampleVars, iterations, transferred>>

\* SetItemsProcessed, when the library has asked for the last iteration.
Report ==
    /\ phase = "freed" /\ itemsProcessed = 0
    /\ itemsProcessed' = iterations * ItemCount
    /\ UNCHANGED <<exampleVars, iterations, transferred>>

Driver(class) == variant = SwitchesOf(class, TRUE) /\ (Iterate \/ NextIteration \/ Report)

-----------------------------------------------------------------------------
(* The drivers, one for each class.                                        *)

BM_SPSCBuffer                  == Driver(SPSCBuffer)
BM_SPSCBufferBaseline          == Driver(SPSCBufferBaseline)
BM_SPSCBufferBranchWrapIndices == Driver(SPSCBufferBranchWrapIndices)
BM_SPSCBufferCacheAlignment    == Driver(SPSCBufferCacheAlignment)
BM_SPSCBufferCachedCursors     == Driver(SPSCBufferCachedCursors)
BM_SPSCBufferMemOrder          == Driver(SPSCBufferMemOrder)
BM_SPSCBufferPadding           == Driver(SPSCBufferPadding)
BM_SPSCBufferStage1            == Driver(SPSCBufferStage1)
BM_SPSCBufferStage2            == Driver(SPSCBufferStage2)
BM_SPSCBufferStage3            == Driver(SPSCBufferStage3)
BM_SPSCBufferStage4            == Driver(SPSCBufferStage4)
BM_SPSCBufferStage5            == Driver(SPSCBufferStage5)
BM_SPSCBufferStage6            == Driver(SPSCBufferStage6)

Reported == itemsProcessed # 0 /\ UNCHANGED benchVars

BenchNext ==
    \/ BM_SPSCBuffer \/ BM_SPSCBufferBaseline
    \/ BM_SPSCBufferBranchWrapIndices \/ BM_SPSCBufferCacheAlignment
    \/ BM_SPSCBufferCachedCursors \/ BM_SPSCBufferMemOrder \/ BM_SPSCBufferPadding
    \/ BM_SPSCBufferStage1 \/ BM_SPSCBufferStage2 \/ BM_SPSCBufferStage3
    \/ BM_SPSCBufferStage4 \/ BM_SPSCBufferStage5 \/ BM_SPSCBufferStage6
    \/ Reported

-----------------------------------------------------------------------------
(* The fairness of SPSCExample: both threads run, and no load that is      *)
(* repeated forever misses the latest message forever; and the library     *)
(* stops after some iteration.                                             *)

BenchFairness ==
    /\ WF_benchVars(ProducerStep /\ Transfer) /\ WF_benchVars(ConsumerStep /\ Transfer)
    /\ SF_benchVars(SpinSeesLatest /\ Transfer)
    /\ SF_benchVars(FrontSeesLatest /\ Transfer)
    /\ SF_benchVars(ClosedSeesLatest /\ Transfer)
    /\ WF_benchVars(Report)

\* Nothing here makes the producer close the buffer.
BenchSpec == BenchInit /\ [][BenchNext]_benchVars /\ BenchFairness

-----------------------------------------------------------------------------
\* If the producer closes the buffer after its loop (line 37 of every
\* driver), both loops of every iteration end, the destructor completes and
\* the driver reports: no push spins forever and the consumer always finds
\* out about the close, whatever its class caches and orders.
Completes == WF_benchVars(CloseAfterLast /\ Transfer) => <>(itemsProcessed # 0)

\* No push waits forever: the spinning producer finds out, through its stale
\* cache if its class has one, that the consumer has made room.
PushReturns == prod.pc = "spin" ~> prod.pc = "construct"

\* Until the producer closes the buffer every element pushed is popped: the
\* consumer notices, through its own stale cache, that an empty buffer fills.
ElementsFlow ==
    \A n \in 1 .. ItemCount : Len(pushCursor_) > n ~> (Len(popCursor_) > n \/ producer = "done")

\* Line 65 of every driver reports items as processed that the consumer never
\* popped: those that it left to the destructor when it found the buffer
\* closed, in each iteration no more than fit into the buffer.
ReportedItemsTransferred ==
    itemsProcessed # 0 => itemsProcessed - transferred \in 0 .. iterations * BufferSize

-----------------------------------------------------------------------------
(* The inductive invariant: the buffer and the loops of each iteration are *)
(* as in the example, and every iteration whose threads are joined has     *)
(* left at most a full buffer to its destructor.                           *)

Joinings  == IF phase = "live" THEN iterations - 1 ELSE iterations
PopsUntil == IF phase = "live" THEN transferred - Popped ELSE transferred   \* the last of them

\* What a driver counts (lines 30 to 65) stays within reach of what its threads
\* have done, from one iteration's buffer to the next.
BenchInv ==
    /\ IInv /\ LoopsInOrder
    /\ iterations \in 1 .. MaxIterations /\ transferred \in Nat /\ PopsUntil \in Nat
    /\ Joinings * ItemCount - PopsUntil \in 0 .. Joinings * BufferSize
    /\ itemsProcessed # 0 => phase = "freed" /\ itemsProcessed = iterations * ItemCount
=============================================================================
