---------------------------- MODULE SPSCExample ----------------------------
(***************************************************************************)
(* The program of examples/SPSCBufferExample.cpp, which the stress test    *)
(* and every iteration of the benchmarks repeat: one thread pushes         *)
(* ItemCount elements and closes the buffer; the other pops until front()  *)
(* is null and closed() is true; main joins both and destroys the buffer.  *)
(***************************************************************************)
EXTENDS SPSCBufferSafety

VARIABLES
    producer,   \* "pushing" inside the loop, "done" when the lambda returned
    consumer    \* "front", "act" on its result, "done" after break

exampleVars == <<vars, producer, consumer>>

ExampleInit == Init /\ producer = "pushing" /\ consumer = "front"

PushNext ==
    /\ producer = "pushing"
    /\ Emplace
    /\ UNCHANGED <<producer, consumer>>

\* Mutant: the buffer is closed before the loop has ended.
CloseEarly ==
    /\ producer = "pushing"
    /\ Close
    /\ producer' = "done"
    /\ UNCHANGED consumer

CloseAfterLast ==
    /\ producer = "pushing" /\ Pushed = ItemCount
    /\ Close
    /\ producer' = "done"
    /\ UNCHANGED consumer

CallFront ==
    /\ consumer = "front" /\ phase = "live"
    /\ Front
    /\ consumer' = "act"
    /\ UNCHANGED producer

PopItem ==
    /\ consumer = "act"
    /\ Pop
    /\ consumer' = "front"
    /\ UNCHANGED producer

CheckClosed(i) ==
    /\ consumer = "act" /\ cons.front = "null"
    /\ Closed(i)
    /\ consumer' = IF closed_[i].val THEN "done" ELSE "front"
    /\ UNCHANGED producer

JoinBoth ==
    /\ producer = "done" /\ consumer = "done"
    /\ Join
    /\ UNCHANGED <<producer, consumer>>

\* The loop of ~SPSCBuffer, run by main.
Destructor ==
    /\ phase = "dtor"
    /\ Front \/ Pop \/ Deallocate
    /\ UNCHANGED <<producer, consumer>>

InOperation == Operation /\ UNCHANGED <<producer, consumer>>

Finished == phase = "freed" /\ UNCHANGED exampleVars

ExampleStep ==
    \/ PushNext \/ CloseAfterLast
    \/ CallFront \/ PopItem \/ \E i \in Loadable(closed_, cons.closedAt) : CheckClosed(i)
    \/ JoinBoth \/ Destructor
    \/ InOperation

ExampleNext == ExampleStep \/ Finished

-----------------------------------------------------------------------------
(* Each running thread takes its next step, whatever message its load      *)
(* returns; and a load that is repeated forever does not return a message  *)
(* that has been overwritten forever: C++ asks implementations to make     *)
(* atomic stores visible in a finite time.  The code promises no more.     *)

ProducerStep == (PushNext \/ InOperation) /\ prod' # prod

ConsumerStep ==
    /\ \/ CallFront \/ PopItem \/ \E i \in Loadable(closed_, cons.closedAt) : CheckClosed(i)
       \/ JoinBoth \/ Destructor \/ InOperation
    /\ cons' # cons \/ phase' # phase

SpinSeesLatest   == EmplaceRefresh(Len(popCursor_)) /\ UNCHANGED <<producer, consumer>>
FrontSeesLatest  == FrontRefresh(Len(pushCursor_)) /\ UNCHANGED <<producer, consumer>>
ClosedSeesLatest == CheckClosed(Len(closed_))

Fairness ==
    /\ WF_exampleVars(ProducerStep) /\ WF_exampleVars(ConsumerStep)
    /\ SF_exampleVars(SpinSeesLatest)
    /\ SF_exampleVars(FrontSeesLatest)
    /\ SF_exampleVars(ClosedSeesLatest)

\* Nothing here makes the producer close the buffer.
ExampleSpec == ExampleInit /\ [][ExampleNext]_exampleVars /\ Fairness

-----------------------------------------------------------------------------
(* What the program adds to the invariant of its buffer: the loops end in  *)
(* order, the producer's with its last push and the close, the consumer's  *)
(* after it.                                                               *)

LoopsInOrder ==
    /\ producer = "done" => prod.pc = "idle" /\ Pushed = ItemCount
    /\ producer # "done" => Len(closed_) = 1 /\ ~closed_[1].val
    /\ consumer = "done" => producer = "done"

-----------------------------------------------------------------------------
\* tests/stress/SPSCBufferStressTest.cpp:65 expects the consumer to have
\* consumed every element once both threads are joined.
EveryElementConsumed == producer = "done" /\ consumer = "done" /\ phase = "live" => Popped = ItemCount
=============================================================================
