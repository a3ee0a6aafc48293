---------------------------- MODULE MonoVariants ----------------------------
(***************************************************************************)
(* The two kinds of users of the classes with monotonic cursors: threads   *)
(* that call the operations in any order, and one iteration of the         *)
(* classes' benchmark drivers, whose producer pushes its elements and      *)
(* closes the buffer while the consumer pops until it finds the buffer     *)
(* empty and closed.                                                       *)
(***************************************************************************)
EXTENDS MonoBufferSafety

VARIABLES producer, consumer   \* the control of the driver's loops, or "any"

loops        == <<producer, consumer>>
variantsVars == <<vars, loops>>

VariantsInit ==
    /\ Init
    /\ \/ producer = "any" /\ consumer = "any"
       \/ producer = "pushing" /\ consumer = "front"

\* Any use that keeps to the contract of the operations.
AnyUse == producer = "any" /\ Next /\ UNCHANGED loops

-----------------------------------------------------------------------------
(* The loops of the drivers.                                               *)

ProducerLoop ==
    \/ producer = "pushing" /\ BeginPush /\ UNCHANGED loops
    \/ /\ producer = "pushing" /\ pushed = ItemLimit /\ Close
       /\ producer' = "done"
       /\ UNCHANGED consumer

ConsumerLoop ==
    /\ \/ consumer = "front" /\ phase = "live" /\ Front /\ consumer' = "act"
       \/ consumer = "act" /\ Pop /\ consumer' = "front"
       \/ /\ consumer = "act" /\ front = "null" /\ Closed
          /\ consumer' = IF closed_ THEN "done" ELSE "front"
    /\ UNCHANGED producer

\* producer.join(), consumer.join(), and the end of the buffer's scope.
EndOfIteration ==
    /\ producer = "done"
    /\ \/ consumer = "done" /\ Join
       \/ phase = "dtor" /\ (Front \/ Pop \/ Deallocate)
    /\ UNCHANGED loops

InOperation == producer # "any" /\ Operation /\ UNCHANGED loops

Driver == ProducerLoop \/ ConsumerLoop \/ EndOfIteration \/ InOperation

BM_SPSCBufferMonoModulus == class = "modulus" /\ Driver
BM_SPSCBufferMonoBitmask == class = "bitmask" /\ Driver

VariantsNext == AnyUse \/ BM_SPSCBufferMonoModulus \/ BM_SPSCBufferMonoBitmask

\* Both threads of a driver run, and its main thread when they have ended.  A
\* seq_cst load returns the latest store, so nothing is asked of the loads.
ProducerStep == Driver /\ <<prodAt, producer>>' # <<prodAt, producer>>
ConsumerStep ==
    Driver /\ <<consAt, front, consumer, phase>>' # <<consAt, front, consumer, phase>>

VariantsSpec ==
    /\ VariantsInit /\ [][VariantsNext]_variantsVars
    /\ WF_variantsVars(ProducerStep) /\ WF_variantsVars(ConsumerStep)

-----------------------------------------------------------------------------
\* An iteration of a driver ends: the loops find out about room, elements and
\* the close, and the destructor completes.
IterationEnds == producer = "pushing" ~> phase = "freed"
=============================================================================
