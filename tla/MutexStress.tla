---------------------------- MODULE MutexStress ----------------------------
(***************************************************************************)
(* The programs laid over MutexBuffer: those of                            *)
(* tests/stress/MutexBufferStressTest.cpp and one iteration of             *)
(* bench/MutexBufferBench.cpp.  Each producer pushes its share of the      *)
(* elements, the consumers pop until they find the buffer empty and        *)
(* closed, and the main thread joins them and destroys the buffer.  In the *)
(* tests main closes the buffer when it has joined the producers, in the   *)
(* benchmark the producer does after its loop.                             *)
(***************************************************************************)
EXTENDS MutexBufferSafety

\* The tests' owner closes the buffer; the benchmark's only producer does.
ASSUME CloserAssumption ==
    Closers \subseteq {Owner} \/ \E p \in Producers : Producers = {p}

VARIABLES
    left,    \* how many elements each producer still has to push
    next,    \* the operation each consumer's loop calls next, or "break"
    main,    \* "produce" until the producers are joined, then "consume"
    closer,  \* who closes the buffer: Owner in the tests, else the producer
    toClose  \* close() has not been called yet

control    == <<left, next, main, closer, toClose>>
stressVars == <<vars, control>>

Share   == ItemCount \div Cardinality(Producers)
TakeOne == IF ConsumerApi = "try_pop" THEN "try_pop" ELSE "front"

StressInit ==
    /\ Init
    /\ left = [p \in Producers |-> Share]
    /\ next = [c \in Consumers |-> TakeOne]
    /\ main = "produce" /\ closer \in Closers /\ toClose = TRUE

PushShare(p) ==
    /\ left[p] > 0
    /\ Call(p, "emplace")
    /\ left' = [left EXCEPT ![p] = @ - 1]
    /\ UNCHANGED <<next, main, closer, toClose>>

CallNext(c) ==
    /\ next[c] # "break"
    /\ Call(c, next[c])
    /\ UNCHANGED control

\* What the consumer's loop does after each result.
ConsumerOperation(c) ==
    /\ \/ /\ TryPop(c)
          /\ next' = [next EXCEPT ![c] = IF count_ > 0 THEN "try_pop" ELSE "closed"]
       \/ /\ Front(c)
          /\ next' = [next EXCEPT ![c] = IF count_ > 0 THEN "pop" ELSE "closed"]
       \/ /\ Pop(c)
          /\ next' = [next EXCEPT ![c] = "front"]
       \/ /\ Closed(c)
          /\ next' = [next EXCEPT ![c] = IF closed_ THEN "break" ELSE TakeOne]
    /\ UNCHANGED <<left, main, closer, toClose>>

JoinProducers ==
    /\ main = "produce"
    /\ \A p \in Producers : left[p] = 0 /\ at[p] = "out" /\ (p = closer => ~toClose)
    /\ main' = "consume"
    /\ UNCHANGED <<vars, left, next, closer, toClose>>

\* Mutant: the buffer is closed without waiting for the producers.
CloseEarly(t) ==
    /\ t = closer /\ toClose
    /\ Call(t, "close")
    /\ toClose' = FALSE
    /\ UNCHANGED <<left, next, main, closer>>

\* The owner closes the buffer when all producers have been joined, a
\* producer after the last push of its loop.
CloseBuffer(t) ==
    /\ t = closer /\ toClose
    /\ t = Owner => main = "consume"
    /\ t \in Producers => left[t] = 0
    /\ Call(t, "close")
    /\ toClose' = FALSE
    /\ UNCHANGED <<left, next, main, closer>>

JoinConsumers ==
    /\ main = "consume" /\ \A c \in Consumers : next[c] = "break"
    /\ Join
    /\ UNCHANGED control

\* The other steps, of which the threads' loops take no notice.
Lock(t) == Acquire(t) /\ UNCHANGED control

InOperation(t) ==
    /\ EmplaceWaits(t) \/ Emplaces(t) \/ NotifyOne(t) \/ Close(t)
    /\ UNCHANGED control

WakeSpuriously(t) == SpuriousWakeup(t) /\ UNCHANGED control

Destructor == (DestroyElement \/ Deallocate) /\ UNCHANGED control

Finished == phase = "freed" /\ UNCHANGED stressVars

ThreadStep(t) ==
    \/ t \in Producers /\ PushShare(t)
    \/ t \in Consumers /\ (CallNext(t) \/ ConsumerOperation(t))
    \/ t = Owner /\ (JoinProducers \/ JoinConsumers \/ Destructor)
    \/ CloseBuffer(t) \/ Lock(t) \/ InOperation(t)

StressNext == (\E t \in Threads : ThreadStep(t) \/ WakeSpuriously(t)) \/ Finished

-----------------------------------------------------------------------------
(* Every thread runs, and one that keeps asking for the mutex gets it some *)
(* time: consumers poll it without a pause, so nothing could be promised   *)
(* about a std::mutex that starves a thread forever.  No sleeper is woken  *)
(* but by a notification.                                                  *)

Fairness == \A t \in Threads : WF_stressVars(ThreadStep(t)) /\ SF_stressVars(Lock(t))

StressSpec == StressInit /\ [][StressNext]_stressVars /\ Fairness

-----------------------------------------------------------------------------
\* All threads come home and the buffer is destroyed: no producer sleeps
\* through the notifications, however they race with new calls of emplace.
Terminates == <>(phase = "freed")

\* close() notifies nobody (line 159), and a producer that sleeps when the
\* last consumer has left sleeps forever: the programs never come to that,
\* because no consumer leaves its loop before all pushes have returned.
ConsumersLeaveLast ==
    (\E c \in Consumers : next[c] = "break") =>
        \A p \in Producers : left[p] = 0 /\ op[p] # "emplace"

-----------------------------------------------------------------------------
(* The inductive invariant of the programs.  A consumer leaves its loop    *)
(* only after close() has taken effect, close() is called only after every *)
(* push has returned, and no push begins afterwards; and no push gets lost *)
(* or takes effect twice on the way, however often its thread slept.       *)

AllPushed == \A p \in Producers : left[p] = 0 /\ op[p] # "emplace"

LoopsInOrder ==
    /\ closer \in Closers /\ toClose \in BOOLEAN
    /\ next \in [Consumers -> {"try_pop", "front", "pop", "closed", "break"}]
    /\ main = "consume" \/ ~toClose => AllPushed
    /\ closed_ \/ (\E t \in Threads : op[t] = "close") => ~toClose
    /\ \A c \in Consumers : next[c] = "break" => closed_

\* Every push a producer has begun has taken effect, once, or is under way.
Begun   == {b \in Producers \X (1 .. Share) : b[2] > left[b[1]]}
Pushing == {p \in Producers : op[p] = "emplace"}

PushesCounted ==
    /\ left \in [Producers -> 0 .. Share]
    /\ \A t \in Threads : op[t] # "try_emplace"
    /\ Cardinality(Begun) = pushed + Cardinality(Pushing)

\* It holds together with MutexBuffer's own invariant: the programs are
\* clients that call no operation out of turn.
StressIInv == IInv /\ LoopsInOrder /\ PushesCounted

-----------------------------------------------------------------------------
\* tests/stress/MutexBufferStressTest.cpp:123 asserts that the consumers have
\* consumed every element when they have been joined.
EveryElementConsumed ==
    (\A c \in Consumers : next[c] = "break" /\ at[c] = "out") /\ phase = "live"
        => popped = ItemCount
=============================================================================
