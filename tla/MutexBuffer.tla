----------------------------- MODULE MutexBuffer -----------------------------
(***************************************************************************)
(* ringbuffers::MutexBuffer: a ring buffer guarded by one mutex, on which  *)
(* emplace sleeps while the buffer is full.                                *)
(*                                                                         *)
(* A thread calls an operation, waits for the mutex, and runs the critical *)
(* section in one step that also releases it: no other thread can observe  *)
(* the inside.  pop and try_pop notify after unlocking, in a step of their *)
(* own.  Waiting on cvFull_ releases the mutex atomically; a sleeper wakes *)
(* by notify_one or spuriously and has to get the mutex again, in          *)
(* competition with everybody else.                                        *)
(*                                                                         *)
(* The n-th constructed element is the number n.                           *)
(***************************************************************************)
EXTENDS CursorArithmetic, FiniteSets

CONSTANTS
    Producers, Consumers,   \* the threads that push and those that pop
    Owner,                  \* the thread that joins the others
    Closers,                \* the threads that call close()
    ConsumerApi,            \* "front_pop" (one consumer only) or "try_pop"
    Free,                   \* not a thread: the mutex is unlocked
    BufferSize,             \* the constructor's argument
    ItemCount,              \* bound: how many elements are pushed
    ThrowLimit              \* bound: how often T's constructors throw

ASSUME MutexAssumption ==
    /\ BufferSize \in Nat \ {0} /\ ItemCount \in Nat
    /\ IsFiniteSet(Producers) /\ IsFiniteSet(Consumers)
    /\ Producers \cap Consumers = {} /\ Owner \notin Producers \cup Consumers
    /\ Free \notin Producers \cup Consumers \cup {Owner}
    /\ Closers \subseteq Producers \cup {Owner}
    /\ ConsumerApi \in {"front_pop", "try_pop"} /\ ThrowLimit \in Nat
    \* MutexBuffer.hpp:96 and 134: front and pop are for a single consumer.
    /\ ConsumerApi = "front_pop" => \E c \in Consumers : Consumers = {c}

VARIABLES
    mutex_,                    \* its holder, or Free
    buffer_,                   \* the element alive in each slot, or Raw
    count_, pushCursor_, popCursor_, closed_,
    op,                        \* the operation each thread is in
    at,                        \* how far it has come in it
    held,                      \* each consumer's result of front(), until used
    phase,                     \* "live", "dtor" when all are joined, "freed"
    pushed, popped,            \* history: elements constructed and destroyed
    sealed, sawClosed,         \* history: pushes before close(), and whether
                               \* closed() has returned true
    thrown                     \* history: exceptions so far

storage == <<buffer_, count_, pushCursor_, popCursor_, pushed, popped>>
flag    == <<closed_, sealed, sawClosed>>
vars    == <<mutex_, storage, flag, op, at, held, phase, thrown>>

Threads   == Producers \cup Consumers \cup {Owner}
capacity_ == BufferSize
Slots     == 0 .. capacity_ - 1
Raw       == 0
PushOps   == {"emplace", "try_emplace"}
PopOps    == IF ConsumerApi = "try_pop" THEN {"try_pop"} ELSE {"front", "pop"}

\* The operations a thread calls.
OpsOf(t) ==
    UNION {IF t \in Producers THEN PushOps ELSE {},
           IF t \in Consumers THEN PopOps \cup {"closed"} ELSE {},
           IF t \in Closers   THEN {"close"} ELSE {}}

Asleep    == {t \in Threads : at[t] = "asleep"}
Awake     == {t \in Threads : op[t] = "emplace" /\ at[t] \in {"woken", "inside"}}
Notifying == {t \in Threads : at[t] = "notify"}

Init ==
    /\ mutex_ = Free
    /\ buffer_ = [s \in Slots |-> Raw]
    /\ count_ = 0 /\ pushCursor_ = 0 /\ popCursor_ = 0 /\ closed_ = FALSE
    /\ op = [t \in Threads |-> "none"]
    /\ at = [t \in Threads |-> "out"]
    /\ held = [c \in Consumers |-> "none"]
    /\ phase = "live"
    /\ pushed = 0 /\ popped = 0 /\ sealed = 0 /\ sawClosed = FALSE /\ thrown = 0

-----------------------------------------------------------------------------
(* Calling, locking and leaving.                                           *)

Call(t, o) ==
    /\ phase = "live" /\ at[t] = "out" /\ o \in OpsOf(t)
    /\ o \in PushOps => pushed + Cardinality({u \in Threads : op[u] \in PushOps}) < ItemCount
    /\ o = "pop" => held[t] = "item"
    /\ op' = [op EXCEPT ![t] = o]
    /\ at' = [at EXCEPT ![t] = "enter"]
    /\ held' = IF o = "pop" THEN [held EXCEPT ![t] = "none"] ELSE held
    /\ UNCHANGED <<mutex_, storage, flag, phase, thrown>>

Acquire(t) ==
    /\ mutex_ = Free /\ at[t] \in {"enter", "woken"}
    /\ mutex_' = t
    /\ at' = [at EXCEPT ![t] = "inside"]
    /\ UNCHANGED <<storage, flag, op, held, phase, thrown>>

Inside(t, o) == mutex_ = t /\ at[t] = "inside" /\ op[t] = o

\* The lock goes out of scope, by a return or by an exception.
Leave(t) ==
    /\ mutex_' = Free
    /\ op' = [op EXCEPT ![t] = "none"]
    /\ at' = [at EXCEPT ![t] = "out"]
    /\ UNCHANGED phase

Return(t) == Leave(t) /\ UNCHANGED thrown

\* Mutant: nobody is notified.
UnlockWithoutNotify(t) ==
    /\ mutex_' = Free
    /\ op' = [op EXCEPT ![t] = "none"]
    /\ at' = [at EXCEPT ![t] = "out"]
    /\ UNCHANGED <<phase, thrown>>

\* lock.unlock(), with cvFull_.notify_one() still to come.
UnlockThenNotify(t) ==
    /\ mutex_' = Free
    /\ at' = [at EXCEPT ![t] = "notify"]
    /\ UNCHANGED <<op, phase, thrown>>

PushElement ==
    /\ buffer_' = [buffer_ EXCEPT ![pushCursor_] = pushed + 1]
    /\ pushCursor_' = ModulusNext(pushCursor_, capacity_)
    /\ count_' = count_ + 1
    /\ pushed' = pushed + 1
    /\ UNCHANGED <<popCursor_, popped>>

\* Mutant: the cursor stays where it is.
PopElementInPlace ==
    /\ buffer_' = [buffer_ EXCEPT ![popCursor_] = Raw]
    /\ count_' = count_ - 1
    /\ popped' = popped + 1
    /\ UNCHANGED <<pushCursor_, popCursor_, pushed>>

PopElement ==
    /\ buffer_' = [buffer_ EXCEPT ![popCursor_] = Raw]
    /\ popCursor_' = ModulusNext(popCursor_, capacity_)
    /\ count_' = count_ - 1
    /\ popped' = popped + 1
    /\ UNCHANGED <<pushCursor_, pushed>>

-----------------------------------------------------------------------------
(* The critical sections.                                                  *)

\* cvFull_.wait: the predicate is false.
EmplaceWaits(t) ==
    /\ Inside(t, "emplace") /\ count_ = capacity_
    /\ mutex_' = Free
    /\ at' = [at EXCEPT ![t] = "asleep"]
    /\ UNCHANGED <<storage, flag, op, held, phase, thrown>>

SpuriousWakeup(t) ==
    /\ at[t] = "asleep"
    /\ at' = [at EXCEPT ![t] = "woken"]
    /\ UNCHANGED <<mutex_, storage, flag, op, held, phase, thrown>>

\* Mutant: the predicate is not tested, as if wait() had none and were woken.
EmplacesUntested(t) ==
    /\ Inside(t, "emplace") \/ Inside(t, "try_emplace")
    /\ PushElement
    /\ Return(t)
    /\ UNCHANGED <<flag, held>>

Emplaces(t) ==
    /\ Inside(t, "emplace") \/ Inside(t, "try_emplace")
    /\ count_ # capacity_
    /\ PushElement
    /\ Return(t)
    /\ UNCHANGED <<flag, held>>

TryEmplaceRefused(t) ==
    /\ Inside(t, "try_emplace") /\ count_ = capacity_
    /\ Return(t)
    /\ UNCHANGED <<storage, flag, held>>

\* T's constructor throws in construct_at, or its move constructor in try_pop.
Throws(t) ==
    /\ thrown < ThrowLimit
    /\ \/ (Inside(t, "emplace") \/ Inside(t, "try_emplace")) /\ count_ # capacity_
       \/ Inside(t, "try_pop") /\ count_ > 0
    /\ thrown' = thrown + 1
    /\ Leave(t)
    /\ UNCHANGED <<storage, flag, held>>

TryPop(t) ==
    /\ Inside(t, "try_pop")
    /\ IF count_ > 0 THEN PopElement /\ UnlockThenNotify(t)
                     ELSE Return(t) /\ UNCHANGED storage
    /\ UNCHANGED <<flag, held>>

\* Mutant: the empty test is missing.
FrontUntested(t) ==
    /\ Inside(t, "front")
    /\ held' = [held EXCEPT ![t] = "item"]
    /\ Return(t)
    /\ UNCHANGED <<storage, flag>>

Front(t) ==
    /\ Inside(t, "front")
    /\ held' = [held EXCEPT ![t] = IF count_ = 0 THEN "null" ELSE "item"]
    /\ Return(t)
    /\ UNCHANGED <<storage, flag>>

Pop(t) ==
    /\ Inside(t, "pop")
    /\ PopElement
    /\ UnlockThenNotify(t)
    /\ UNCHANGED <<flag, held>>

\* Wakes one sleeper, if there is one.
NotifyOne(t) ==
    /\ at[t] = "notify"
    /\ op' = [op EXCEPT ![t] = "none"]
    /\ IF Asleep = {} THEN at' = [at EXCEPT ![t] = "out"]
       ELSE \E u \in Asleep : at' = [at EXCEPT ![t] = "out", ![u] = "woken"]
    /\ UNCHANGED <<mutex_, storage, flag, held, phase, thrown>>

Close(t) ==
    /\ Inside(t, "close")
    /\ closed_' = TRUE
    /\ sealed' = IF closed_ THEN sealed ELSE pushed
    /\ Return(t)
    /\ UNCHANGED <<storage, held, sawClosed>>

\* closed() returns closed_, which the caller acts upon.
Closed(t) ==
    /\ Inside(t, "closed")
    /\ sawClosed' = (sawClosed \/ closed_)
    /\ Return(t)
    /\ UNCHANGED <<storage, closed_, sealed, held>>

-----------------------------------------------------------------------------
(* The owner joins all threads and destroys the buffer.                    *)

Join ==
    /\ phase = "live" /\ \A t \in Threads : at[t] = "out"
    /\ phase' = "dtor"
    /\ held' = [c \in Consumers |-> "none"]
    /\ UNCHANGED <<mutex_, storage, flag, op, at, thrown>>

DestroyElement ==
    /\ phase = "dtor" /\ count_ > 0
    /\ PopElement
    /\ UNCHANGED <<mutex_, flag, op, at, held, phase, thrown>>

\* Mutant: the destructor does not destroy the elements.
DeallocateUndrained ==
    /\ phase = "dtor"
    /\ phase' = "freed"
    /\ UNCHANGED <<mutex_, storage, flag, op, at, held, thrown>>

Deallocate ==
    /\ phase = "dtor" /\ count_ = 0
    /\ phase' = "freed"
    /\ UNCHANGED <<mutex_, storage, flag, op, at, held, thrown>>

\* The steps inside an operation that has been called.
Operation(t) ==
    \/ Acquire(t)
    \/ EmplaceWaits(t) \/ Emplaces(t) \/ TryEmplaceRefused(t)
    \/ TryPop(t) \/ Front(t) \/ Pop(t) \/ NotifyOne(t)
    \/ Close(t) \/ Closed(t)

Next ==
    \/ \E t \in Threads :
          \/ \E o \in OpsOf(t) : Call(t, o)
          \/ Operation(t) \/ SpuriousWakeup(t) \/ Throws(t)
    \/ Join \/ DestroyElement \/ Deallocate

Spec == Init /\ [][Next]_vars
=============================================================================
