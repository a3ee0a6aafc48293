-------------------------- MODULE MutexBufferSafety --------------------------
(***************************************************************************)
(* The properties of MutexBuffer.                                          *)
(***************************************************************************)
EXTENDS MutexBuffer, Sequences

\* Every variable has the type the code gives it; the mutex is held by the
\* one thread that is inside a critical section.
TypeOK ==
    /\ mutex_ \in Threads \cup {Free}
    /\ buffer_ \in [Slots -> Nat]
    /\ count_ \in 0 .. capacity_ /\ pushCursor_ \in Slots /\ popCursor_ \in Slots
    /\ closed_ \in BOOLEAN /\ sawClosed \in BOOLEAN
    /\ op \in [Threads -> PushOps \cup PopOps \cup {"none", "close", "closed"}]
    /\ at \in [Threads -> {"out", "enter", "inside", "asleep", "woken", "notify"}]
    /\ held \in [Consumers -> {"none", "null", "item"}]
    /\ phase \in {"live", "dtor", "freed"}
    /\ pushed \in Nat /\ popped \in Nat /\ sealed \in Nat /\ thrown \in 0 .. ThrowLimit
    /\ \A t \in Threads : at[t] = "inside" <=> mutex_ = t

\* The slots hold exactly the elements pushed and not popped, in ring order
\* from popCursor_ to pushCursor_, and count_ tells full from empty when the
\* two cursors meet (lines 57 to 60, 73 to 76, 119 to 123, 141 to 144).
RingHoldsQueue ==
    /\ count_ = pushed - popped
    /\ pushCursor_ = RingSlot(pushed, capacity_) /\ popCursor_ = RingSlot(popped, capacity_)
    /\ \A n \in popped + 1 .. pushed : buffer_[RingSlot(n - 1, capacity_)] = n
    /\ \A s \in Slots : buffer_[s] # Raw => buffer_[s] \in popped + 1 .. pushed

\* The pointer front() returned (line 106) designates the oldest element
\* outside the lock, until its only consumer pops it, whatever the producers
\* do meanwhile; and the assertion of pop() (line 139) holds.
PointerStaysValid ==
    \A c \in Consumers :
        held[c] = "item" \/ (op[c] = "pop" /\ at[c] \in {"enter", "inside"}) =>
            count_ > 0 /\ buffer_[popCursor_] = popped + 1

\* When emplace sleeps although there is room, enough notifications are on
\* their way or enough woken producers to use it: notifying one thread after
\* unlocking (lines 125 and 146) loses no wake-up, to overtaking producers,
\* spurious wake-ups or notifications that find no sleeper.  An exception of
\* T's constructor (line 57) in a woken producer loses one, and no more: it
\* leaves a slot free and hands its notification to nobody.
NoLostWakeup ==
    Asleep # {} =>
        capacity_ - count_ <= Cardinality(Notifying) + Cardinality(Awake) + thrown

\* The destructor (lines 37 to 48) destroys every element once before it
\* frees the storage.
NoElementLeaks == phase = "freed" => buffer_ = [s \in Slots |-> Raw] /\ popped = pushed

-----------------------------------------------------------------------------
(* The inductive invariant.  What the properties leave out: which          *)
(* operation a thread can be in at each position, that an element lies in  *)
(* no slot but its own, and to whom a result of front() belongs.           *)

Positions ==
    \A t \in Threads :
        /\ at[t] = "out" <=> op[t] = "none"
        /\ op[t] = "none" \/ op[t] \in OpsOf(t)
        /\ at[t] \in {"asleep", "woken"} => op[t] = "emplace"
        /\ at[t] = "notify" => op[t] \in {"pop", "try_pop"}
        /\ phase # "live" => at[t] = "out"

Contents ==
    /\ RingHoldsQueue
    /\ \A s \in Slots : buffer_[s] # Raw => RingSlot(buffer_[s] - 1, capacity_) = s
    /\ phase = "freed" => count_ = 0

Pointers ==
    /\ PointerStaysValid
    /\ \A c \in Consumers :
          /\ held[c] # "none" => ConsumerApi = "front_pop" /\ phase = "live"
          /\ op[c] = "pop" => held[c] = "none"

\* Each part holds initially and is preserved by every step if all of them
\* hold before it; together they imply every invariant above.
IInv == TypeOK /\ Positions /\ Contents /\ Pointers /\ NoLostWakeup

-----------------------------------------------------------------------------
\* What front() has returned to its consumer and pop() has not yet removed.
FrontShown ==
    IF \E c \in Consumers :
           held[c] = "item" \/ (op[c] = "pop" /\ at[c] \in {"enter", "inside"})
    THEN "item"
    ELSE IF \E c \in Consumers : held[c] = "null" THEN "null" ELSE "none"

\* MutexBuffer.hpp:95: the same contract as the SPSC buffer.  An operation
\* takes effect in its critical section.
Fifo == INSTANCE BoundedFifo WITH
    capacity <- BufferSize,
    queue    <- Elements(popped, pushed),
    produced <- pushed,
    front    <- FrontShown,
    closed   <- closed_

\* With one consumer that uses front() and pop() the buffer is the same
\* bounded FIFO queue as the lock-free one.
ImplementsFifo == Fifo!Spec
=============================================================================
