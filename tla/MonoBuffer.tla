----------------------------- MODULE MonoBuffer -----------------------------
(***************************************************************************)
(* SPSCBufferMonoModulus and SPSCBufferMonoBitmask: the variants of the    *)
(* study whose cursors count up through all values of std::size_t and are  *)
(* reduced to a slot at each access.  There are no caches and every access *)
(* is seq_cst, so an atomic has just its latest value.                     *)
(*                                                                         *)
(* The cursors are CursorBits wide instead of 64, so that they overflow    *)
(* within reach of the model checker.  The n-th constructed element is the *)
(* number n.                                                               *)
(***************************************************************************)
EXTENDS CursorArithmetic

CONSTANTS
    CursorBits,   \* the width of std::size_t
    MaxSlots,     \* bound: the largest array an object may have
    ItemCount     \* bound: elements the producer may push

ASSUME MonoAssumption ==
    /\ CursorBits \in Nat /\ MaxSlots \in Nat /\ ItemCount \in Nat
    /\ MaxSlots < 2 ^ CursorBits
    \* The powers of two, named for the provers.
    /\ \A k \in 0 .. CursorBits : 2 ^ k \in Nat \ {0} /\ (2 ^ CursorBits) % (2 ^ k) = 0

VARIABLES
    class, capacity_,                   \* the object: its class and its array, constant
    pushCursor_, popCursor_, closed_,   \* the atomics
    slot,                               \* buffer_: the element alive in each slot, or Raw
    prodAt,                             \* "idle", "construct", "publish"
    consAt,                             \* "idle", "assert", "destroy", "publish", "aborted"
    front,                              \* the result of front(), until used
    phase,                              \* "live", "dtor", "freed"
    pushed, popped,                     \* history: completed pushes and pops
    sealed, sawClosed                   \* history: pushes before close(); closed() was true

object  == <<class, capacity_>>
atomics == <<pushCursor_, popCursor_, closed_>>
history == <<pushed, popped, sealed, sawClosed>>
vars    == <<object, atomics, slot, prodAt, consAt, front, phase, history>>

\* The slots a constructor may allocate for the argument n: one of slack, or
\* as many as bit_ceil, the one power of two in the interval.
SPSCBufferMonoModulus(n) == {n + 1}
SPSCBufferMonoBitmask(n) == {2 ^ k : k \in 0 .. CursorBits} \cap (n .. 2 * n - 1)

\* What capacity() returns.
capacity == IF class = "bitmask" THEN capacity_ ELSE capacity_ - 1

Slots == 0 .. capacity_ - 1
Raw   == 0

\* Mutant: the cursors do not fit the type that stores them.
Unwrapped(n) == n

\* Unsigned arithmetic wraps around.
SizeT(n) == n % (2 ^ CursorBits)

\* Mutant: reduced by what capacity() returns.
IndexByCapacity(c) == RingSlot(c, capacity)

\* c % capacity_, which is c & bitmask_ where capacity_ is a power of two.
Index(c) == RingSlot(c, capacity_)

\* Mutant: room for one more.
FullAtOneMore == SizeT(pushCursor_ - popCursor_) = capacity_ + 1

Full  == SizeT(pushCursor_ - popCursor_) = capacity_
Empty == popCursor_ = pushCursor_

\* How many elements are pushed at most.  Where the slots do not divide the
\* values of a cursor (with 64 bits, all but powers of two) Next pushes no
\* element after the overflow of the producer's cursor, from which on its slot
\* is out of step with the ring.
ItemLimit ==
    IF (2 ^ CursorBits) % capacity_ = 0 \/ ItemCount <= 2 ^ CursorBits THEN ItemCount
    ELSE 2 ^ CursorBits

Init ==
    /\ \E n \in 1 .. MaxSlots :
          \/ class = "modulus" /\ capacity_ \in SPSCBufferMonoModulus(n)
          \/ class = "bitmask" /\ capacity_ \in SPSCBufferMonoBitmask(n)
    /\ capacity_ <= MaxSlots
    /\ pushCursor_ = 0 /\ popCursor_ = 0 /\ closed_ = FALSE
    /\ slot = [s \in Slots |-> Raw]
    /\ prodAt = "idle" /\ consAt = "idle" /\ front = "none" /\ phase = "live"
    /\ pushed = 0 /\ popped = 0 /\ sealed = 0 /\ sawClosed = FALSE

-----------------------------------------------------------------------------
(* Producer.  While the buffer is full emplace spins and try_emplace       *)
(* returns false; neither changes the state.                               *)

FindRoom ==
    /\ phase = "live" /\ prodAt = "idle" /\ ~Full
    /\ prodAt' = "construct"
    /\ UNCHANGED <<object, atomics, slot, consAt, front, phase, history>>

BeginPush == pushed < ItemLimit /\ FindRoom

Construct ==
    /\ prodAt = "construct"
    /\ slot' = [slot EXCEPT ![Index(pushCursor_)] = pushed + 1]
    /\ prodAt' = "publish"
    /\ UNCHANGED <<object, atomics, consAt, front, phase, history>>

ConstructThrows ==
    /\ prodAt = "construct"
    /\ prodAt' = "idle"
    /\ UNCHANGED <<object, atomics, slot, consAt, front, phase, history>>

PublishPush ==
    /\ prodAt = "publish"
    /\ pushCursor_' = SizeT(pushCursor_ + 1)
    /\ pushed' = pushed + 1
    /\ prodAt' = "idle"
    /\ UNCHANGED <<object, popCursor_, closed_, slot, consAt, front, phase,
                   popped, sealed, sawClosed>>

\* Mutant: close() stores the initial value.
CloseForgotten ==
    /\ phase = "live" /\ prodAt = "idle"
    /\ closed_' = FALSE
    /\ sealed' = pushed
    /\ UNCHANGED <<object, pushCursor_, popCursor_, slot, prodAt, consAt, front, phase,
                   pushed, popped, sawClosed>>

Close ==
    /\ phase = "live" /\ prodAt = "idle"
    /\ closed_' = TRUE
    /\ sealed' = IF closed_ THEN sealed ELSE pushed
    /\ UNCHANGED <<object, pushCursor_, popCursor_, slot, prodAt, consAt, front, phase,
                   pushed, popped, sawClosed>>

-----------------------------------------------------------------------------
(* Consumer, and after the joins the destructor.                           *)

Front ==
    /\ consAt = "idle"
    /\ phase = "live" \/ (phase = "dtor" /\ front = "none")
    /\ front' = IF Empty THEN "null" ELSE "item"
    /\ UNCHANGED <<object, atomics, slot, prodAt, consAt, phase, history>>

Pop ==
    /\ consAt = "idle" /\ front = "item"
    /\ consAt' = "assert"
    /\ UNCHANGED <<object, atomics, slot, prodAt, front, phase, history>>

PopAssert ==
    /\ consAt = "assert"
    /\ consAt' = IF Empty THEN "aborted" ELSE "destroy"
    /\ UNCHANGED <<object, atomics, slot, prodAt, front, phase, history>>

PopDestroy ==
    /\ consAt = "destroy"
    /\ slot' = [slot EXCEPT ![Index(popCursor_)] = Raw]
    /\ consAt' = "publish"
    /\ UNCHANGED <<object, atomics, prodAt, front, phase, history>>

PublishPop ==
    /\ consAt = "publish"
    /\ popCursor_' = SizeT(popCursor_ + 1)
    /\ popped' = popped + 1
    /\ consAt' = "idle" /\ front' = "none"
    /\ UNCHANGED <<object, pushCursor_, closed_, slot, prodAt, phase,
                   pushed, sealed, sawClosed>>

Closed ==
    /\ phase = "live" /\ consAt = "idle"
    /\ sawClosed' = (sawClosed \/ closed_)
    /\ UNCHANGED <<object, atomics, slot, prodAt, consAt, front, phase,
                   pushed, popped, sealed>>

Join ==
    /\ phase = "live" /\ prodAt = "idle" /\ consAt = "idle"
    /\ phase' = "dtor" /\ front' = "none"
    /\ UNCHANGED <<object, atomics, slot, prodAt, consAt, history>>

\* Mutant: the destructor does not drain the buffer.
DeallocateUndrained ==
    /\ phase = "dtor" /\ consAt = "idle"
    /\ phase' = "freed"
    /\ UNCHANGED <<object, atomics, slot, prodAt, consAt, front, history>>

Deallocate ==
    /\ phase = "dtor" /\ consAt = "idle" /\ front = "null"
    /\ phase' = "freed"
    /\ UNCHANGED <<object, atomics, slot, prodAt, consAt, front, history>>

\* The steps inside an operation that has been called.
Operation == Construct \/ PublishPush \/ PopAssert \/ PopDestroy \/ PublishPop

Next ==
    \/ BeginPush \/ ConstructThrows \/ Close
    \/ Front \/ Pop \/ Closed
    \/ Join \/ Deallocate
    \/ Operation

Spec == Init /\ [][Next]_vars

\* The producer goes on where ItemLimit would stop it.
BeginPushBeyond == pushed < ItemCount /\ FindRoom

OverflowSpec == Init /\ [][Next \/ BeginPushBeyond]_vars
=============================================================================
