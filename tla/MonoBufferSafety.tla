-------------------------- MODULE MonoBufferSafety --------------------------
(***************************************************************************)
(* The properties of the buffers with monotonic cursors.                   *)
(***************************************************************************)
EXTENDS MonoBuffer, Sequences

\* Every variable has the type the code gives it.
TypeOK ==
    /\ class \in {"modulus", "bitmask"} /\ capacity_ \in 1 .. MaxSlots
    /\ pushCursor_ \in 0 .. 2 ^ CursorBits - 1 /\ popCursor_ \in 0 .. 2 ^ CursorBits - 1
    /\ closed_ \in BOOLEAN /\ sawClosed \in BOOLEAN
    /\ slot \in [Slots -> Nat]
    /\ prodAt \in {"idle", "construct", "publish"}
    /\ consAt \in {"idle", "assert", "destroy", "publish", "aborted"}
    /\ front \in {"none", "null", "item"} /\ phase \in {"live", "dtor", "freed"}
    /\ pushed \in Nat /\ popped \in Nat /\ sealed \in Nat

\* README.md:89 and 90: the reduced cursors provide circular buffer
\* arithmetic.  An element is constructed (MonoModulus line 62, MonoBitmask
\* line 64) in a raw slot, and front() and pop() find the oldest element, also
\* after the cursors have overflowed where the slots divide their range.  The
\* arrays of MonoModulus whose slots do not fail beyond the overflow: Next ends
\* the pushes there (ItemLimit), OverflowSpec goes on and violates this.
CircularArithmetic ==
    /\ prodAt = "construct" => slot[Index(pushCursor_)] = Raw
    /\ consAt \in {"assert", "destroy"} => slot[Index(popCursor_)] = popped + 1

\* The buffer accepts as many elements as capacity() reports and no more:
\* MonoModulus.hpp:32 still reserves a "slack element for cursor arithmetic".
HoldsCapacity == pushed - popped <= capacity

\* It never holds more elements than it has slots, also when the difference
\* of the cursors has wrapped around (MonoModulus line 75, MonoBitmask line 77).
HoldsSlots == pushed - popped <= capacity_

\* The destructor (MonoModulus lines 43 to 51, MonoBitmask lines 45 to 53)
\* destroys every element once before it frees the storage.
NoElementLeaks == phase = "freed" => popped = pushed /\ \A s \in Slots : slot[s] = Raw

-----------------------------------------------------------------------------
(* The inductive invariant.                                                *)

\* The cursors count the elements modulo their width, and the counts stay
\* close enough together for their difference to be read off the cursors.
Cursors ==
    /\ class = "bitmask" => (2 ^ CursorBits) % capacity_ = 0
    /\ pushCursor_ = SizeT(pushed) /\ popCursor_ = SizeT(popped)
    /\ popped <= pushed /\ pushed - popped <= capacity_ /\ pushed <= ItemLimit

\* Who has tested for room or for an element still finds it when he acts.
Tested ==
    /\ prodAt # "idle" => pushed - popped < capacity_ /\ pushed < ItemLimit /\ phase = "live"
    /\ front = "item" => popped < pushed
    /\ consAt # "idle" => front = "item"
    /\ consAt # "aborted"
    /\ phase # "live" /\ front = "null" => popped = pushed
    /\ phase = "freed" => consAt = "idle" /\ front = "null"

\* The elements alive are those between the consumer and the producer, each
\* in its slot of the ring.
Alive == popped + (IF consAt = "publish" THEN 2 ELSE 1)
             .. pushed + (IF prodAt = "publish" THEN 1 ELSE 0)

Ring ==
    /\ \A n \in Alive : slot[RingSlot(n - 1, capacity_)] = n
    /\ \A s \in Slots : slot[s] # Raw =>
           slot[s] \in Alive /\ RingSlot(slot[s] - 1, capacity_) = s

\* The assertion of pop() (MonoModulus line 120, MonoBitmask line 122) holds,
\* and the rest of what the properties above need.
IInv == TypeOK /\ Cursors /\ Tested /\ Ring

-----------------------------------------------------------------------------
\* README.md:89 and 90 present the classes as implementations of the same
\* buffer: to its two threads each is a FIFO queue of no more elements than
\* its own array has slots (MonoModulus line 75 compares with capacity_).  A
\* push takes effect when it stores the cursor, a pop when it does.
Fifo == INSTANCE BoundedFifo WITH
    capacity <- capacity_,
    queue    <- Elements(popped, pushed),
    produced <- pushed,
    closed   <- closed_
ImplementsFifo == Fifo!Spec
=============================================================================
