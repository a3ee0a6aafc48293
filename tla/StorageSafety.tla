--------------------------- MODULE StorageSafety ---------------------------
(***************************************************************************)
(* The properties of the buffers' memory.                                  *)
(***************************************************************************)
EXTENDS Storage

\* Every variable has the type the code gives it.
TypeOK ==
    /\ class \in Buffers /\ bufferSize \in Sizes /\ elementSize \in ElementSizes
    /\ at \in {"enter", "sized", "live", "freed", "invalid_argument", "bad_alloc"}
    /\ capacity_ \in Sizes /\ buffer_ \in Nat /\ allocated \in Sizes /\ deallocated \in Sizes

\* The requests for which no size exceeds std::size_t.
Fits ==
    CASE class.ring = "slack"    -> bufferSize + 1 + 2 * Padding < 2 ^ SizeBits
      [] class.ring = "exact"    -> TRUE
      [] class.ring = "bit_ceil" -> 2 * bufferSize <= 2 ^ SizeBits

\* Every slot a cursor can reach, 0 to capacity_ - 1, is inside the allocation,
\* and there are slots for the requested number of elements.
Holds ==
    /\ buffer_ + capacity_ <= allocated
    /\ bufferSize + (IF class.ring = "slack" THEN 1 ELSE 0) <= capacity_

\* SPSCBuffer.hpp:31 rejects 0 and nothing else.  An object that is constructed
\* has storage for the requested capacity if the request fits into std::size_t
\* with the slack and the padding of lines 37 and 40; if it does not, the
\* object of a class with a slack slot is constructed all the same and has not.
SlotsAreAllocated ==
    at = "live" => /\ Fits => Holds
                   /\ class.ring = "slack" /\ ~Fits => ~Holds

\* README.md:83 and 95: the padding keeps "the first and last positions of the
\* buffer from sharing a cache line with unrelated neighboring data".
\* Whatever the address of the allocation, the lines of the first and the last
\* slot (SPSCBuffer.hpp:26, 40, 41) have no byte outside of it.
ExclusionZone ==
    at = "live" /\ class.padded /\ Fits =>
        \A address \in 1 .. cacheLineSize :
            LET line(byte) == byte \div cacheLineSize
                first == address + buffer_ * elementSize
                last  == address + (buffer_ + capacity_) * elementSize - 1
                end   == address + allocated * elementSize
            IN  line(first) > line(address - 1) /\ line(last) < line(end)

\* The destructors (SPSCBuffer.hpp:56) compute anew how much the constructors
\* (line 40) allocated, and find the same, even where the sum has wrapped.
FreedAsAllocated == at = "freed" => deallocated = allocated

\* README.md:79 and 81: in the classes with aligned cursors the two threads
\* write to different cache lines, their cursors and their caches alike.  This
\* leaves out closed_, which is written once, and capacity_, which is only read.
ProducerWrites == {"pushCursor_", "popCursorCache_"}
ConsumerWrites == {"popCursor_", "pushCursorCache_"}

NoFalseSharing ==
    class.alignedCursors =>
        LET present == {Members(class)[i] : i \in 1 .. Len(Members(class))} IN
        \A m \in ProducerWrites \cap present, n \in ConsumerWrites \cap present :
            LineOf(class, m) # LineOf(class, n)
=============================================================================
