------------------------------ MODULE Storage ------------------------------
(***************************************************************************)
(* The memory of the buffers: what their constructors allocate for which   *)
(* argument, in the arithmetic of std::size_t, what the destructors give   *)
(* back, and on which cache lines the slots and the members lie.           *)
(***************************************************************************)
EXTENDS Integers, Sequences, SPSCClasses

CONSTANTS
    SizeBits,        \* the width of std::size_t
    cacheLineSize,   \* std::hardware_destructive_interference_size
    ElementSizes     \* the values of sizeof(T)

ASSUME StorageAssumption ==
    /\ SizeBits \in Nat /\ 2 ^ SizeBits \in Nat   \* the power is named for the provers
    /\ cacheLineSize \in Nat \ {0} /\ cacheLineSize < 2 ^ SizeBits
    /\ ElementSizes \subseteq Nat \ {0}

VARIABLES
    class,         \* the switches of the class constructed
    bufferSize,    \* the constructor's argument
    elementSize,   \* sizeof(T)
    at,            \* "enter", "sized", "live", "freed", or the exception thrown
    capacity_,
    buffer_,       \* where slot 0 lies in the allocation, in elements
    allocated,     \* how many elements allocate() was asked for
    deallocated    \* how many deallocate() was told

vars == <<class, bufferSize, elementSize, at, capacity_, buffer_, allocated, deallocated>>

Sizes == 0 .. 2 ^ SizeBits - 1

\* Mutant: sizes do not fit the type that stores them.
Unwrapped(n) == n

\* Unsigned arithmetic wraps around.
SizeT(n) == n % (2 ^ SizeBits)

\* The classes by what their constructors make of the argument: a slack slot,
\* the next power of two, or just the argument.  SPSCBufferMonoModulus
\* allocates what the baseline does.
WithRing(c, ring) ==
    [ring |-> ring, cached |-> c.cached, padded |-> c.padded,
     alignedCursors |-> c.alignedCursors, alignedCaches |-> c.alignedCaches]
MutexBuffer           == WithRing(SPSCBufferBaseline, "exact")
SPSCBufferMonoBitmask == WithRing(SPSCBufferBaseline, "bit_ceil")
Buffers == {WithRing(c, "slack") : c \in Classes} \cup {MutexBuffer, SPSCBufferMonoBitmask}

\* Mutant: the elements of a line are rounded down.
PaddingRoundedDown(size) == cacheLineSize \div size

\* The number of elements that cover a cache line.
padding(size) == (cacheLineSize + size - 1) \div size

\* The padding before the slots, which is also added behind them.
Padding == IF class.padded THEN padding(elementSize) ELSE 0

Init ==
    /\ class \in Buffers /\ bufferSize \in Sizes /\ elementSize \in ElementSizes
    /\ at = "enter"
    /\ capacity_ = 0 /\ buffer_ = 0 /\ allocated = 0 /\ deallocated = 0

-----------------------------------------------------------------------------
(* The constructor.  With an exception there is no object and nothing to   *)
(* give back.                                                              *)

RejectSize ==
    /\ at = "enter" /\ bufferSize < 1
    /\ at' = "invalid_argument"
    /\ UNCHANGED <<class, bufferSize, elementSize, capacity_, buffer_, allocated, deallocated>>

PowersOfTwo == {p \in Sizes : \E k \in 0 .. SizeBits - 1 : p = 2 ^ k}

\* Mutant: the slack slot is forgotten.
NoSlack(ring) ==
    IF ring = "bit_ceil" THEN PowersOfTwo \cap (bufferSize .. 2 * bufferSize - 1) ELSE {bufferSize}

\* The capacities a ring may get.  std::bit_ceil is undefined where its result
\* does not fit.
Capacities(ring) ==
    CASE ring = "slack" -> {SizeT(bufferSize + 1)}
      [] ring = "exact" -> {bufferSize}
      [] ring = "bit_ceil" -> IF 2 * bufferSize > 2 ^ SizeBits THEN Sizes
                              ELSE PowersOfTwo \cap (bufferSize .. 2 * bufferSize - 1)

SizeRing ==
    /\ at = "enter" /\ bufferSize >= 1
    /\ capacity_' \in Capacities(class.ring)
    /\ at' = "sized"
    /\ UNCHANGED <<class, bufferSize, elementSize, buffer_, allocated, deallocated>>

\* std::allocator throws when so many bytes cannot exist.
Allocate ==
    LET n == SizeT(capacity_ + 2 * Padding) IN
    /\ at = "sized" /\ n * elementSize < 2 ^ SizeBits
    /\ allocated' = n
    /\ buffer_' = Padding
    /\ at' = "live"
    /\ UNCHANGED <<class, bufferSize, elementSize, capacity_, deallocated>>

\* There is not enough memory, or never could be.
AllocateThrows ==
    /\ at = "sized"
    /\ at' = "bad_alloc"
    /\ UNCHANGED <<class, bufferSize, elementSize, capacity_, buffer_, allocated, deallocated>>

\* Mutant: the destructor forgets the padding.
DeallocateSlots ==
    /\ at = "live"
    /\ deallocated' = capacity_
    /\ at' = "freed"
    /\ UNCHANGED <<class, bufferSize, elementSize, capacity_, buffer_, allocated>>

\* The end of the destructor, when the elements are destroyed.
Deallocate ==
    /\ at = "live"
    /\ deallocated' = SizeT(capacity_ + 2 * Padding)
    /\ at' = "freed"
    /\ UNCHANGED <<class, bufferSize, elementSize, capacity_, buffer_, allocated>>

Next == RejectSize \/ SizeRing \/ Allocate \/ AllocateThrows \/ Deallocate

Spec == Init /\ [][Next]_vars

-----------------------------------------------------------------------------
(* Where the members of an object lie, in bytes from its start, for 8-byte *)
(* words.  An object with an aligned member starts on a line of its own.   *)

WordSize == 8

Cursors == <<"pushCursor_", "popCursor_">>
WithCaches == <<"pushCursor_", "popCursorCache_", "popCursor_", "pushCursorCache_">>

Members(c) ==
    (IF c.padded THEN <<"rawBuffer_", "buffer_">> ELSE <<"buffer_">>)
    \o (IF c.cached THEN WithCaches ELSE Cursors)
    \o <<"capacity_", "closed_">>

\* Mutant: the alignment is left out at the consumer's cursor.
OnlyPushCursorAligned(c, m) == m = "pushCursor_" /\ c.alignedCursors

\* The members declared alignas(cacheLineSize).
Aligned(c, m) ==
    \/ m \in {"pushCursor_", "popCursor_"} /\ c.alignedCursors
    \/ m \in {"popCursorCache_", "pushCursorCache_"} /\ c.alignedCaches

\* Where member m lies if the one before it ends at o.
Place(c, o, m) ==
    IF Aligned(c, m) THEN ((o + cacheLineSize - 1) \div cacheLineSize) * cacheLineSize ELSE o

Offsets(c) ==
    LET f[k \in 1 .. Len(Members(c))] ==
            IF k = 1 THEN 0 ELSE Place(c, f[k - 1] + WordSize, Members(c)[k])
    IN  f

LineOf(c, m) == LET k == CHOOSE i \in 1 .. Len(Members(c)) : Members(c)[i] = m
                IN  Offsets(c)[k] \div cacheLineSize
=============================================================================
