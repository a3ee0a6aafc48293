--------------------------- MODULE StorageProofs ---------------------------
(***************************************************************************)
(* The memory of the buffers, for every width of std::size_t, every line   *)
(* size and every element size.                                            *)
(***************************************************************************)
EXTENDS StorageSafety, CursorArithmeticProofs

\* The padding covers a cache line, and the last of its elements is needed.
LEMMA PaddingCoversLine ==
    ASSUME NEW size \in Nat \ {0}
    PROVE  /\ padding(size) \in Nat
           /\ padding(size) * size >= cacheLineSize
           /\ padding(size) * size < cacheLineSize + size
<1> DEFINE n == cacheLineSize + size - 1
<1>1. n \in Nat
  BY StorageAssumption
<1>2. /\ n = (size * (n \div size)) + (n % size)
      /\ n % size \in 0 .. size - 1
      /\ n \div size \in Nat
  BY <1>1, DivMod
<1>3. padding(size) = n \div size
  BY DEF padding
<1>4. size * (n \div size) \in Nat /\ size * (n \div size) = (n \div size) * size
  BY <1>2
<1> HIDE DEF n
<1>5. (n \div size) * size = n - (n % size)
  BY <1>1, <1>2, <1>4
<1>6. n - (n % size) >= cacheLineSize /\ n - (n % size) < cacheLineSize + size
  BY <1>1, <1>2, StorageAssumption DEF n
<1> QED
  BY <1>2, <1>3, <1>5, <1>6

\* No more elements than bytes.
LEMMA PaddingAtMostLine ==
    ASSUME NEW size \in Nat \ {0}
    PROVE  padding(size) <= cacheLineSize
<1> DEFINE p == padding(size)
<1>1. p \in Nat /\ p * size < cacheLineSize + size
  BY PaddingCoversLine
<1>2. ASSUME p > cacheLineSize PROVE FALSE
  <2>1. PICK d \in Nat : p = cacheLineSize + 1 + d
    BY <1>1, <1>2, StorageAssumption, SMT
  <2>2. p * size = cacheLineSize * size + size + d * size
    BY <2>1, StorageAssumption
  <2>3. d * size \in Nat /\ cacheLineSize * size >= cacheLineSize
    BY <2>1, StorageAssumption
  <2> QED
    BY <1>1, <2>2, <2>3, StorageAssumption
<1> QED
  BY <1>1, <1>2, StorageAssumption

\* Two bytes a line apart are on different lines.
LEMMA LinesApart ==
    ASSUME NEW a \in Nat, NEW b \in Nat, a + cacheLineSize <= b
    PROVE  a \div cacheLineSize < b \div cacheLineSize
<1> DEFINE p == a \div cacheLineSize
           q == b \div cacheLineSize
<1>1. /\ a = (cacheLineSize * p) + (a % cacheLineSize)
      /\ a % cacheLineSize \in 0 .. cacheLineSize - 1 /\ p \in Nat
  BY DivMod, StorageAssumption
<1>2. /\ b = (cacheLineSize * q) + (b % cacheLineSize)
      /\ b % cacheLineSize \in 0 .. cacheLineSize - 1 /\ q \in Nat
  BY DivMod, StorageAssumption
<1> HIDE DEF p, q
<1>3. ASSUME q <= p PROVE FALSE
  <2>1. cacheLineSize * q <= cacheLineSize * p
    <3>1. CASE q = p
      BY <1>1, <3>1, StorageAssumption
    <3>2. CASE q < p
      BY <1>1, <1>2, <3>2, MultiplesApart, StorageAssumption
    <3> QED
      BY <1>1, <1>2, <1>3, <3>1, <3>2
  <2>2. cacheLineSize * q \in Nat /\ cacheLineSize * p \in Nat
    BY <1>1, <1>2, StorageAssumption
  <2> QED
    BY <1>1, <1>2, <2>1, <2>2, StorageAssumption
<1> QED
  BY <1>1, <1>2, <1>3 DEF p, q

\* Sizes do not grow under unsigned arithmetic, and small ones are unchanged.
LEMMA SizeTType ==
    ASSUME NEW n \in Nat
    PROVE  SizeT(n) \in Sizes /\ (n < 2 ^ SizeBits => SizeT(n) = n)
<1> DEFINE m == 2 ^ SizeBits
<1>1. m \in Nat \ {0}
  BY StorageAssumption
<1> HIDE DEF m
<1>2. n = (m * (n \div m)) + (n % m) /\ n % m \in 0 .. m - 1 /\ n \div m \in Nat
  BY <1>1, DivMod
<1>3. ASSUME n < m PROVE n % m = n
  <2>1. n = m * 0 + n /\ n \in 0 .. m - 1
    BY <1>1, <1>3
  <2>2. n = m * (n \div m) + (n % m)
    BY <1>2
  <2> QED
    BY <1>1, <1>2, <1>3, <2>1, <2>2, DivModUnique
<1> QED
  BY <1>1, <1>2, <1>3 DEF SizeT, Sizes, m

\* A size that does not fit loses 2^SizeBits at least.
LEMMA SizeTWraps ==
    ASSUME NEW n \in Nat, n >= 2 ^ SizeBits
    PROVE  SizeT(n) <= n - 2 ^ SizeBits
<1> DEFINE m == 2 ^ SizeBits
           q == n \div m
<1>1. m \in Nat \ {0}
  BY StorageAssumption
<1> HIDE DEF m
<1>2. n = (m * q) + (n % m) /\ n % m \in 0 .. m - 1 /\ q \in Nat
  BY <1>1, DivMod
<1> HIDE DEF q
<1>3. q # 0
  BY <1>1, <1>2 DEF m
<1>4. PICK d \in Nat : q = 1 + d
  BY <1>2, <1>3, SMT
<1>5. m * q = m + m * d /\ m * d \in Nat
  BY <1>1, <1>4
<1> QED
  BY <1>1, <1>2, <1>5 DEF SizeT, m

-----------------------------------------------------------------------------

\* Only classes with a slack slot are padded.
LEMMA RingType ==
    ASSUME class \in Buffers
    PROVE  /\ class.ring \in {"slack", "exact", "bit_ceil"}
           /\ class.ring # "slack" => class.padded = FALSE
BY DEF Buffers, WithRing, MutexBuffer, SPSCBufferMonoBitmask, SPSCBufferBaseline

LEMMA PaddingType ==
    ASSUME elementSize \in ElementSizes
    PROVE  Padding \in Nat /\ Padding < 2 ^ SizeBits
<1>1. elementSize \in Nat \ {0}
  BY StorageAssumption
<1>2. padding(elementSize) \in Nat /\ padding(elementSize) <= cacheLineSize
  BY <1>1, PaddingCoversLine, PaddingAtMostLine
<1> QED
  BY <1>2, StorageAssumption DEF Padding

LEMMA CapacitiesType ==
    ASSUME class \in Buffers, bufferSize \in Sizes
    PROVE  Capacities(class.ring) \subseteq Sizes
<1>1. bufferSize + 1 \in Nat
  BY StorageAssumption DEF Sizes
<1> QED
  BY <1>1, RingType, SizeTType DEF Capacities, PowersOfTwo

\* What the constructor has computed when it has allocated.
StorageInv ==
    /\ TypeOK
    /\ at \in {"sized", "live", "freed"} => capacity_ \in Capacities(class.ring)
    /\ at \in {"live", "freed"} =>
          buffer_ = Padding /\ allocated = SizeT(capacity_ + 2 * Padding)
    /\ at = "freed" => deallocated = SizeT(capacity_ + 2 * Padding)

LEMMA StorageInvInit == Init => StorageInv
<1>1. 0 \in Sizes
  BY StorageAssumption DEF Sizes
<1> QED
  BY <1>1 DEF Init, StorageInv, TypeOK

LEMMA StorageInvNext == StorageInv /\ [Next]_vars => StorageInv'
<1> SUFFICES ASSUME StorageInv, [Next]_vars PROVE StorageInv'
  OBVIOUS
<1> USE DEF StorageInv, TypeOK
<1>1. SizeT(capacity_ + 2 * Padding) \in Sizes /\ Padding \in Nat
  <2>1. Padding \in Nat /\ capacity_ \in Nat
    BY PaddingType, StorageAssumption DEF Sizes
  <2>2. capacity_ + 2 * Padding \in Nat
    BY <2>1
  <2> QED
    BY <2>1, <2>2, SizeTType
<1>2. ASSUME UNCHANGED <<class, bufferSize, elementSize>>
      PROVE  Padding' = Padding /\ Capacities(class.ring)' = Capacities(class.ring)
  BY <1>2 DEF Padding, Capacities
<1>3. CASE RejectSize
  BY <1>3, <1>2 DEF RejectSize
<1>4. CASE SizeRing
  <2>1. capacity_' \in Capacities(class.ring) /\ capacity_' \in Sizes
    BY <1>4, CapacitiesType DEF SizeRing
  <2> QED
    BY <1>4, <1>2, <2>1 DEF SizeRing
<1>5. CASE Allocate
  BY <1>1, <1>2, <1>5 DEF Allocate
<1>6. CASE AllocateThrows
  BY <1>2, <1>6 DEF AllocateThrows
<1>7. CASE Deallocate
  BY <1>1, <1>2, <1>7 DEF Deallocate
<1>8. CASE UNCHANGED vars
  BY <1>2, <1>8 DEF vars
<1> QED
  BY <1>3, <1>4, <1>5, <1>6, <1>7, <1>8 DEF Next

THEOREM StorageInvariance == Spec => []StorageInv
BY StorageInvInit, StorageInvNext, PTL DEF Spec

-----------------------------------------------------------------------------

\* What the constructor of a class with a slack slot has done, by whether the
\* request fits.
LEMMA SlackRing ==
    ASSUME StorageInv, at = "live", class.ring = "slack"
    PROVE  /\ capacity_ \in Nat /\ allocated \in Nat /\ buffer_ = Padding
           /\ Fits => capacity_ = bufferSize + 1 /\ allocated = capacity_ + 2 * Padding
           /\ ~Fits => \/ capacity_ < bufferSize + 1
                       \/ allocated <= capacity_ + 2 * Padding - 2 ^ SizeBits
<1> USE DEF StorageInv, TypeOK
<1>1. bufferSize \in Nat /\ capacity_ \in Nat /\ allocated \in Nat /\ 2 ^ SizeBits \in Nat
  BY StorageAssumption DEF Sizes
<1>2. Padding \in Nat
  BY PaddingType
<1>3. capacity_ = SizeT(bufferSize + 1)
  BY DEF Capacities
<1>4. Fits <=> bufferSize + 1 + 2 * Padding < 2 ^ SizeBits
  BY DEF Fits
<1>5. CASE bufferSize + 1 >= 2 ^ SizeBits
  <2>1. capacity_ <= bufferSize + 1 - 2 ^ SizeBits
    BY <1>1, <1>3, <1>5, SizeTWraps
  <2>2. 2 ^ SizeBits # 0
    BY StorageAssumption
  <2>3. capacity_ < bufferSize + 1
    BY <1>1, <2>1, <2>2
  <2>4. ~Fits
    BY <1>1, <1>2, <1>4, <1>5
  <2> QED
    BY <1>1, <2>3, <2>4
<1>6. CASE bufferSize + 1 < 2 ^ SizeBits
  <2>1. capacity_ = bufferSize + 1
    BY <1>1, <1>3, <1>6, SizeTType
  <2>2. allocated = SizeT(capacity_ + 2 * Padding) /\ capacity_ + 2 * Padding \in Nat
    BY <1>1, <1>2
  <2>3. Fits => allocated = capacity_ + 2 * Padding
    BY <1>4, <2>1, <2>2, SizeTType
  <2>4. ~Fits => capacity_ + 2 * Padding >= 2 ^ SizeBits
    BY <1>1, <1>2, <1>4, <2>1
  <2> QED
    BY <1>1, <2>1, <2>2, <2>3, <2>4, SizeTWraps
<1> QED
  BY <1>1, <1>5, <1>6

\* StorageInv tells which requests get storage for their slots.
LEMMA StorageInvSlots == StorageInv => SlotsAreAllocated
<1> SUFFICES ASSUME StorageInv, at = "live"
             PROVE  (Fits => Holds) /\ (class.ring = "slack" /\ ~Fits => ~Holds)
  BY DEF SlotsAreAllocated
<1> USE DEF StorageInv, TypeOK
<1>1. bufferSize \in Nat /\ capacity_ \in Nat /\ allocated \in Nat /\ 2 ^ SizeBits \in Nat
  BY StorageAssumption DEF Sizes
<1>2. Padding \in Nat /\ Padding < 2 ^ SizeBits /\ buffer_ = Padding
  BY PaddingType
<1>3. CASE class.ring = "slack"
  BY <1>1, <1>2, <1>3, SlackRing DEF Holds
<1>4. CASE class.ring # "slack"
  <2>1. Padding = 0 /\ class.ring \in {"exact", "bit_ceil"}
    BY <1>4, RingType DEF Padding
  <2>2. Fits => bufferSize <= capacity_
    <3>1. CASE class.ring = "exact"
      BY <1>1, <3>1 DEF Capacities
    <3>2. CASE class.ring = "bit_ceil"
      <4>1. Fits <=> 2 * bufferSize <= 2 ^ SizeBits
        BY <3>2 DEF Fits
      <4>2. Fits => Capacities(class.ring) = PowersOfTwo \cap (bufferSize .. 2 * bufferSize - 1)
        BY <1>1, <3>2, <4>1 DEF Capacities
      <4> QED
        BY <1>1, <4>2
    <3> QED
      BY <2>1, <3>1, <3>2
  <2>3. allocated = capacity_
    <3>1. capacity_ + 2 * Padding = capacity_ /\ capacity_ < 2 ^ SizeBits
      BY <1>1, <2>1 DEF Sizes
    <3> QED
      BY <1>1, <3>1, SizeTType
  <2> QED
    BY <1>1, <1>2, <1>4, <2>1, <2>2, <2>3 DEF Holds
<1> QED
  BY <1>3, <1>4

\* Each object the constructors build has storage for its slots exactly when
\* its argument fits: SPSCBuffer.hpp:31 to 41.
THEOREM SlotsInvariance == Spec => []SlotsAreAllocated
BY StorageInvariance, StorageInvSlots, PTL

\* Scalar part of the zone: p elements of the given size cover a line on both
\* sides of cap more.
LEMMA ZoneArithmetic ==
    ASSUME NEW p \in Nat, NEW cap \in Nat, NEW size \in Nat, NEW address \in Nat,
           address >= 1, p * size >= cacheLineSize
    PROVE  LET first == address + p * size
               last  == address + (p + cap) * size - 1
               end   == address + (cap + 2 * p) * size
           IN  /\ first \in Nat /\ last \in Nat /\ end \in Nat /\ address - 1 \in Nat
               /\ (address - 1) + cacheLineSize <= first /\ last + cacheLineSize <= end
<1>1. p * size \in Nat /\ cap * size \in Nat
  OBVIOUS
<1>2. (p + cap) * size = p * size + cap * size
  OBVIOUS
<1>3. (cap + 2 * p) * size = cap * size + p * size + p * size
  OBVIOUS
<1> QED
  BY <1>1, <1>2, <1>3, StorageAssumption

\* StorageInv implies that the slots' first and last lines are the buffer's own.
LEMMA StorageInvZone == StorageInv => ExclusionZone
<1> SUFFICES ASSUME StorageInv, at = "live", class.padded, Fits,
                    NEW address \in 1 .. cacheLineSize
             PROVE  /\ (address + buffer_ * elementSize) \div cacheLineSize
                          > (address - 1) \div cacheLineSize
                    /\ (address + (buffer_ + capacity_) * elementSize - 1) \div cacheLineSize
                          < (address + allocated * elementSize) \div cacheLineSize
  BY DEF ExclusionZone
<1>1. class.ring = "slack"
  BY RingType DEF StorageInv, TypeOK
<1>2. capacity_ \in Nat /\ buffer_ = Padding /\ allocated = capacity_ + 2 * Padding
  BY <1>1, SlackRing
<1>3. elementSize \in Nat \ {0} /\ Padding = padding(elementSize)
  BY StorageAssumption DEF StorageInv, TypeOK, Padding
<1>4. Padding \in Nat /\ Padding * elementSize >= cacheLineSize
  BY <1>3, PaddingCoversLine
<1>5. address \in Nat /\ address >= 1
  BY StorageAssumption
<1> DEFINE first == address + Padding * elementSize
           last  == address + (Padding + capacity_) * elementSize - 1
           end   == address + (capacity_ + 2 * Padding) * elementSize
<1>6. /\ first \in Nat /\ last \in Nat /\ end \in Nat /\ address - 1 \in Nat
      /\ (address - 1) + cacheLineSize <= first /\ last + cacheLineSize <= end
  BY <1>2, <1>3, <1>4, <1>5, ZoneArithmetic
<1> HIDE DEF first, last, end
<1>7. /\ (address - 1) \div cacheLineSize < first \div cacheLineSize
      /\ last \div cacheLineSize < end \div cacheLineSize
  BY <1>6, LinesApart
<1>8. /\ (address - 1) \div cacheLineSize \in Nat /\ first \div cacheLineSize \in Nat
  BY <1>6, DivMod, StorageAssumption
<1> QED
  BY <1>2, <1>7, <1>8 DEF first, last, end

\* README.md:83 and 95, for every element size, line size and address: no line
\* of the slots at either end holds a byte of anything else.
THEOREM ExclusionZoneInvariance == Spec => []ExclusionZone
BY StorageInvariance, StorageInvZone, PTL

\* The destructor gives back what the constructor allocated (SPSCBuffer.hpp:40
\* and 56), for every argument.
THEOREM FreedInvariance == Spec => []FreedAsAllocated
<1>1. StorageInv => FreedAsAllocated
  BY DEF StorageInv, FreedAsAllocated
<1> QED
  BY <1>1, StorageInvariance, PTL

\* Every variable keeps its type.
THEOREM StorageTypeOK == Spec => []TypeOK
<1>1. StorageInv => TypeOK
  BY DEF StorageInv
<1> QED
  BY <1>1, StorageInvariance, PTL

-----------------------------------------------------------------------------
(* The members of the objects.                                             *)

\* The producer's words come before the consumer's cursor, the consumer's
\* words do not.
LEMMA MembersInOrder ==
    ASSUME NEW c
    PROVE  /\ Len(Members(c)) \in 1 .. 8
           /\ \E p \in 2 .. Len(Members(c)) :
                /\ Members(c)[p] = "popCursor_"
                /\ \A i \in 1 .. Len(Members(c)) :
                      /\ Members(c)[i] \in ProducerWrites => i < p
                      /\ Members(c)[i] \in ConsumerWrites => p <= i
<1> DEFINE front == IF c.padded THEN <<"rawBuffer_", "buffer_">> ELSE <<"buffer_">>
           words == IF c.cached THEN WithCaches ELSE Cursors
           last  == <<"capacity_", "closed_">>
           names == {"rawBuffer_", "buffer_", "pushCursor_", "popCursorCache_",
                     "popCursor_", "pushCursorCache_", "capacity_", "closed_"}
<1>1. front \in Seq(names) /\ words \in Seq(names) /\ last \in Seq(names)
  <2>1. WithCaches \in Seq(names) /\ Cursors \in Seq(names)
    BY DEF WithCaches, Cursors
  <2>2. /\ <<"rawBuffer_", "buffer_">> \in Seq(names) /\ <<"buffer_">> \in Seq(names)
        /\ <<"capacity_", "closed_">> \in Seq(names)
    OBVIOUS
  <2> HIDE DEF names
  <2> QED
    BY <2>1, <2>2
<1>2. /\ Len(front) = (IF c.padded THEN 2 ELSE 1)
      /\ Len(words) = (IF c.cached THEN 4 ELSE 2)
      /\ Len(last) = 2
  BY DEF WithCaches, Cursors
<1>3. \A i \in 1 .. Len(front) : front[i] \notin ProducerWrites \cup ConsumerWrites
  BY DEF ProducerWrites, ConsumerWrites
<1>4. \A i \in 1 .. Len(last) : last[i] \notin ProducerWrites \cup ConsumerWrites
  BY DEF ProducerWrites, ConsumerWrites
<1>5. \E p \in 2 .. Len(words) :
         /\ words[p] = "popCursor_"
         /\ \A i \in 1 .. Len(words) : /\ words[i] \in ProducerWrites => i < p
                                       /\ words[i] \in ConsumerWrites => p <= i
  <2>1. CASE c.cached
    <3>1. words = WithCaches
      BY <2>1
    <3> QED
      BY <3>1, <1>2 DEF WithCaches, ProducerWrites, ConsumerWrites
  <2>2. CASE ~c.cached
    <3>1. words = Cursors
      BY <2>2
    <3> QED
      BY <3>1 DEF Cursors, ProducerWrites, ConsumerWrites
  <2> QED
    BY <2>1, <2>2
<1>6. Members(c) = front \o words \o last
  BY DEF Members
<1> HIDE DEF front, words, last, names
<1> DEFINE left == front \o words
<1>7. /\ left \in Seq(names) /\ Len(left) = Len(front) + Len(words)
      /\ \A i \in 1 .. Len(left) :
            left[i] = IF i <= Len(front) THEN front[i] ELSE words[i - Len(front)]
  BY <1>1, ConcatProperties
<1>8. /\ Len(Members(c)) = Len(left) + Len(last)
      /\ \A i \in 1 .. Len(Members(c)) :
            Members(c)[i] = IF i <= Len(left) THEN left[i] ELSE last[i - Len(left)]
  <2>1. Members(c) = left \o last
    BY <1>6
  <2> HIDE DEF left
  <2>2. /\ Len(left \o last) = Len(left) + Len(last)
        /\ \A i \in 1 .. Len(left) + Len(last) :
               (left \o last)[i] = IF i <= Len(left) THEN left[i] ELSE last[i - Len(left)]
    <3>1. left \in Seq(names) /\ last \in Seq(names)
      BY <1>1, <1>7
    <3> HIDE DEF last
    <3> QED
      BY <3>1, ConcatProperties, Zenon
  <2> QED
    BY <2>1, <2>2, Zenon
<1> HIDE DEF left
<1>9. PICK p \in 2 .. Len(words) :
         /\ words[p] = "popCursor_"
         /\ \A i \in 1 .. Len(words) : /\ words[i] \in ProducerWrites => i < p
                                       /\ words[i] \in ConsumerWrites => p <= i
  BY <1>5
<1>10. /\ Len(front) \in Nat /\ Len(words) \in Nat
       /\ Len(Members(c)) = Len(front) + Len(words) + 2 /\ Len(Members(c)) \in 1 .. 8
  BY <1>2, <1>7, <1>8
<1>11. Members(c)[Len(front) + p] = "popCursor_"
  BY <1>7, <1>8, <1>9, <1>10
<1>12. ASSUME NEW i \in 1 .. Len(Members(c)), Members(c)[i] \in ProducerWrites \cup ConsumerWrites
       PROVE  /\ i - Len(front) \in 1 .. Len(words)
              /\ Members(c)[i] = words[i - Len(front)]
  <2>1. i > Len(front)
    BY <1>3, <1>7, <1>8, <1>10, <1>12
  <2>2. i <= Len(left)
    BY <1>2, <1>4, <1>7, <1>8, <1>10, <1>12
  <2> QED
    BY <1>7, <1>8, <1>10, <2>1, <2>2
<1>13. ASSUME NEW i \in 1 .. Len(Members(c))
       PROVE  /\ Members(c)[i] \in ProducerWrites => i < Len(front) + p
              /\ Members(c)[i] \in ConsumerWrites => Len(front) + p <= i
  BY <1>9, <1>10, <1>12
<1>14. Len(front) + p \in 2 .. Len(Members(c))
  BY <1>9, <1>10
<1> QED
  BY <1>10, <1>11, <1>13, <1>14

\* The recursion of Offsets is defined.
LEMMA OffsetsDef ==
    ASSUME NEW c, Len(Members(c)) \in 1 .. 8
    PROVE  Offsets(c) = [k \in 1 .. Len(Members(c)) |->
               IF k = 1 THEN 0 ELSE Place(c, Offsets(c)[k - 1] + WordSize, Members(c)[k])]
<1> DEFINE n == Len(Members(c))
           F(f) == [k \in 1 .. n |->
                      IF k = 1 THEN 0 ELSE Place(c, f[k - 1] + WordSize, Members(c)[k])]
           next(o, k) == Place(c, o + WordSize, Members(c)[k])
           o2 == next(0, 2)
           o3 == next(o2, 3)
           o4 == next(o3, 4)
           o5 == next(o4, 5)
           o6 == next(o5, 6)
           o7 == next(o6, 7)
           o8 == next(o7, 8)
           g == [k \in 1 .. n |-> <<0, o2, o3, o4, o5, o6, o7, o8>>[k]]
<1>0. n \in 1 .. 8
  OBVIOUS
<1>1. Offsets(c) = CHOOSE f : f = F(f)
  BY Zenon DEF Offsets
<1> HIDE DEF n
<1>2. g = F(g)
  <2>1. ASSUME NEW k \in 1 .. n
        PROVE  g[k] = IF k = 1 THEN 0 ELSE next(g[k - 1], k)
    <3>1. k = 1 \/ k = 2 \/ k = 3 \/ k = 4 \/ k = 5 \/ k = 6 \/ k = 7 \/ k = 8
      BY <1>0
    <3>2. k # 1 => k - 1 \in 1 .. n
      BY <1>0
    <3>3. CASE k = 1
      BY <3>3
    <3>4. CASE k # 1
      <4>1. g[k - 1] = <<0, o2, o3, o4, o5, o6, o7, o8>>[k - 1] /\ g[k] = <<0, o2, o3, o4, o5, o6, o7, o8>>[k]
        BY <3>2, <3>4
      <4> HIDE DEF g, next
      <4> QED
        BY <3>1, <3>4, <4>1
    <3> QED
      BY <3>3, <3>4
  <2> HIDE DEF g
  <2>2. g = [k \in 1 .. n |-> g[k]]
    BY DEF g
  <2> QED
    BY <2>1, <2>2
<1> HIDE DEF g, F
<1>3. (CHOOSE f : f = F(f)) = F(CHOOSE f : f = F(f))
  BY <1>2
<1> QED
  BY <1>1, <1>3, Zenon DEF F, n

\* A place is not before the end of the previous member.
LEMMA PlaceFacts ==
    ASSUME NEW c, NEW o \in Nat, NEW m
    PROVE  /\ Place(c, o, m) \in Nat /\ o <= Place(c, o, m)
           /\ Aligned(c, m) => \E q \in Nat : Place(c, o, m) = cacheLineSize * q
<1> DEFINE n == o + cacheLineSize - 1
           q == n \div cacheLineSize
<1>1. n \in Nat /\ cacheLineSize \in Nat \ {0}
  BY StorageAssumption
<1>2. /\ n = (cacheLineSize * q) + (n % cacheLineSize)
      /\ n % cacheLineSize \in 0 .. cacheLineSize - 1 /\ q \in Nat
  BY <1>1, DivMod
<1>3. Place(c, o, m) = IF Aligned(c, m) THEN q * cacheLineSize ELSE o
  BY DEF Place
<1>4. cacheLineSize * q \in Nat /\ q * cacheLineSize = cacheLineSize * q
  BY <1>1, <1>2
<1> HIDE DEF q
<1>5. o <= cacheLineSize * q
  BY <1>1, <1>2, <1>4
<1> QED
  BY <1>2, <1>3, <1>4, <1>5

\* The members follow each other.
LEMMA OffsetsIncrease ==
    ASSUME NEW c, Len(Members(c)) \in 1 .. 8
    PROVE  /\ \A k \in 1 .. Len(Members(c)) : Offsets(c)[k] \in Nat
           /\ \A j, k \in 1 .. Len(Members(c)) : j < k => Offsets(c)[j] < Offsets(c)[k]
           /\ \A k \in 2 .. Len(Members(c)) : Aligned(c, Members(c)[k]) =>
                  \E q \in Nat : Offsets(c)[k] = cacheLineSize * q
<1> DEFINE n == Len(Members(c))
           f == Offsets(c)
<1>1. f[1] = 0 /\ \A k \in 2 .. n : f[k] = Place(c, f[k - 1] + WordSize, Members(c)[k])
  BY OffsetsDef
<1>3. n \in 1 .. 8
  OBVIOUS
<1> HIDE DEF n, f
<1>2. ASSUME NEW k \in 2 .. n, f[k - 1] \in Nat
      PROVE  /\ f[k] \in Nat /\ f[k - 1] < f[k]
             /\ Aligned(c, Members(c)[k]) => \E q \in Nat : f[k] = cacheLineSize * q
  <2>1. f[k - 1] + WordSize \in Nat /\ f[k - 1] < f[k - 1] + WordSize
    BY <1>2 DEF WordSize
  <2>2. f[k] = Place(c, f[k - 1] + WordSize, Members(c)[k])
    BY <1>1
  <2> DEFINE o == f[k - 1] + WordSize
             m == Members(c)[k]
  <2>3. /\ Place(c, o, m) \in Nat /\ o <= Place(c, o, m)
        /\ Aligned(c, m) => \E q \in Nat : Place(c, o, m) = cacheLineSize * q
    <3> HIDE DEF o, m
    <3> QED
      BY <2>1, PlaceFacts DEF o
  <2> HIDE DEF m
  <2> QED
    BY <1>2, <2>1, <2>2, <2>3 DEF m
<1>4. \A k \in 1 .. n : f[k] \in Nat
  BY <1>1, <1>2, <1>3
<1>5. \A j, k \in 1 .. n : j < k => f[j] < f[k]
  BY <1>2, <1>3, <1>4
<1> QED
  BY <1>2, <1>4, <1>5, <1>3 DEF n, f

\* Bytes on both sides of the start of a line.
LEMMA LineStarts ==
    ASSUME NEW a \in Nat, NEW b \in Nat, NEW q \in Nat,
           a < cacheLineSize * q, cacheLineSize * q <= b
    PROVE  a \div cacheLineSize # b \div cacheLineSize
<1> DEFINE p == a \div cacheLineSize
           r == b \div cacheLineSize
<1>1. /\ a = (cacheLineSize * p) + (a % cacheLineSize)
      /\ a % cacheLineSize \in 0 .. cacheLineSize - 1 /\ p \in Nat
  BY DivMod, StorageAssumption
<1>2. /\ b = (cacheLineSize * r) + (b % cacheLineSize)
      /\ b % cacheLineSize \in 0 .. cacheLineSize - 1 /\ r \in Nat
  BY DivMod, StorageAssumption
<1> HIDE DEF p, r
<1>3. cacheLineSize * p \in Nat /\ cacheLineSize * q \in Nat /\ cacheLineSize * r \in Nat
  BY <1>1, <1>2, StorageAssumption
<1>4. p < q
  <2>1. CASE q < p
    BY <1>1, <1>3, <2>1, MultiplesApart, StorageAssumption
  <2>2. CASE q = p
    BY <1>1, <1>3, <2>2
  <2> QED
    BY <1>1, <2>1, <2>2
<1>5. q <= r
  <2>1. CASE r < q
    <3>1. cacheLineSize * r + cacheLineSize <= cacheLineSize * q
      BY <1>2, <2>1, MultiplesApart, StorageAssumption
    <3> QED
      BY <1>2, <1>3, <3>1, StorageAssumption
  <2> QED
    BY <1>2, <2>1
<1> QED
  BY <1>1, <1>2, <1>4, <1>5 DEF p, r

\* Before and after the aligned cursor of the consumer.
LEMMA LinesOfWords ==
    ASSUME NEW c, c.alignedCursors,
           NEW i \in 1 .. Len(Members(c)), Members(c)[i] \in ProducerWrites,
           NEW j \in 1 .. Len(Members(c)), Members(c)[j] \in ConsumerWrites
    PROVE  LineOf(c, Members(c)[i]) # LineOf(c, Members(c)[j])
<1> DEFINE n == Len(Members(c))
           f == Offsets(c)
           index(m) == CHOOSE k \in 1 .. n : Members(c)[k] = m
<1>1. PICK p \in 2 .. n :
         /\ Members(c)[p] = "popCursor_"
         /\ \A k \in 1 .. n : /\ Members(c)[k] \in ProducerWrites => k < p
                              /\ Members(c)[k] \in ConsumerWrites => p <= k
  BY MembersInOrder
<1>2. n \in 1 .. 8
  BY MembersInOrder
<1>3. PICK q \in Nat : f[p] = cacheLineSize * q
  <2>1. Aligned(c, Members(c)[p])
    BY <1>1 DEF Aligned
  <2> QED
    BY <1>2, <2>1, OffsetsIncrease
<1>4. /\ \A k \in 1 .. n : f[k] \in Nat
      /\ \A k, l \in 1 .. n : k < l => f[k] < f[l]
  BY <1>2, OffsetsIncrease
<1> DEFINE a == index(Members(c)[i])
           b == index(Members(c)[j])
<1>5. a \in 1 .. n /\ Members(c)[a] = Members(c)[i]
  OBVIOUS
<1>6. b \in 1 .. n /\ Members(c)[b] = Members(c)[j]
  OBVIOUS
<1>7. LineOf(c, Members(c)[i]) = f[a] \div cacheLineSize /\ LineOf(c, Members(c)[j]) = f[b] \div cacheLineSize
  BY DEF LineOf
<1> HIDE DEF n, f, a, b
<1>8. a < p /\ p <= b
  BY <1>1, <1>5, <1>6
<1>9. f[a] < cacheLineSize * q /\ cacheLineSize * q <= f[b]
  BY <1>1, <1>2, <1>3, <1>4, <1>5, <1>6, <1>8
<1> QED
  BY <1>4, <1>5, <1>6, <1>7, <1>9, LineStarts

\* README.md:79 and 81, for lines of any size: no word the producer writes
\* lies on a line of one the consumer writes.
THEOREM NoFalseSharingInvariance == Spec => []NoFalseSharing
<1>1. NoFalseSharing
  BY LinesOfWords DEF NoFalseSharing
<1> QED
  BY <1>1, PTL
=============================================================================
