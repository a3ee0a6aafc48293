----------------------- MODULE CursorArithmeticProofs -----------------------
(***************************************************************************)
(* Facts about cursors that hold for every capacity.                       *)
(***************************************************************************)
EXTENDS CursorArithmetic, SequenceTheorems, TLAPS

\* Quotient and remainder of a natural number by a positive one.
LEMMA DivMod ==
    ASSUME NEW cap \in Nat \ {0}, NEW n \in Nat
    PROVE  /\ n = (cap * (n \div cap)) + (n % cap)
           /\ n % cap \in 0 .. cap - 1
           /\ n \div cap \in Nat
OBVIOUS

\* Multiples of cap are at least cap apart.
LEMMA MultiplesApart ==
    ASSUME NEW cap \in Nat \ {0}, NEW p \in Nat, NEW q \in Nat, p < q
    PROVE  cap * p + cap <= cap * q
<1>1. PICK d \in Nat : q = p + 1 + d
  BY SMT
<1>2. cap * q = cap * p + cap + cap * d
  BY <1>1
<1>3. cap * d \in Nat /\ cap * p \in Nat
  OBVIOUS
<1> QED
  BY <1>2, <1>3

\* Quotient and remainder are unique.
LEMMA DivModUnique ==
    ASSUME NEW cap \in Nat \ {0}, NEW p \in Nat, NEW q \in Nat,
           NEW r \in 0 .. cap - 1, NEW s \in 0 .. cap - 1,
           cap * p + r = cap * q + s
    PROVE  p = q /\ r = s
<1>1. cap * p \in Nat /\ cap * q \in Nat
  OBVIOUS
<1>2. CASE p < q
  BY <1>1, <1>2, MultiplesApart
<1>3. CASE q < p
  BY <1>1, <1>3, MultiplesApart
<1> QED
  BY <1>1, <1>2, <1>3

\* Every element lives inside the ring.
LEMMA RingSlotType ==
    ASSUME NEW cap \in Nat \ {0}, NEW n \in Nat
    PROVE  RingSlot(n, cap) \in 0 .. cap - 1
BY DivMod DEF RingSlot

\* Element 0 lives in slot 0, where both cursors start.
LEMMA RingSlotZero ==
    ASSUME NEW cap \in Nat \ {0}
    PROVE  RingSlot(0, cap) = 0
BY DEF RingSlot

\* Advancing by branch (SPSCBuffer.hpp:64, 82 and 145) moves a cursor from the
\* slot of one element to the slot of the next.
LEMMA BranchNextIsSuccessor ==
    ASSUME NEW cap \in Nat \ {0}, NEW n \in Nat
    PROVE  RingSlot(n + 1, cap) = BranchNext(RingSlot(n, cap), cap)
<1> DEFINE q == n \div cap
           r == n % cap
           t == (n + 1) \div cap
           u == (n + 1) % cap
<1>1. n = (cap * q) + r /\ r \in 0 .. cap - 1 /\ q \in Nat
  BY DivMod
<1>2. n + 1 = (cap * t) + u /\ u \in 0 .. cap - 1 /\ t \in Nat
  <2>1. n + 1 \in Nat
    OBVIOUS
  <2> QED
    BY <2>1, DivMod
<1> HIDE DEF q, r, t, u
<1>3. CASE r + 1 = cap
  <2>1. cap * (q + 1) = cap * q + cap
    BY <1>1
  <2>2. cap * q \in Nat /\ cap * t \in Nat
    BY <1>1, <1>2
  <2>3. cap * (q + 1) + 0 = cap * t + u
    BY <1>1, <1>2, <1>3, <2>1, <2>2
  <2>4. u = 0
    BY <1>1, <1>2, <2>3, DivModUnique
  <2> QED
    BY <1>3, <2>4 DEF RingSlot, BranchNext, r, u
<1>4. CASE r + 1 # cap
  <2>1. cap * q \in Nat /\ cap * t \in Nat
    BY <1>1, <1>2
  <2>2. cap * q + (r + 1) = cap * t + u /\ r + 1 \in 0 .. cap - 1
    BY <1>1, <1>2, <1>4, <2>1
  <2>3. u = r + 1
    BY <1>1, <1>2, <2>2, DivModUnique
  <2> QED
    BY <1>4, <2>3 DEF RingSlot, BranchNext, r, u
<1> QED
  BY <1>3, <1>4

\* Advancing by branch and by modulus (the Baseline and Stage1 to Stage4) are
\* the same function of a cursor inside the ring.
THEOREM BranchNextIsModulusNext ==
    ASSUME NEW cap \in Nat \ {0}, NEW c \in 0 .. cap - 1
    PROVE  BranchNext(c, cap) = ModulusNext(c, cap)
BY DEF BranchNext, ModulusNext

\* Two elements less than cap apart never share a slot.
LEMMA RingSlotDistinct ==
    ASSUME NEW cap \in Nat \ {0}, NEW m \in Nat, NEW n \in Nat,
           m < n, n < m + cap
    PROVE  RingSlot(m, cap) # RingSlot(n, cap)
<1> SUFFICES ASSUME m % cap = n % cap
             PROVE  FALSE
  BY DEF RingSlot
<1> DEFINE p == m \div cap
           q == n \div cap
           r == m % cap
<1>1. m = (cap * p) + r /\ r \in 0 .. cap - 1 /\ p \in Nat
  BY DivMod
<1>2. n = (cap * q) + r /\ q \in Nat
  BY DivMod
<1> HIDE DEF p, q, r
<1>3. cap * p \in Nat /\ cap * q \in Nat
  BY <1>1, <1>2
<1>4. CASE p < q
  BY <1>1, <1>2, <1>3, <1>4, MultiplesApart
<1>5. CASE q < p
  BY <1>1, <1>2, <1>3, <1>5, MultiplesApart
<1>6. CASE p = q
  BY <1>1, <1>2, <1>6
<1> QED
  BY <1>1, <1>2, <1>4, <1>5, <1>6

\* Elements cap apart do share one.
LEMMA RingSlotWraps ==
    ASSUME NEW cap \in Nat \ {0}, NEW n \in Nat
    PROVE  RingSlot(n + cap, cap) = RingSlot(n, cap)
<1> DEFINE q == n \div cap
           r == n % cap
           t == (n + cap) \div cap
           u == (n + cap) % cap
<1>1. n = (cap * q) + r /\ r \in 0 .. cap - 1 /\ q \in Nat
  BY DivMod
<1>2. n + cap = (cap * t) + u /\ u \in 0 .. cap - 1 /\ t \in Nat
  <2>1. n + cap \in Nat
    OBVIOUS
  <2> QED
    BY <2>1, DivMod
<1> HIDE DEF q, r, t, u
<1>3. cap * q \in Nat /\ cap * t \in Nat /\ cap * (q + 1) = cap * q + cap
  BY <1>1, <1>2
<1>4. cap * (q + 1) + r = cap * t + u
  BY <1>1, <1>2, <1>3
<1>5. r = u
  BY <1>1, <1>2, <1>4, DivModUnique
<1> QED
  BY <1>5 DEF RingSlot, r, u

-----------------------------------------------------------------------------
(* Cursors that count modulo range, the number of values of their type.    *)

\* A slot survives the overflow of its cursor where cap divides range.
LEMMA SlotOfWrappedCursor ==
    ASSUME NEW range \in Nat \ {0}, NEW cap \in Nat \ {0}, NEW n \in Nat, range % cap = 0
    PROVE  RingSlot(n % range, cap) = RingSlot(n, cap)
<1> DEFINE q == n \div range
           c == n % range
           m == range \div cap
           p == c \div cap
           r == c % cap
           u == n \div cap
           v == n % cap
<1>1. n = (range * q) + c /\ c \in Nat /\ q \in Nat
  BY DivMod
<1>2. range = cap * m /\ m \in Nat
  <2>1. range = (cap * m) + 0 /\ m \in Nat
    BY DivMod
  <2> QED
    BY <2>1
<1>3. c = (cap * p) + r /\ r \in 0 .. cap - 1 /\ p \in Nat
  BY <1>1, DivMod
<1>4. n = (cap * u) + v /\ v \in 0 .. cap - 1 /\ u \in Nat
  BY DivMod
<1> HIDE DEF q, c, m, p, r, u, v
<1>5. range * q = cap * (m * q) /\ m * q \in Nat
  BY <1>1, <1>2
<1>6. PICK w \in Nat : cap * (m * q) + cap * p = cap * w
  <2>1. cap * (m * q) + cap * p = cap * (m * q + p) /\ m * q + p \in Nat
    BY <1>3, <1>5
  <2> QED
    BY <2>1
<1>7. cap * (m * q) \in Nat /\ cap * p \in Nat
  BY <1>3, <1>5
<1>8. cap * w + r = cap * u + v
  BY <1>1, <1>3, <1>4, <1>5, <1>6, <1>7
<1>9. r = v
  BY <1>3, <1>4, <1>8, DivModUnique
<1> QED
  BY <1>9 DEF RingSlot, r, c, v

\* Unsigned subtraction gives the distance of two counts, whichever of the
\* cursors have overflowed.
LEMMA DifferenceOfWrappedCursors ==
    ASSUME NEW range \in Nat \ {0}, NEW m \in Nat, NEW n \in Nat, m <= n, n - m < range
    PROVE  ((n % range) - (m % range)) % range = n - m
<1> DEFINE p == m \div range
           q == n \div range
           r == m % range
           s == n % range
<1>1. m = (range * p) + r /\ r \in 0 .. range - 1 /\ p \in Nat
  BY DivMod
<1>2. n = (range * q) + s /\ s \in 0 .. range - 1 /\ q \in Nat
  BY DivMod
<1> HIDE DEF p, q, r, s
<1>3. range * p \in Nat /\ range * q \in Nat /\ range * (p + 1) = range * p + range
  BY <1>1, <1>2
<1>4. CASE q = p
  <2>1. s - r = n - m /\ s - r \in 0 .. range - 1
    BY <1>1, <1>2, <1>3, <1>4
  <2> QED
    BY <2>1 DEF r, s
<1>5. CASE q = p + 1
  <2>1. s - r = (n - m) - range /\ n - m \in 0 .. range - 1
    BY <1>1, <1>2, <1>3, <1>5
  <2>2. ((n - m) - range) % range = n - m
    BY <2>1
  <2> QED
    BY <2>1, <2>2 DEF r, s
<1>6. CASE q < p
  BY <1>1, <1>2, <1>3, <1>6, MultiplesApart
<1>7. CASE p + 1 < q
  <2>1. range * (p + 1) + range <= range * q
    BY <1>1, <1>2, <1>7, MultiplesApart
  <2> QED
    BY <1>1, <1>2, <1>3, <2>1
<1> QED
  BY <1>1, <1>2, <1>4, <1>5, <1>6, <1>7

-----------------------------------------------------------------------------
(* The queue of the refinement mappings, as a sequence.                    *)

LEMMA ElementsAreAQueue ==
    ASSUME NEW lo \in Nat, NEW hi \in Nat, lo <= hi
    PROVE  /\ Elements(lo, hi) \in Seq(Nat) /\ Len(Elements(lo, hi)) = hi - lo
           /\ \A n \in 1 .. hi - lo : Elements(lo, hi)[n] = lo + n
           /\ Elements(lo, hi) = <<>> <=> lo = hi
<1>1. hi - lo \in Nat /\ \A n \in 1 .. hi - lo : lo + n \in Nat
  OBVIOUS
<1>2. Elements(lo, hi) \in Seq(Nat) /\ Len(Elements(lo, hi)) = hi - lo
  BY <1>1 DEF Elements
<1>3. \A n \in 1 .. hi - lo : Elements(lo, hi)[n] = lo + n
  BY DEF Elements
<1>4. Elements(lo, hi) = <<>> <=> Len(Elements(lo, hi)) = 0
  BY <1>2, EmptySeq
<1> QED
  BY <1>1, <1>2, <1>3, <1>4

\* A push appends the next element, a pop removes the oldest.
LEMMA ElementsPushPop ==
    ASSUME NEW lo \in Nat, NEW hi \in Nat, lo <= hi
    PROVE  /\ Elements(lo, hi + 1) = Append(Elements(lo, hi), hi + 1)
           /\ lo < hi => /\ Head(Elements(lo, hi)) = lo + 1
                         /\ Elements(lo + 1, hi) = Tail(Elements(lo, hi))
<1>1. /\ Elements(lo, hi) \in Seq(Nat) /\ Len(Elements(lo, hi)) = hi - lo
      /\ \A n \in 1 .. hi - lo : Elements(lo, hi)[n] = lo + n
      /\ Elements(lo, hi) = <<>> <=> lo = hi
  BY ElementsAreAQueue
<1>2. Elements(lo, hi + 1) = Append(Elements(lo, hi), hi + 1)
  <2>1. /\ Elements(lo, hi + 1) \in Seq(Nat) /\ Len(Elements(lo, hi + 1)) = (hi + 1) - lo
        /\ \A n \in 1 .. (hi + 1) - lo : Elements(lo, hi + 1)[n] = lo + n
    BY ElementsAreAQueue
  <2>2. /\ Append(Elements(lo, hi), hi + 1) \in Seq(Nat)
        /\ Len(Append(Elements(lo, hi), hi + 1)) = (hi - lo) + 1
        /\ \A n \in 1 .. hi - lo : Append(Elements(lo, hi), hi + 1)[n] = lo + n
        /\ Append(Elements(lo, hi), hi + 1)[(hi - lo) + 1] = hi + 1
    BY <1>1, AppendProperties
  <2>3. ASSUME NEW n \in 1 .. (hi + 1) - lo
        PROVE  Elements(lo, hi + 1)[n] = Append(Elements(lo, hi), hi + 1)[n]
    <3>1. CASE n = (hi - lo) + 1
      BY <2>1, <2>2, <3>1
    <3>2. CASE n # (hi - lo) + 1
      <4>1. n \in 1 .. hi - lo
        BY <3>2
      <4> QED
        BY <2>1, <2>2, <4>1
    <3> QED
      BY <3>1, <3>2
  <2>4. Len(Elements(lo, hi + 1)) = Len(Append(Elements(lo, hi), hi + 1))
    BY <2>1, <2>2
  <2>5. \A n \in 1 .. Len(Elements(lo, hi + 1)) :
            Elements(lo, hi + 1)[n] = Append(Elements(lo, hi), hi + 1)[n]
    BY <2>1, <2>3
  <2>6. Elements(lo, hi + 1) \in Seq(Nat) /\ Append(Elements(lo, hi), hi + 1) \in Seq(Nat)
    BY <2>1, <2>2
  <2> QED
    BY <2>4, <2>5, <2>6, SeqEqual
<1>3. ASSUME lo < hi
      PROVE  /\ Head(Elements(lo, hi)) = lo + 1
             /\ Elements(lo + 1, hi) = Tail(Elements(lo, hi))
  <2>1. Elements(lo, hi) # <<>>
    BY <1>1, <1>3
  <2>2. Head(Elements(lo, hi)) = Elements(lo, hi)[1]
    BY <1>1, <2>1, HeadTailProperties
  <2>3. /\ Elements(lo + 1, hi) \in Seq(Nat) /\ Len(Elements(lo + 1, hi)) = hi - (lo + 1)
        /\ \A n \in 1 .. hi - (lo + 1) : Elements(lo + 1, hi)[n] = (lo + 1) + n
    <3>1. lo + 1 \in Nat /\ lo + 1 <= hi
      BY <1>3
    <3> QED
      BY <3>1, ElementsAreAQueue
  <2>4. /\ Tail(Elements(lo, hi)) \in Seq(Nat) /\ Len(Tail(Elements(lo, hi))) = (hi - lo) - 1
        /\ \A n \in 1 .. Len(Tail(Elements(lo, hi))) : Tail(Elements(lo, hi))[n] = Elements(lo, hi)[n + 1]
    BY <1>1, <2>1, HeadTailProperties
  <2>5. ASSUME NEW n \in 1 .. hi - (lo + 1)
        PROVE  Elements(lo + 1, hi)[n] = Tail(Elements(lo, hi))[n]
    <3>1. n + 1 \in 1 .. hi - lo /\ n \in 1 .. (hi - lo) - 1
      BY <1>3
    <3>2. Elements(lo, hi)[n + 1] = lo + (n + 1)
      BY <1>1, <3>1
    <3> QED
      BY <2>3, <2>4, <3>1, <3>2
  <2>6. Len(Elements(lo + 1, hi)) = Len(Tail(Elements(lo, hi)))
    BY <2>3, <2>4
  <2>7. \A n \in 1 .. Len(Elements(lo + 1, hi)) : Elements(lo + 1, hi)[n] = Tail(Elements(lo, hi))[n]
    BY <2>3, <2>5
  <2>8. Elements(lo + 1, hi) \in Seq(Nat) /\ Tail(Elements(lo, hi)) \in Seq(Nat)
    BY <2>3, <2>4
  <2>9. Elements(lo + 1, hi) = Tail(Elements(lo, hi))
    BY <2>6, <2>7, <2>8, SeqEqual
  <2>10. Elements(lo, hi)[1] = lo + 1
    BY <1>1, <1>3
  <2> QED
    BY <2>2, <2>9, <2>10
<1> QED
  BY <1>2, <1>3
=============================================================================
