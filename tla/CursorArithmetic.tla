-------------------------- MODULE CursorArithmetic --------------------------
(***************************************************************************)
(* Cursor arithmetic of the ring buffers over an array of cap slots.       *)
(***************************************************************************)
EXTENDS Integers

\* Where the n-th element (counted from 0) of a stream lives in the ring.
RingSlot(n, cap) == n % cap

\* Mutant: the wrap test is off by one.
BranchPastEnd(c, cap) == IF c = cap THEN 0 ELSE c + 1

\* Advance by branch: SPSCBuffer, Stage5, Stage6, BranchWrapIndices.
BranchNext(c, cap) == IF c + 1 = cap THEN 0 ELSE c + 1

\* Advance by modulus: Baseline, Stage1 to Stage4 and the other variants
\* whose cursors stay below the capacity.
ModulusNext(c, cap) == (c + 1) % cap

\* The elements a ring holds when lo have been popped and hi pushed, oldest
\* first: element n is the number n.
Elements(lo, hi) == [n \in 1 .. hi - lo |-> lo + n]
=============================================================================
