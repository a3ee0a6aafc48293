--------------------------- MODULE AcquireRelease ---------------------------
(***************************************************************************)
(* The part of the C++ memory model that the lock-free buffers rely on.    *)
(* Every std::atomic of this repository has ONE writing thread at a time,  *)
(* so it is represented by its modification order: the nonempty sequence   *)
(* of the messages stored to it, oldest first.  A message carries the      *)
(* value and the view its store releases.                                  *)
(*                                                                         *)
(* A view describes what a thread knows (happens-before) of the OTHER      *)
(* thread:                                                                 *)
(*   at : position in the other thread's cursor below which it can no      *)
(*        longer read (read-read and write-read coherence),                *)
(*   hb : how many slot accesses of the other thread happen before it.     *)
(* A load may return any message that is not hidden by coherence: this is  *)
(* how a relaxed or acquire load can be stale.                             *)
(***************************************************************************)
EXTENDS Naturals, Sequences

View == [at : Nat, hb : Nat]

Messages(V) == [val : V, view : View]

Larger(a, b) == IF a >= b THEN a ELSE b

\* Everything known through v or through w.
JoinViews(v, w) == [at |-> Larger(v.at, w.at), hb |-> Larger(v.hb, w.hb)]

\* The modification order of an atomic just initialised with value v,
\* before any thread that shares it is started.
Initialised(v, view) == << [val |-> v, view |-> view] >>

\* The value the only writer of mo reads from it, whatever order it asks for.
Latest(mo) == mo[Len(mo)].val

\* The messages of mo a thread whose view starts at position at may read.
Readable(mo, at) == at .. Len(mo)

\* Mutant: store(v, memory_order_relaxed) publishes nothing.
StoreRelaxed(mo, v, view) == Append(mo, [val |-> v, view |-> [at |-> 0, hb |-> 0]])

\* store(v, memory_order_release) by a thread that publishes view.
StoreRelease(mo, v, view) == Append(mo, [val |-> v, view |-> view])

\* The view after load(memory_order_acquire) returned message i of mo, when
\* view.at is a position in mo.
AcquireCursor(view, mo, i) ==
    JoinViews([view EXCEPT !.at = Larger(@, i)], mo[i].view)

\* Mutant: the flag is loaded with memory_order_relaxed.
LoadFlagRelaxed(view, mo, i) == view

\* The same for an atomic other than the cursor view.at speaks of.
AcquireFlag(view, mo, i) == JoinViews(view, mo[i].view)
=============================================================================
