-------------------------- MODULE SPSCBufferSafety --------------------------
(***************************************************************************)
(* The properties of SPSCBuffer, and the inductive invariant behind them.  *)
(***************************************************************************)
EXTENDS SPSCBuffer

PushSlot == Latest(pushCursor_)   \* where the next element is constructed
PopSlot  == Latest(popCursor_)    \* where front() points

\* Every variable has the type the code gives it.
TypeOK ==
    /\ variant \in Variants
    /\ pushCursor_ \in Seq(Messages(Cursors)) /\ pushCursor_ # <<>>
    /\ popCursor_ \in Seq(Messages(Cursors)) /\ popCursor_ # <<>>
    /\ closed_ \in Seq(Messages(BOOLEAN)) /\ closed_ # <<>>
    /\ slot \in [Cursors -> Nat] /\ lastDestroy \in [Cursors -> Nat]
    /\ prod \in Producer /\ prod.view.at \in 1 .. Len(popCursor_)
    /\ cons \in Consumer /\ cons.view.at \in 1 .. Len(pushCursor_)
    /\ cons.closedAt \in 1 .. Len(closed_)
    /\ phase \in {"live", "dtor", "freed"}

\* No two threads touch a slot without a happens-before edge between them:
\* construct_at (lines 72, 96) comes after the destroy_at that last emptied
\* the slot, and a read through front() or destroy_at (line 143) comes after
\* the construct_at that filled it.  The release stores (75, 99, 146) and the
\* acquire loads (69, 88, 125) are all that orders them.
NoDataRace ==
    /\ prod.pc = "construct" => lastDestroy[PushSlot] <= prod.view.hb
    /\ cons.front = "item" \/ cons.pc = "destroy" => slot[PopSlot] <= cons.view.hb

\* An element is only constructed in raw storage (lines 72, 96): deciding on
\* a stale popCursorCache_ never overwrites one that is still alive.
ConstructsInRawStorage == prod.pc = "construct" => slot[PushSlot] = Raw

\* The element front() designates (line 133) and pop() destroys (line 143) is
\* alive and the oldest not yet popped, whatever the producer has done since.
FrontIsOldest ==
    cons.front = "item" \/ cons.pc \in {"assert", "destroy"} => slot[PopSlot] = Popped + 1

\* The assertion of pop() (line 141) holds whichever message its load reads.
AssertNeverFires == cons.pc # "aborted"

\* The destructor (lines 49 to 57) frees the storage only after every element
\* ever constructed has been destroyed, each once and in order.
NoElementLeaks == phase = "freed" => slot = [c \in Cursors |-> Raw] /\ Popped = Pushed

\* try_emplace returns false; front() returns null.
Refuses    == prod.pc = "refresh" /\ prod'.pc = "idle"
FindsEmpty == cons.pc = "refresh" /\ cons'.pc = "idle" /\ cons'.front = "null"

\* try_emplace (line 92) only refuses when the pops it has seen leave exactly
\* capacity() elements: the slack slot costs no usable capacity.
RefusesOnlyWhenFull == [][Refuses => Pushed - (prod'.view.at - 1) = BufferSize]_vars

\* front() (line 129) only returns null when every push whose effect it has
\* seen has been popped, and then no push before a close() that closed()
\* reported (line 161) is left in the buffer.
EmptyOnlyWhenDrained ==
    [][FindsEmpty => /\ Popped = cons'.view.at - 1
                     /\ Popped >= closed_[cons.closedAt].view.hb]_vars

\* Where all accesses are sequentially consistent these answers are exact: the
\* buffer IS full, or IS empty, when the load returns (the seq_cst variants,
\* e.g. SPSCBufferBaseline.hpp:74 and 106).
ExactWhenSeqCst ==
    [][SeqCst => /\ Refuses => Pushed - Popped = BufferSize
                 /\ FindsEmpty => Popped = Pushed]_vars

-----------------------------------------------------------------------------
(* The abstract buffer.  A push takes effect at its release store, a pop   *)
(* at its own; front() when it returns.                                    *)

\* The element front() designated stays shown while pop() removes it.
FrontShown == IF cons.pc \in {"assert", "destroy", "publish"} THEN "item" ELSE cons.front
\* The pushes before the first close().
Sealed == IF Len(closed_) > 1 THEN closed_[2].view.hb ELSE 0

Fifo == INSTANCE BoundedFifo WITH
    capacity  <- BufferSize,
    queue     <- Elements(Popped, Pushed),
    produced  <- Pushed,
    front     <- FrontShown,
    closed    <- Len(closed_) > 1,
    sealed    <- Sealed,
    sawClosed <- cons.closedAt > 1

\* The lock-free buffer is a bounded FIFO queue for its two threads, caches
\* and stale loads included.
ImplementsFifo == Fifo!Spec

-----------------------------------------------------------------------------
(* The inductive invariant.  Position i of a cursor's modification order   *)
(* holds the slot of the i-th element and was released by a thread that    *)
(* had made i - 1 accesses, so everything can be compared as element       *)
(* numbers; distances never exceed the ring.                               *)

SlotOf(n) == RingSlot(n - 1, capacity_)   \* where element n lives

CursorHistory(mo) ==
    \A i \in 1 .. Len(mo) : mo[i] = [val |-> SlotOf(i), view |-> [at |-> i, hb |-> i - 1]]

ClosedHistory ==
    \A i \in 1 .. Len(closed_) :
        /\ closed_[i].view.hb = closed_[i].view.at - 1
        /\ closed_[i].view.at <= Len(pushCursor_)
        /\ \A j \in 1 .. i : closed_[j].view.hb <= closed_[i].view.hb

\* The producer's cache is the value of the pop message its view is at.
ProducerKnows ==
    /\ prod.view.hb = prod.view.at - 1
    /\ prod.popCursorCache_ = SlotOf(prod.view.at)
    /\ Pushed - prod.view.hb <= BufferSize
    /\ prod.pc \in {"construct", "publish"} => Pushed - prod.view.hb < BufferSize

\* The consumer's cache may be older than its view, never older than its pops.
ConsumerKnows ==
    /\ cons.view.hb = cons.view.at - 1
    /\ \E n \in Popped .. cons.view.hb :
          /\ cons.pushCursorCache_ = SlotOf(n + 1)
          /\ cons.front = "item" \/ cons.pc \in {"assert", "destroy", "publish"} => n > Popped
    /\ cons.pc \in {"assert", "destroy", "publish"} => cons.front = "none"
    /\ closed_[cons.closedAt].view.hb <= cons.view.hb

\* Exactly the elements constructed and not destroyed are alive, in place.
Contents ==
    /\ \A n \in Destroyed + 1 .. Constructed : slot[SlotOf(n)] = n
    /\ \A c \in Cursors : slot[c] # Raw =>
          slot[c] \in Destroyed + 1 .. Constructed /\ c = SlotOf(slot[c])
    /\ \A c \in Cursors : lastDestroy[c] # 0 =>
          lastDestroy[c] \in 1 .. Destroyed /\ c = SlotOf(lastDestroy[c])

\* Once the threads are joined there is nothing left to learn.
Joined ==
    phase # "live" =>
        /\ prod.pc = "idle"
        /\ cons.view.at = Len(pushCursor_)
        /\ cons.front = "null" => Popped = Pushed
        /\ phase = "freed" => cons.pc = "idle" /\ cons.front = "null"

IInv ==
    /\ TypeOK
    /\ CursorHistory(pushCursor_) /\ CursorHistory(popCursor_) /\ ClosedHistory
    /\ ProducerKnows /\ ConsumerKnows /\ Contents /\ Joined
    /\ AssertNeverFires
=============================================================================
