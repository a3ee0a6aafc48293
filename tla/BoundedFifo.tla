----------------------------- MODULE BoundedFifo -----------------------------
(***************************************************************************)
(* What a single-producer single-consumer buffer promises its two users,   *)
(* free of cursors, caches, slots and memory orders.                       *)
(*                                                                         *)
(* The items are the numbers 1, 2, ... in the order they are pushed.       *)
(* An item is in the queue from the moment its push takes effect until its *)
(* pop takes effect.                                                       *)
(***************************************************************************)
EXTENDS Naturals, Sequences

VARIABLES
    capacity,   \* how many items there is room for: chosen once, by the constructor
    queue,      \* the items in the buffer, oldest first
    produced,   \* how many items have been pushed
    front,      \* the last result of front(): "null", "item", "none" once used
    closed,     \* close() has been called
    sealed,     \* how many items had been pushed at the first close()
    sawClosed,  \* closed() has returned true to the consumer
    phase       \* "live", then "dtor" once both threads are joined, "freed"

fifoVars == <<capacity, queue, produced, front, closed, sealed, sawClosed, phase>>

Init ==
    /\ capacity \in Nat \ {0}
    /\ queue = <<>>
    /\ produced = 0
    /\ front = "none"
    /\ closed = FALSE
    /\ sealed = 0
    /\ sawClosed = FALSE
    /\ phase = "live"

\* A push takes effect only while there is room.
Push ==
    /\ phase = "live"
    /\ Len(queue) < capacity
    /\ queue' = Append(queue, produced + 1)
    /\ produced' = produced + 1
    /\ UNCHANGED <<front, closed, sealed, sawClosed, phase>>

\* A non-null front() designates the oldest item.
FrontItem ==
    /\ phase # "freed"
    /\ queue # <<>>
    /\ front' = "item"
    /\ UNCHANGED <<queue, produced, closed, sealed, sawClosed, phase>>

\* A null front() may miss recent pushes, with three exceptions: an item
\* already shown stays; after closed() returned true every item pushed
\* before the close is visible; after the threads are joined all are.
FrontNull ==
    /\ phase # "freed"
    /\ front # "item"
    /\ queue # <<>> => /\ phase = "live"
                       /\ sawClosed => sealed < Head(queue)
    /\ front' = "null"
    /\ UNCHANGED <<queue, produced, closed, sealed, sawClosed, phase>>

\* pop() removes the item that front() designated; a destructor may remove
\* the oldest item without asking.
Pop ==
    /\ phase # "freed" /\ queue # <<>>
    /\ front = "item" \/ phase = "dtor"
    /\ queue' = Tail(queue)
    /\ front' = "none"
    /\ UNCHANGED <<produced, closed, sealed, sawClosed, phase>>

Close ==
    /\ phase = "live"
    /\ closed' = TRUE
    /\ sealed' = IF closed THEN sealed ELSE produced
    /\ UNCHANGED <<queue, produced, front, sawClosed, phase>>

SeeClosed ==
    /\ phase = "live"
    /\ closed
    /\ sawClosed' = TRUE
    /\ UNCHANGED <<queue, produced, front, closed, sealed, phase>>

\* Both threads have been joined and the destructor starts.
Join ==
    /\ phase = "live"
    /\ phase' = "dtor"
    /\ front' = "none"
    /\ UNCHANGED <<queue, produced, closed, sealed, sawClosed>>

\* The storage is released only when no item is left in it.
Deallocate ==
    /\ phase = "dtor"
    /\ queue = <<>>
    /\ phase' = "freed"
    /\ UNCHANGED <<queue, produced, front, closed, sealed, sawClosed>>

Next ==
    /\ \/ Push \/ FrontItem \/ FrontNull \/ Pop
       \/ Close \/ SeeClosed \/ Join \/ Deallocate
    /\ UNCHANGED capacity

Spec == Init /\ [][Next]_fifoVars
=============================================================================
