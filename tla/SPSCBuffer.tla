----------------------------- MODULE SPSCBuffer -----------------------------
(***************************************************************************)
(* ringbuffers::SPSCBuffer: the lock-free ring buffer of one producer and  *)
(* one consumer thread, with cached cursors and acquire/release ordering;  *)
(* and, by three switches, the variants of the study whose cursors stay    *)
(* below the capacity, which differ from it in nothing else that a thread  *)
(* can observe.                                                            *)
(*                                                                         *)
(* Each action makes at most one access to memory the other thread also    *)
(* accesses (an atomic, or a slot); local computation is part of the       *)
(* action whose values it uses.  The producer may call emplace,            *)
(* try_emplace and close in any order, the consumer front, pop and closed, *)
(* as long as pop() follows a non-null front().  When both threads are     *)
(* joined the destructor runs.                                             *)
(*                                                                         *)
(* The n-th constructed element is the number n, so a slot says which      *)
(* element it holds and elements are compared by their age.                *)
(***************************************************************************)
EXTENDS AcquireRelease, CursorArithmetic, SPSCClasses

CONSTANTS
    BufferSize,   \* the constructor's argument
    ItemCount,    \* bound: elements the producer may push
    CloseLimit,   \* bound: calls of close()
    Variants      \* which classes and builds an object may be of, by their switches

ASSUME SPSCAssumption ==
    /\ BufferSize \in Nat \ {0}
    /\ ItemCount \in Nat
    /\ CloseLimit \in Nat
    /\ Variants \subseteq
           [cached : BOOLEAN, seqCst : BOOLEAN, branchWrap : BOOLEAN, ndebug : BOOLEAN]

VARIABLES
    variant,       \* the object: the switches of its class and build, constant
    pushCursor_, popCursor_, closed_,   \* the atomics, as modification orders
    slot,          \* buffer_: the element alive in each slot, or Raw
    lastDestroy,   \* history: which element was last destroyed in each slot
    prod,          \* the producer: its operation, popCursorCache_ and view
    cons,          \* the consumer: the same with pushCursorCache_, and results
    phase          \* "live", "dtor" after both joins, "freed"

atomics == <<pushCursor_, popCursor_, closed_>>
storage == <<slot, lastDestroy>>
vars    == <<variant, atomics, storage, prod, cons, phase>>

Cached     == variant.cached       \* each thread caches the other's cursor
SeqCst     == variant.seqCst       \* all atomics are accessed with memory_order_seq_cst
BranchWrap == variant.branchWrap   \* cursors wrap by a branch, not by the modulus
NDEBUG     == variant.ndebug       \* the assert in pop() is compiled away

NoSlack       == BufferSize        \* mutant: the slack slot is forgotten
capacity_     == BufferSize + 1    \* one slack slot
Cursors       == 0 .. capacity_ - 1
Raw           == 0
NextCursor(c) == IF BranchWrap THEN BranchNext(c, capacity_) ELSE ModulusNext(c, capacity_)

\* Mutant: the load is an acquire load in every variant.
LoadableAcquire(mo, at) == Readable(mo, at)

\* The messages of mo a load may return to a thread whose view is at position
\* at: the latest one if all accesses are sequentially consistent.
Loadable(mo, at) == IF SeqCst THEN Readable(mo, Len(mo)) ELSE Readable(mo, at)

\* The caches of a variant without them hold what was loaded last: no test
\* looks at them.

Producer == [pc : {"idle", "spin", "refresh", "construct", "publish"},
             popCursorCache_ : Cursors,
             view : View]
Consumer == [pc : {"idle", "refresh", "assert", "destroy", "publish", "aborted"},
             pushCursorCache_ : Cursors,
             view : View,
             closedAt : Nat \ {0},               \* message of closed_ read last
             front : {"none", "null", "item"}]   \* result of front(), until used

\* Counters the code does not have, read off the modification orders.
Pushed      == Len(pushCursor_) - 1
Popped      == Len(popCursor_) - 1
Constructed == IF prod.pc = "publish" THEN Pushed + 1 ELSE Pushed
Destroyed   == IF cons.pc = "publish" THEN Popped + 1 ELSE Popped

\* What is known to whoever reads the next release store of each atomic.
PushView  == [at |-> Len(pushCursor_) + 1, hb |-> Constructed]
CloseView == [at |-> Len(pushCursor_), hb |-> Constructed]
PopView   == [at |-> Len(popCursor_) + 1, hb |-> Destroyed]

Init ==
    LET start == [at |-> 1, hb |-> 0] IN
    /\ variant \in Variants
    /\ pushCursor_ = Initialised(0, start)
    /\ popCursor_ = Initialised(0, start)
    /\ closed_ = Initialised(FALSE, start)
    /\ slot = [c \in Cursors |-> Raw]
    /\ lastDestroy = [c \in Cursors |-> 0]
    /\ prod = [pc |-> "idle", popCursorCache_ |-> 0, view |-> start]
    /\ cons = [pc |-> "idle", pushCursorCache_ |-> 0, view |-> start,
               closedAt |-> 1, front |-> "none"]
    /\ phase = "live"

-----------------------------------------------------------------------------
(* Producer.  pushCursor_ is written by this thread only: its relaxed load *)
(* returns the latest message.                                             *)

PushCursorNext == NextCursor(Latest(pushCursor_))

\* Mutant: the full test is missing.
BeginPushUnchecked(onFull) ==
    /\ phase = "live" /\ prod.pc = "idle" /\ Pushed < ItemCount
    /\ prod' = [prod EXCEPT !.pc = "construct"]
    /\ UNCHANGED <<variant, atomics, storage, cons, phase>>

BeginPush(onFull) ==
    /\ phase = "live" /\ prod.pc = "idle" /\ Pushed < ItemCount
    /\ prod' = [prod EXCEPT !.pc =
                  IF Cached /\ PushCursorNext # prod.popCursorCache_ THEN "construct" ELSE onFull]
    /\ UNCHANGED <<variant, atomics, storage, cons, phase>>

Emplace    == BeginPush("spin")
TryEmplace == BeginPush("refresh")

\* Mutant: the refreshed cache is not tested again.
RefreshWithoutRetest(from, onFull, i) ==
    /\ prod.pc = from
    /\ prod' = [pc |-> "construct", popCursorCache_ |-> popCursor_[i].val,
                view |-> AcquireCursor(prod.view, popCursor_, i)]
    /\ UNCHANGED <<variant, atomics, storage, cons, phase>>

\* Mutant: the loop tests the cache without refreshing it.
SpinOnStaleCache(from, onFull, i) ==
    /\ prod.pc = from
    /\ prod' = [prod EXCEPT !.pc = onFull]
    /\ UNCHANGED <<variant, atomics, storage, cons, phase>>

\* popCursorCache_ = popCursor_.load(acquire), then the test that follows it.
RefreshPopCursor(from, onFull, i) ==
    /\ prod.pc = from
    /\ prod' = [pc |-> IF PushCursorNext = popCursor_[i].val THEN onFull ELSE "construct",
                popCursorCache_ |-> popCursor_[i].val,
                view |-> AcquireCursor(prod.view, popCursor_, i)]
    /\ UNCHANGED <<variant, atomics, storage, cons, phase>>

EmplaceRefresh(i)    == RefreshPopCursor("spin", "spin", i)
TryEmplaceRefresh(i) == RefreshPopCursor("refresh", "idle", i)

Construct ==
    /\ prod.pc = "construct"
    /\ slot' = [slot EXCEPT ![Latest(pushCursor_)] = Pushed + 1]
    /\ prod' = [prod EXCEPT !.pc = "publish"]
    /\ UNCHANGED <<variant, atomics, lastDestroy, cons, phase>>

\* T's constructor throws: the exception leaves emplace before the store.
ConstructThrows ==
    /\ prod.pc = "construct"
    /\ prod' = [prod EXCEPT !.pc = "idle"]
    /\ UNCHANGED <<variant, atomics, storage, cons, phase>>

PublishPush ==
    /\ prod.pc = "publish"
    /\ pushCursor_' = StoreRelease(pushCursor_, PushCursorNext, PushView)
    /\ prod' = [prod EXCEPT !.pc = "idle"]
    /\ UNCHANGED <<variant, popCursor_, closed_, storage, cons, phase>>

\* Mutant: close() stores the initial value.
CloseForgotten ==
    /\ phase = "live" /\ prod.pc = "idle" /\ Len(closed_) <= CloseLimit
    /\ closed_' = StoreRelease(closed_, FALSE, CloseView)
    /\ UNCHANGED <<variant, pushCursor_, popCursor_, storage, prod, cons, phase>>

Close ==
    /\ phase = "live" /\ prod.pc = "idle" /\ Len(closed_) <= CloseLimit
    /\ closed_' = StoreRelease(closed_, TRUE, CloseView)
    /\ UNCHANGED <<variant, pushCursor_, popCursor_, storage, prod, cons, phase>>

-----------------------------------------------------------------------------
(* Consumer, and after the joins the thread that runs the destructor.      *)

Front ==
    /\ cons.pc = "idle"
    /\ phase = "live" \/ (phase = "dtor" /\ cons.front = "none")
    /\ cons' = IF Cached /\ Latest(popCursor_) # cons.pushCursorCache_
                  THEN [cons EXCEPT !.front = "item"]
                  ELSE [cons EXCEPT !.pc = "refresh"]
    /\ UNCHANGED <<variant, atomics, storage, prod, phase>>

\* Mutant: the refreshed cache is not tested again.
FrontWithoutRetest(i) ==
    /\ cons.pc = "refresh"
    /\ cons' = [cons EXCEPT
                  !.pc = "idle",
                  !.pushCursorCache_ = pushCursor_[i].val,
                  !.view = AcquireCursor(@, pushCursor_, i),
                  !.front = "item"]
    /\ UNCHANGED <<variant, atomics, storage, prod, phase>>

\* Mutant: the empty test is repeated without refreshing the cache.
FrontOfStaleCache(i) ==
    /\ cons.pc = "refresh"
    /\ cons' = [cons EXCEPT !.pc = "idle", !.front = "null"]
    /\ UNCHANGED <<variant, atomics, storage, prod, phase>>

FrontRefresh(i) ==
    /\ cons.pc = "refresh"
    /\ cons' = [cons EXCEPT
                  !.pc = "idle",
                  !.pushCursorCache_ = pushCursor_[i].val,
                  !.view = AcquireCursor(@, pushCursor_, i),
                  !.front = IF Latest(popCursor_) = pushCursor_[i].val THEN "null" ELSE "item"]
    /\ UNCHANGED <<variant, atomics, storage, prod, phase>>

Pop ==
    /\ cons.pc = "idle" /\ cons.front = "item"
    /\ cons' = [cons EXCEPT !.front = "none", !.pc = IF NDEBUG THEN "destroy" ELSE "assert"]
    /\ UNCHANGED <<variant, atomics, storage, prod, phase>>

\* The load inside assert() is a synchronising load of its own.
PopAssert(i) ==
    /\ cons.pc = "assert"
    /\ cons' = [cons EXCEPT
                  !.view = AcquireCursor(@, pushCursor_, i),
                  !.pc = IF Latest(popCursor_) # pushCursor_[i].val THEN "destroy" ELSE "aborted"]
    /\ UNCHANGED <<variant, atomics, storage, prod, phase>>

\* Mutant: the cursor moves on but the element is not destroyed.
PopWithoutDestroy ==
    /\ cons.pc = "destroy"
    /\ cons' = [cons EXCEPT !.pc = "publish"]
    /\ UNCHANGED <<variant, atomics, storage, prod, phase>>

PopDestroy ==
    /\ cons.pc = "destroy"
    /\ slot' = [slot EXCEPT ![Latest(popCursor_)] = Raw]
    /\ lastDestroy' = [lastDestroy EXCEPT ![Latest(popCursor_)] = Popped + 1]
    /\ cons' = [cons EXCEPT !.pc = "publish"]
    /\ UNCHANGED <<variant, atomics, prod, phase>>

PublishPop ==
    /\ cons.pc = "publish"
    /\ popCursor_' = StoreRelease(popCursor_, NextCursor(Latest(popCursor_)), PopView)
    /\ cons' = [cons EXCEPT !.pc = "idle"]
    /\ UNCHANGED <<variant, pushCursor_, closed_, storage, prod, phase>>

Closed(i) ==
    /\ phase = "live" /\ cons.pc = "idle"
    /\ cons' = [cons EXCEPT !.closedAt = i, !.view = AcquireFlag(@, closed_, i)]
    /\ UNCHANGED <<variant, atomics, storage, prod, phase>>

-----------------------------------------------------------------------------
(* The owner joins both threads, which makes all they did visible to it,   *)
(* and destroys the buffer: front() and pop() until null, then deallocate. *)

Join ==
    /\ phase = "live" /\ prod.pc = "idle" /\ cons.pc = "idle"
    /\ phase' = "dtor"
    /\ cons' = [cons EXCEPT !.view = CloseView, !.front = "none"]
    /\ UNCHANGED <<variant, atomics, storage, prod>>

\* Mutant: the destructor does not drain the buffer.
DeallocateUndrained ==
    /\ phase = "dtor" /\ cons.pc = "idle"
    /\ phase' = "freed"
    /\ UNCHANGED <<variant, atomics, storage, prod, cons>>

Deallocate ==
    /\ phase = "dtor" /\ cons.pc = "idle" /\ cons.front = "null"
    /\ phase' = "freed"
    /\ UNCHANGED <<variant, atomics, storage, prod, cons>>

\* The steps inside an operation that has been called.
Operation ==
    \/ \E i \in Loadable(popCursor_, prod.view.at) : EmplaceRefresh(i) \/ TryEmplaceRefresh(i)
    \/ Construct \/ PublishPush
    \/ \E i \in Loadable(pushCursor_, cons.view.at) : FrontRefresh(i) \/ PopAssert(i)
    \/ PopDestroy \/ PublishPop

Next ==
    \/ Emplace \/ TryEmplace \/ ConstructThrows \/ Close
    \/ Front \/ Pop \/ \E i \in Loadable(closed_, cons.closedAt) : Closed(i)
    \/ Join \/ Deallocate
    \/ Operation

Spec == Init /\ [][Next]_vars
=============================================================================
