---------------------------- MODULE SPSCClasses ----------------------------
(***************************************************************************)
(* What distinguishes the classes of the optimization study: the baseline, *)
(* five isolated optimizations, six cumulative stages, and SPSCBuffer.     *)
(***************************************************************************)
EXTENDS Naturals

SPSCBufferBaseline ==
    [cached |-> FALSE,           \* each thread caches the other's cursor
     seqCst |-> TRUE,            \* all accesses are memory_order_seq_cst
     branchWrap |-> FALSE,       \* cursors wrap by a branch
     alignedCursors |-> FALSE,   \* alignas(cacheLineSize) on the cursors
     alignedCaches |-> FALSE,    \* and on their caches
     padded |-> FALSE]           \* padding around the slots

SPSCBufferBranchWrapIndices == [SPSCBufferBaseline EXCEPT !.branchWrap = TRUE]
SPSCBufferCacheAlignment    == [SPSCBufferBaseline EXCEPT !.alignedCursors = TRUE]
SPSCBufferCachedCursors     == [SPSCBufferBaseline EXCEPT !.cached = TRUE]
SPSCBufferMemOrder          == [SPSCBufferBaseline EXCEPT !.seqCst = FALSE]
SPSCBufferPadding           == [SPSCBufferBaseline EXCEPT !.padded = TRUE]

SPSCBufferStage1 == [SPSCBufferBaseline EXCEPT !.seqCst = FALSE]
SPSCBufferStage2 == [SPSCBufferStage1 EXCEPT !.alignedCursors = TRUE]
SPSCBufferStage3 == [SPSCBufferStage2 EXCEPT !.cached = TRUE]
SPSCBufferStage4 == [SPSCBufferStage3 EXCEPT !.alignedCaches = TRUE]
SPSCBufferStage5 == [SPSCBufferStage4 EXCEPT !.branchWrap = TRUE]
SPSCBufferStage6 == [SPSCBufferStage5 EXCEPT !.padded = TRUE]
SPSCBuffer       == SPSCBufferStage6

Classes ==
    {SPSCBufferBaseline, SPSCBufferBranchWrapIndices, SPSCBufferCacheAlignment,
     SPSCBufferCachedCursors, SPSCBufferMemOrder, SPSCBufferPadding,
     SPSCBufferStage1, SPSCBufferStage2, SPSCBufferStage3, SPSCBufferStage4,
     SPSCBufferStage5, SPSCBufferStage6, SPSCBuffer}

\* What tells the behaviours of objects apart: alignment and padding have no
\* effect on any operation, and a build with NDEBUG compiles assert() away.
SwitchesOf(class, ndebug) ==
    [cached |-> class.cached, seqCst |-> class.seqCst, branchWrap |-> class.branchWrap,
     ndebug |-> ndebug]

AllBuilds       == {SwitchesOf(class, ndebug) : class \in Classes, ndebug \in BOOLEAN}
ReleaseBuilds   == {SwitchesOf(class, TRUE) : class \in Classes}
DebugSPSCBuffer == {SwitchesOf(SPSCBuffer, FALSE)}
=============================================================================
