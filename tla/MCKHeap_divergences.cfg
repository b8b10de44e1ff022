CONSTANTS
    HeaderSize = 17
    MinBlock = 16
    HeapSize = 104
    HeapBase = 16
    Word = 156
    Requests <- FewRequests
    AlignedRequests <- AlignedSizes
    Increments <- BreakMoves
SPECIFICATION Spec
\* One at a time: TLC stops at the first invariant it finds violated.
INVARIANTS BreakIsExclusive
\* INVARIANTS FreeAccounting
\* INVARIANTS HeldPtrsCanBeFreed
CHECK_DEADLOCK FALSE
