CONSTANTS
    HeaderSize = 17
    MinBlock = 16
    HeapSize = 104
    HeapBase = 16
    Word = 300
    Requests <- SmallRequests
    AlignedRequests <- OneAligned
    Increments <- WholeBreak
SPECIFICATION Spec
CHECK_DEADLOCK FALSE
INVARIANTS BlockListSound ClientsServed AllocatedAccounting FreedIsFree
PROPERTIES AllocationsStable ImplementsAllocator
