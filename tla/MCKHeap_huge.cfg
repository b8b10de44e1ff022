CONSTANTS
    HeaderSize = 17
    MinBlock = 16
    HeapSize = 104
    HeapBase = 1
    Word = 512
    Requests <- HugeRequests
    AlignedRequests <- NoCalls
    Increments <- NoCalls
SPECIFICATION Spec
INVARIANTS
    ClientsServed
CHECK_DEADLOCK FALSE
