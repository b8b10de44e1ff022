CONSTANTS
    PageSize = 8
    WordBits = 8
    LowMemory = 16
    Word = 1024
    KernelStart = 16
    KernelEnd = 19
    PagesPerTable = 2
    KernelTables = 4
    HeapBytes = 16
    Machines <- Big
SPECIFICATION Spec
CHECK_DEADLOCK FALSE
INVARIANTS NoPageFault
