CONSTANTS
    PageSize = 8
    WordBits = 8
    LowMemory = 16
    Word = 1024
    KernelStart = 16
    KernelEnd = 19
    PagesPerTable = 5
    KernelTables = 4
    HeapBytes = 16
    Machines <- Small
SPECIFICATION Spec
CHECK_DEADLOCK FALSE
INVARIANTS HeapIsReserved
