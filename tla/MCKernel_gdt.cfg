SPECIFICATION Spec
CONSTANTS
    Programs <- AllPrograms
    HeaderSize = 17
    MinBlock = 16
    HeapSize = 2600
    HeapBase = 4096
    Word = 65536
    DirectorySize = 18
    GdtSlot = 8
    ReportSlots = 2
    KernelTables = 4
    HeapStartSlot = 16
    TableBytes = 1024
    PageSize = 4096
    FirstFrames <- FramesAtHeap
    MaxTests = 3
    MaxCommands = 6
    MemtestSizes <- SizesOfMemtest
    MallocSizes <- TypedSizes
    DumpAddresses <- TypedAddresses
    DumpSizes <- TypedDumpSizes
INVARIANT GdtIsShown
CHECK_DEADLOCK FALSE
