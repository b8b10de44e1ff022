CONSTANTS
    PageSize = 4
    Word = 64
    HeapPages = 6
    MaxRegions = 4
    PagesPerTable = 3
    Frames = {1, 2, 3, 4, 5, 6}
    Requests <- Huge
    Increments <- NoCalls
    APIs <- OnlyVmalloc
    MaxOthers <- Nobody
SPECIFICATION Spec
CHECK_DEADLOCK FALSE
INVARIANTS ServedInFull
