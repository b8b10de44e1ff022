CONSTANTS
    PageSize = 4
    Word = 64
    HeapPages = 6
    MaxRegions = 3
    PagesPerTable = 3
    Frames = {1, 2, 3, 4, 5, 6}
    Requests <- OnePage
    Increments <- NoCalls
    APIs <- OnlyVmalloc
    MaxOthers <- Nobody
SPECIFICATION Spec
CHECK_DEADLOCK FALSE
INVARIANTS SizeIsAsked
