CONSTANTS
    PageSize = 4
    Word = 64
    HeapPages = 6
    MaxRegions = 5
    PagesPerTable = 3
    Frames = {1, 2, 3, 4, 5, 6}
    Requests <- Sizes
    Increments <- Moves
    APIs <- Either
    MaxOthers <- WithVbrk
SPECIFICATION Spec
CHECK_DEADLOCK FALSE
INVARIANTS RegionsSound FramesSound
PROPERTIES LiveKeepsFrames ImplementsAllocator
