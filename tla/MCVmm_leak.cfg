CONSTANTS
    PageSize = 4
    Word = 64
    HeapPages = 5
    MaxRegions = 4
    PagesPerTable = 3
    Frames = {1, 2, 3, 4, 5}
    Requests <- NoCalls
    Increments <- Moves
    APIs <- OnlyVbrk
    MaxOthers <- VbrkAlone
SPECIFICATION Spec
CHECK_DEADLOCK FALSE
INVARIANTS FramesAccounted
