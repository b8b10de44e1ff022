SPECIFICATION Spec
CONSTANTS
    ROWS = 4
    COLS = 3
    Letters <- TwoLetters
    FirstRows = 2
    ReportRows = 3
    PanicRows = 1
    MaxFrames = 1
CHECK_DEADLOCK FALSE
INVARIANTS PrintingSound
PROPERTIES ImplementsScrollback
