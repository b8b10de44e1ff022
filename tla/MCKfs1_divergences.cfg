CONSTANTS
    VGA_ROWS = 2
    VGA_COLS = 2
    NUM_SCREENS = 2
    BUFFER_ROWS = 4
    Word = 64
    MaxOffset = 2
    Keyboards <- Users
SPECIFICATION Spec
CHECK_DEADLOCK FALSE
\* One at a time: TLC stops at the first invariant it finds violated.
INVARIANTS DisplayUpdated
\* INVARIANTS ModifiersEnd
