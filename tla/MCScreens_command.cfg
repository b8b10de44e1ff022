CONSTANTS
    Rows = 2
    Columns = 3
    BufferRows = 4
    ScreenCount = 1
    CommandSize = 3
    Word = 64
    Short = 8
    Letters = {"k"}
    Banner <- OneRow
    Controls <- NoControls
    Prompt <- ShortPrompt
    Outputs <- Answers
    Keys <- OneScreen
    MaxTyped = 10
SPECIFICATION Spec
CHECK_DEADLOCK FALSE
INVARIANTS CommandInBuffer
