CONSTANTS
    Rows = 2
    Columns = 3
    BufferRows = 3
    ScreenCount = 2
    CommandSize = 3
    Word = 64
    Short = 8
    Letters = {"k", "s"}
    Banner <- OneRow
    Controls <- NoControls
    Prompt <- ShortPrompt
    Outputs <- Answers
    Keys <- NoEdit
    MaxTyped = 3
SPECIFICATION Spec
CHECK_DEADLOCK FALSE
INVARIANTS ScreenSound CommandIsTyped
PROPERTIES OthersUntouched ImplementsScrollback
