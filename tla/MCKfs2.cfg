CONSTANTS
    VGA_ROWS = 3
    VGA_COLS = 3
    NUM_SCREENS = 2
    BUFFER_ROWS = 4
    SHELL_CMD_BUFFER_SIZE = 3
    Word = 64
    Short = 6
    Letters = {"k", "space"}
    Banner <- Greeting
    Descriptors <- NoText
    Prompt <- ShortPrompt
    Commands <- Words
    Answers <- Displays
    Keyboards <- Users
    MaxTyped = 4
SPECIFICATION Spec
CHECK_DEADLOCK FALSE
INVARIANTS DisplaySound CommandIsTyped ErasesOnlyTyped
PROPERTIES StopsWhenTold OthersUntouched
