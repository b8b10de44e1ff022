-------------------------------- MODULE Screens --------------------------------
(***************************************************************************)
(* The screens of kfs3 bonus: utils/screen.c, driven by the keyboard loop  *)
(* of utils/keyboard.c and the command line of shell/shell.c.              *)
(*                                                                         *)
(* tty holds the globals of screen.c under their names; caret is the       *)
(* position in the cursor registers of the VGA.  stock is one flat array,  *)
(* as it is in memory: cell k of screen s is stock[s * Size + k].  A cell  *)
(* is "blank" (a black space), "mark" (the green space that ends a prompt) *)
(* or some other character.  Init is the state in which main calls         *)
(* handle_keyboard.                                                        *)
(*                                                                         *)
(* typed, prompted and spoiled are history variables: what the user has    *)
(* typed on each screen since its last prompt, the screens that have had a *)
(* prompt, and whether backspace has erased something never typed.         *)
(***************************************************************************)
EXTENDS Integers, Sequences, FiniteSets, SequencesExt, FiniteSetsExt

CONSTANTS
    Rows,         \* ROWS_COUNT
    Columns,      \* COLUMNS_COUNT
    BufferRows,   \* BUFFER_ROW_COUNT
    ScreenCount,  \* SCREEN_COUNT
    CommandSize,  \* CMD_BUFFER_SIZE
    Word, Short,  \* 2^32 and 2^16
    Letters,      \* the characters that keys print
    Banner,       \* what init_screens prints on each screen
    Controls,     \* what main prints on the first screen after that
    Prompt,       \* what new_prompt prints
    Outputs,      \* what commands print
    Keys,         \* the kinds of keys the user presses
    MaxTyped      \* bound on the characters typed at one prompt

Screens == 0 .. ScreenCount - 1
Size == BufferRows * Columns
Cells == Letters \cup {"blank", "mark"}
KeyKinds == {"letter", "tab", "backspace", "enter", "arrow", "ctrl"}

ASSUME ScreensAssumption ==
    /\ Rows \in Nat \ {0} /\ Columns \in Nat \ {0} /\ ScreenCount \in Nat \ {0}
    /\ BufferRows \in Nat /\ BufferRows > Rows
    /\ CommandSize \in Nat /\ MaxTyped \in Nat /\ Keys \subseteq KeyKinds
    /\ Word \in Nat /\ Short \in Nat /\ Short > BufferRows /\ Word > Short
    /\ {Banner, Controls, Prompt} \cup Outputs
         \subseteq Seq(Letters \cup {"mark", "newline"})
    /\ Letters \cap {"blank", "mark", "newline", "tab"} = {}
    /\ Prompt # <<>> /\ Prompt[Len(Prompt)] = "mark"

VARIABLES tty, ctrl_pressed, kernel, typed, prompted, spoiled

vars == <<tty, ctrl_pressed, kernel, typed, prompted, spoiled>>

----------------------------------------------------------------------------
(* screen.c, on a record of its globals *)

At(t, k) == t.screen_index * Size + k
Cell(t, k) == t.stock[At(t, k)]
Total(t) == t.total_row[t.screen_index]
Extra(t) == t.extra_scroll[t.screen_index]

\* The cells from lo on set to those of f, and n of them blanked.
SetCells(t, lo, f) ==
    [t EXCEPT !.stock = [i \in DOMAIN @ |->
        IF i - At(t, lo) \in DOMAIN f THEN f[i - At(t, lo)] ELSE @[i]]]
Blanks(t, lo, n) == SetCells(t, lo, [k \in 0 .. n - 1 |-> "blank"])

\* The row of the buffer shown at the top of the screen.
FirstShown(t) ==
    LET overflow_rows == Total(t) - Rows + 1
    IN  CASE Total(t) < Rows -> 0
          [] Total(t) >= Rows /\ Extra(t) > overflow_rows -> 0
          [] OTHER -> overflow_rows - Extra(t)

View(t) == [i \in 0 .. Rows * Columns - 1 |-> Cell(t, FirstShown(t) * Columns + i)]
last_char_index(view) == Max({0} \cup {i \in DOMAIN view : view[i] # "blank"})

\* display_screen and scroll_screen.
Display(t) ==
    [t EXCEPT !.screen_buffer = View(t), !.caret = last_char_index(View(t)) + 1]

\* How print_char and delete_char end.  Mutant: the screen starts scrolling one
\* row late.
Refresh_Late(t) ==
    IF Total(t) > Rows THEN Display(t) ELSE [t EXCEPT !.caret = t.cursor_index]
Refresh(t) ==
    IF Total(t) >= Rows THEN Display(t) ELSE [t EXCEPT !.caret = t.cursor_index]

\* A row has been filled or ended: the buffer scrolls if it has no row left.
ShiftUp(t) ==
    LET up == SetCells(t, 0, [k \in 0 .. Size - Columns - 1 |-> Cell(t, k + Columns)])
    IN  [Blanks(up, Size - Columns, Columns) EXCEPT !.cursor_index = @ - Columns]
NewRow(t) ==
    IF Total(t) = BufferRows - 1 THEN ShiftUp(t)
    ELSE [t EXCEPT !.total_row[t.screen_index] = @ + 1]

\* print_new_line.  Mutant: no padding when the cursor is at the start of a row.
Padding_SkipEmpty(t) == (Columns - (t.cursor_index % Columns)) % Columns
Padding(t) == Columns - (t.cursor_index % Columns)
PrintNewLine(t) ==
    LET padded == Blanks(t, t.cursor_index, Padding(t))
    IN  Display(NewRow([padded EXCEPT !.cursor_index = @ + Padding(t)]))

\* A printable character is stored, and shown if it is on the first Rows rows.
Written(t, c) ==
    LET k == t.cursor_index
        stored == [t EXCEPT !.stock[At(t, k)] = c, !.cursor_index = k + 1]
    IN  IF k < Rows * Columns
        THEN [stored EXCEPT !.screen_buffer[k] = c] ELSE stored

\* print_char, which takes "tab" for every control character
PrintChar(t, c) ==
    LET live == [t EXCEPT !.extra_scroll[t.screen_index] = 0]
        out == IF c \in Cells THEN Written(live, c) ELSE live
    IN  Refresh(IF out.cursor_index % Columns = 0 THEN NewRow(out) ELSE out)

\* print_str and print_new_line, one after the other
PrintStr(t, script) ==
    FoldLeft(LAMBDA u, c : IF c = "newline" THEN PrintNewLine(u) ELSE PrintChar(u, c),
             t, script)

\* Where delete_char deletes nothing.  Mutant: only at the very start.
DeleteStops_AtStart(t) == t.cursor_index = 0
DeleteStops(t) == t.cursor_index = 0 \/ Cell(t, t.cursor_index - 1) = "mark"

\* Mutant: the deleted character stays on the screen.
Deleted_Shown(t) ==
    LET k == t.cursor_index - 1
    IN  [t EXCEPT !.stock[At(t, k)] = "blank", !.cursor_index = k]
Deleted(t) ==
    LET k == t.cursor_index - 1
        gone == [t EXCEPT !.stock[At(t, k)] = "blank", !.cursor_index = k]
    IN  IF k < Rows * Columns
        THEN [gone EXCEPT !.screen_buffer[k] = "blank"] ELSE gone

\* clear_screen.
ClearScreen(t) ==
    [Blanks(t, 0, Size) EXCEPT
        !.cursor_index = 0, !.total_row[t.screen_index] = 0,
        !.extra_scroll[t.screen_index] = 0, !.caret = 0,
        !.screen_buffer = [i \in DOMAIN @ |-> "blank"]]

\* Mutant: the cursor of the screen left behind is not saved.
SwitchScreen_NoSave(t, s) ==
    Display([t EXCEPT !.screen_index = s, !.cursor_index = t.stock_cursor_index[s]])
SwitchScreen(t, s) ==
    LET saved == [t.stock_cursor_index EXCEPT ![t.screen_index] = t.cursor_index]
    IN  Display([t EXCEPT !.stock_cursor_index = saved, !.screen_index = s,
                          !.cursor_index = saved[s]])

\* The globals as main leaves them.
Reset ==
    [stock |-> [i \in 0 .. ScreenCount * Size - 1 |-> "blank"],
     cursor_index |-> 0, stock_cursor_index |-> [s \in Screens |-> 0],
     screen_index |-> 0, extra_scroll |-> [s \in Screens |-> 0],
     total_row |-> [s \in Screens |-> 0], caret |-> 0,
     screen_buffer |-> [i \in 0 .. Rows * Columns - 1 |-> "blank"]]
init_screens(t) ==
    FoldLeft(LAMBDA u, s : PrintStr(ClearScreen(SwitchScreen(u, s)), Banner),
             t, [i \in 1 .. ScreenCount |-> i - 1])
AfterMain == PrintStr(SwitchScreen(init_screens(Reset), 0), Controls \o Prompt)

----------------------------------------------------------------------------
(* shell.c: the command is what stands between the last prompt and the     *)
(* cursor, at most CommandSize characters of it.                           *)

\* How far back get_command goes, CommandSize + 1 when it meets no prompt.
\* Mutant: one character less is read.
Stop_Early(t) ==
    Min({k \in 1 .. CommandSize : k <= t.cursor_index /\ Cell(t, t.cursor_index - k) = "mark"}
          \cup {CommandSize})
Stop(t) ==
    Min({k \in 1 .. CommandSize : k <= t.cursor_index /\ Cell(t, t.cursor_index - k) = "mark"}
          \cup {CommandSize + 1})

\* It goes back past the first cell of the screen.
Underruns(t) == Stop(t) - 1 > t.cursor_index

get_command(t) ==
    LET n == Stop(t) - 1
    IN  [i \in 1 .. n |-> Cell(t, t.cursor_index - n + i - 1)]

Reply(out) == <<"newline">> \o out \o Prompt

----------------------------------------------------------------------------
(* Actions: the cases of the keyboard loop.  A command runs to its end and *)
(* prints before the next key is read.                                     *)

Init ==
    /\ tty = AfterMain
    /\ ctrl_pressed = FALSE
    /\ kernel = "running"
    /\ typed = [s \in Screens |-> <<>>]
    /\ prompted = {0}
    /\ spoiled = FALSE

front == tty.screen_index

Pressed(kind) == kernel = "running" /\ kind \in Keys

TypeLetter(c) ==
    /\ Pressed("letter") /\ ~ctrl_pressed
    /\ Len(typed[front]) < MaxTyped
    /\ tty' = PrintChar(tty, c)
    /\ typed' = [typed EXCEPT ![front] = Append(@, c)]
    /\ UNCHANGED <<ctrl_pressed, kernel, prompted, spoiled>>

\* Tab and escape have an ASCII code, so they are printed too.
TypeControl ==
    /\ Pressed("tab") /\ ~ctrl_pressed
    /\ tty.cursor_index > 0 \/ Total(tty) < BufferRows - 1
    /\ tty' = PrintChar(tty, "tab")
    /\ UNCHANGED <<ctrl_pressed, kernel, typed, prompted, spoiled>>

\* In the first cell of a screen with no row left, the cursor wraps around.
\* What is written from then on is outside of stock and not modelled.
CursorUnderflows ==
    /\ Pressed("tab") /\ ~ctrl_pressed
    /\ tty.cursor_index = 0 /\ Total(tty) = BufferRows - 1
    /\ kernel' = "astray"
    /\ UNCHANGED <<tty, ctrl_pressed, typed, prompted, spoiled>>

Backspace ==
    /\ Pressed("backspace") /\ ~ctrl_pressed
    /\ ~DeleteStops(tty)
    /\ tty' = Refresh(Deleted(tty))
    /\ IF typed[front] = <<>> THEN spoiled' = TRUE /\ UNCHANGED typed
       ELSE typed' = [typed EXCEPT ![front] = Front(@)] /\ UNCHANGED spoiled
    /\ UNCHANGED <<ctrl_pressed, kernel, prompted>>

NewPrompt(t) ==
    /\ tty' = t
    /\ typed' = [typed EXCEPT ![front] = <<>>]
    /\ prompted' = prompted \cup {front}
    /\ UNCHANGED <<ctrl_pressed, kernel, spoiled>>

\* Enter: exec_cmd, then new_prompt.
EnterNothing ==
    /\ Pressed("enter") /\ ~ctrl_pressed
    /\ ~Underruns(tty) /\ get_command(tty) = <<>>
    /\ NewPrompt(PrintStr(tty, Prompt))

EnterCommand(out) ==
    /\ Pressed("enter") /\ ~ctrl_pressed
    /\ ~Underruns(tty) /\ get_command(tty) # <<>>
    /\ NewPrompt(PrintStr(tty, Reply(out)))

EnterClear ==
    /\ Pressed("enter") /\ ~ctrl_pressed
    /\ ~Underruns(tty) /\ get_command(tty) # <<>>
    /\ NewPrompt(PrintStr(ClearScreen(PrintNewLine(tty)), Prompt))

\* get_command reads what is in front of the screen's cells.
EnterUnderruns ==
    /\ Pressed("enter") /\ ~ctrl_pressed
    /\ Underruns(tty)
    /\ kernel' = "astray"
    /\ UNCHANGED <<tty, ctrl_pressed, typed, prompted, spoiled>>

ArrowUp ==
    /\ Pressed("arrow")
    /\ Extra(tty) <= (Total(tty) - Rows) % Word
    /\ tty' = Display([tty EXCEPT !.extra_scroll[front] = (@ + 1) % Short])
    /\ UNCHANGED <<ctrl_pressed, kernel, typed, prompted, spoiled>>

ArrowDown ==
    /\ Pressed("arrow")
    /\ Extra(tty) > 0
    /\ tty' = Display([tty EXCEPT !.extra_scroll[front] = @ - 1])
    /\ UNCHANGED <<ctrl_pressed, kernel, typed, prompted, spoiled>>

Ctrl ==
    /\ Pressed("ctrl")
    /\ ctrl_pressed' = ~ctrl_pressed
    /\ UNCHANGED <<tty, kernel, typed, prompted, spoiled>>

CtrlDigit(s) ==
    /\ Pressed("ctrl") /\ ctrl_pressed
    /\ tty' = SwitchScreen(tty, s)
    /\ UNCHANGED <<ctrl_pressed, kernel, typed, prompted, spoiled>>

Next ==
    \/ \E c \in Letters : TypeLetter(c)
    \/ TypeControl \/ CursorUnderflows \/ Backspace
    \/ EnterNothing \/ EnterClear \/ EnterUnderruns
    \/ \E out \in Outputs : EnterCommand(out)
    \/ ArrowUp \/ ArrowDown \/ Ctrl
    \/ \E s \in Screens : CtrlDigit(s)

Spec == Init /\ [][Next]_vars

----------------------------------------------------------------------------
(* Properties *)

\* The last k of s, or all of it.
LastOf(s, k) ==
    LET n == Min({Len(s), k}) IN SubSeq(s, Len(s) - n + 1, Len(s))

CursorOf(s) == IF s = front THEN tty.cursor_index ELSE tty.stock_cursor_index[s]

TypeOK ==
    /\ tty.stock \in [0 .. ScreenCount * Size - 1 -> Cells]
    /\ tty.screen_buffer \in [0 .. Rows * Columns - 1 -> Cells]
    /\ tty.screen_index \in Screens
    /\ \A s \in Screens : /\ CursorOf(s) \in 0 .. Size - 1
                          /\ tty.total_row[s] \in 0 .. BufferRows - 1
                          /\ tty.extra_scroll[s] \in 0 .. Short - 1
    /\ tty.caret \in 0 .. Rows * Columns
    /\ ctrl_pressed \in BOOLEAN /\ kernel \in {"running", "astray"}

\* What the user sees is what the buffer holds there, whichever of the many
\* ways of printing, deleting, scrolling and switching led to it.
ScreenShowsStock == tty.screen_buffer = View(tty)

\* As long as nothing is deleted, the row counter is the row of the cursor.
RowsMatchCursor == \A s \in Screens : tty.total_row[s] = CursorOf(s) \div Columns

\* Printing touches no screen but the one in front, and switching none at all:
\* a screen is found as it was left.
OthersUntouched ==
    [][\A s \in {q \in Screens : q # front \/ q # front'} :
        /\ \A i \in s * Size .. (s + 1) * Size - 1 : tty'.stock[i] = tty.stock[i]
        /\ tty'.total_row[s] = tty.total_row[s]
        /\ CursorOf(s)' = CursorOf(s)]_vars

\* The command that Enter runs is what was typed since the prompt.
CommandIsTyped ==
    front \in prompted => get_command(tty) = LastOf(typed[front], CommandSize)

\* The same when deletions and control characters come in between: whatever
\* Enter then reads without leaving the screen's cells is what was typed and
\* not deleted.
EditedCommandIsTyped ==
    front \in prompted /\ ~Underruns(tty) =>
        get_command(tty) = LastOf(typed[front], CommandSize)

\* At a prompt the blinking caret is where the next character goes, unless the
\* user has scrolled up.
CaretAtCursor ==
    front \in prompted /\ Extra(tty) = 0 =>
        tty.caret = tty.cursor_index - FirstShown(tty) * Columns

\* Buffer, row counter, video memory and caret agree while nothing is deleted.
ScreenSound == TypeOK /\ ScreenShowsStock /\ RowsMatchCursor /\ CaretAtCursor

\* The screens are texts of rows that lose nothing but their oldest rows.
RowText(s, r) ==
    LET cells == [c \in 0 .. Columns - 1 |-> tty.stock[s * Size + r * Columns + c]]
        used == {c \in 0 .. Columns - 1 : cells[c] # "blank"}
    IN  [i \in 1 .. Max({0} \cup {c + 1 : c \in used}) |-> cells[i - 1]]
Text == [s \in Screens |->
            [r \in 1 .. (CursorOf(s) \div Columns) + 1 |-> RowText(s, r - 1)]]
Said == {<<c>> : c \in Letters} \cup {Prompt} \cup {Reply(out) : out \in Outputs}
Greeted == [s \in Screens |-> IF s = 0 THEN Banner \o Controls \o Prompt ELSE Banner]
Abstract == INSTANCE Scrollback WITH text <- Text, Scripts <- Said, Greetings <- Greeted
ImplementsScrollback == Abstract!Spec

\* screen.c:63: backspace does not delete past the prompt, so it erases nothing
\* but what has been typed.
ErasesOnlyTyped == ~spoiled

\* Whatever is edited, what backspace deletes and what Enter runs is what has been
\* typed at the prompt.
PromptKept == ErasesOnlyTyped /\ EditedCommandIsTyped

\* shell.c:15: the command is read from the screen buffer, never from outside of
\* it.
CommandInBuffer == ~Underruns(tty)

=============================================================================
