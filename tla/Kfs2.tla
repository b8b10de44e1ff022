---------------------------------- MODULE Kfs2 ----------------------------------
(***************************************************************************)
(* The screens and the shell of kfs2 bonus: utils/screen.c, utils/scroll.c *)
(* and kernel.c, driven by the keyboard loop of utils/keyboard.c.          *)
(*                                                                         *)
(* tty holds the globals under their names; caret is the position in the   *)
(* cursor registers of the VGA.  A cell of stock is "blank" (the yellow    *)
(* space of a cleared cell), "space" (a white one), "mark" (the green one  *)
(* that ends a prompt) or another character.  Unlike its successor in kfs3 *)
(* this kernel pads rows with white spaces, gives every screen a prompt,   *)
(* and counts rows down again when backspace leaves them.                  *)
(*                                                                         *)
(* stale, typed, spoiled and phantoms are history variables: whether       *)
(* backspace has ended the scrolling since the display was last drawn,     *)
(* what the user has typed on each screen since its prompt, whether        *)
(* backspace has erased something never typed, and how many rows were      *)
(* counted on a screen that its cursor did not enter.                      *)
(***************************************************************************)
EXTENDS Integers, Sequences, FiniteSets, SequencesExt, FiniteSetsExt

CONSTANTS
    VGA_ROWS, VGA_COLS, NUM_SCREENS, BUFFER_ROWS, SHELL_CMD_BUFFER_SIZE,
    Word, Short,   \* 2^32 and 2^16
    Letters,       \* the characters that keys print, "space" among them
    Banner,        \* what init_screens prints on each screen
    Descriptors,   \* what gdt_init prints on the first screen
    Prompt,        \* what shell_prompt prints
    Commands,      \* the words the shell knows: word -> what it does
    Answers,       \* what gdt_display and stack_display print
    Keyboards,     \* sets of kinds of keys: those a user presses
    MaxTyped       \* bound on the characters typed at one prompt

Screens == 0 .. NUM_SCREENS - 1
Size == BUFFER_ROWS * VGA_COLS
Cells == Letters \cup {"blank", "space", "mark"}
KeyKinds == {"letter", "tab", "backspace", "enter", "arrow", "ctrl"}
Deeds == {"gdt", "print-stack", "halt", "reboot", "shutdown"}

ASSUME Kfs2Assumption ==
    /\ VGA_ROWS \in Nat \ {0} /\ VGA_COLS \in Nat \ {0} /\ NUM_SCREENS \in Nat \ {0}
    /\ BUFFER_ROWS \in Nat /\ BUFFER_ROWS > VGA_ROWS
    /\ SHELL_CMD_BUFFER_SIZE \in Nat /\ MaxTyped \in Nat
    /\ Word \in Nat /\ Short \in Nat /\ Short > BUFFER_ROWS /\ Word > Short
    /\ \A kinds \in Keyboards : kinds \subseteq KeyKinds
    /\ {Banner, Descriptors, Prompt, Answers["gdt"], Answers["print-stack"]}
         \subseteq Seq(Cells \cup {"newline"})
    /\ Letters \cap {"blank", "mark", "newline", "tab"} = {}
    /\ Prompt # <<>> /\ Prompt[Len(Prompt)] = "mark"
    /\ \A word \in DOMAIN Commands :
         Len(word) < SHELL_CMD_BUFFER_SIZE /\ Commands[word] \in Deeds

VARIABLES tty, ctrl_pressed, kernel, keyboard, typed, spoiled, phantoms

vars == <<tty, ctrl_pressed, kernel, keyboard, typed, spoiled, phantoms>>
userVars == <<typed, spoiled, phantoms>>

----------------------------------------------------------------------------
(* screen.c, scroll.c and kernel.c on a record of their globals *)

At(t, k) == t.active_screen * Size + k
Cell(t, k) == t.stock[At(t, k)]
Rows(t) == t.row_count[t.active_screen]
Offset(t) == t.scroll_offset[t.active_screen]

\* The cells from lo on set to those of f.
SetCells(t, lo, f) ==
    [t EXCEPT !.stock = [i \in DOMAIN @ |->
        IF i - At(t, lo) \in DOMAIN f THEN f[i - At(t, lo)] ELSE @[i]]]
Fill(t, lo, n, cell) == SetCells(t, lo, [k \in 0 .. n - 1 |-> cell])

\* screen_scroll: the row of the buffer that is drawn at the top.
FirstShown(t) ==
    LET overflow_rows == Rows(t) - VGA_ROWS + 1
    IN  IF Rows(t) < VGA_ROWS \/ Offset(t) > overflow_rows THEN 0
        ELSE overflow_rows - Offset(t)

View(t) ==
    [i \in 0 .. VGA_ROWS * VGA_COLS - 1 |-> Cell(t, FirstShown(t) * VGA_COLS + i)]

last_char_index(view) == Max({0} \cup {i \in DOMAIN view : view[i] # "blank"})

screen_display(t) ==
    [t EXCEPT !.vga_buffer = View(t), !.caret = last_char_index(View(t)) + 1,
              !.stale = FALSE]

\* How vga_putchar and vga_delete_char end.
Refresh(t) ==
    IF Rows(t) >= VGA_ROWS THEN screen_display(t) ELSE [t EXCEPT !.caret = t.cursor_pos]

\* A row has been filled or ended: the buffer moves up if it has no row left.
ShiftUp(t) ==
    LET up == SetCells(t, 0, [k \in 0 .. Size - VGA_COLS - 1 |-> Cell(t, k + VGA_COLS)])
    IN  [Fill(up, Size - VGA_COLS, VGA_COLS, "blank") EXCEPT !.cursor_pos = @ - VGA_COLS]
CountRow(t) ==
    IF Rows(t) = BUFFER_ROWS - 1 THEN ShiftUp(t)
    ELSE [t EXCEPT !.row_count[t.active_screen] = @ + 1]

Padding(t) == VGA_COLS - (t.cursor_pos % VGA_COLS)
vga_newline(t) ==
    LET padded == Fill(t, t.cursor_pos, Padding(t), "space")
    IN  screen_display(CountRow([padded EXCEPT !.cursor_pos = @ + Padding(t)]))

\* A printable character is stored, and shown if it is on the first rows.
Written(t, c) ==
    LET k == t.cursor_pos
        stored == [t EXCEPT !.stock[At(t, k)] = c, !.cursor_pos = k + 1]
    IN  IF k < VGA_ROWS * VGA_COLS
        THEN [stored EXCEPT !.vga_buffer[k] = c] ELSE stored

\* vga_putchar, which takes "tab" for every character that is not printable
vga_putchar(t, c) ==
    LET live == [t EXCEPT !.scroll_offset[t.active_screen] = 0]
        out == IF c \in Cells THEN Written(live, c) ELSE live
    IN  Refresh(IF out.cursor_pos % VGA_COLS = 0 THEN CountRow(out) ELSE out)

\* vga_puts, vga_newline and kprintf, one after the other
vga_puts(t, script) ==
    FoldLeft(LAMBDA u, c : IF c = "newline" THEN vga_newline(u) ELSE vga_putchar(u, c),
             t, script)

\* Where vga_delete_char deletes nothing.  Mutant: only at the very start.
DeleteStops_AtStart(t) == t.cursor_pos = 0
DeleteStops(t) == t.cursor_pos = 0 \/ Cell(t, t.cursor_pos - 1) = "mark"

\* The row left by the deletion of the cell in front of the cursor is counted
\* down, but not at the limit.  Mutant: also at the limit.
LeavesRow(t) == (t.cursor_pos - 1) % VGA_COLS = VGA_COLS - 1
CountDown_AtLimit(t) == LeavesRow(t)
CountDown(t) == LeavesRow(t) /\ Rows(t) # BUFFER_ROWS - 1

Erased(t, k) ==
    LET gone == [t EXCEPT !.stock[At(t, k)] = "blank"]
    IN  IF k < VGA_ROWS * VGA_COLS
        THEN [gone EXCEPT !.vga_buffer[k] = "blank"] ELSE gone
Deleted(t) ==
    [Erased(t, t.cursor_pos - 1) EXCEPT
        !.cursor_pos = @ - 1,
        !.row_count[t.active_screen] = IF CountDown(t) THEN @ - 1 ELSE @,
        !.stale = @ \/ (CountDown(t) /\ Rows(t) = VGA_ROWS)]
vga_delete_char(t) == IF DeleteStops(t) THEN t ELSE Refresh(Deleted(t))

vga_clear(t) ==
    [Fill(t, 0, Size, "blank") EXCEPT
        !.cursor_pos = 0, !.row_count[t.active_screen] = 0, !.caret = 0]

\* Mutant: the cursor of the screen left behind is not saved.
screen_switch_NoSave(t, s) ==
    screen_display([t EXCEPT !.active_screen = s, !.cursor_pos = t.stock_cursor_index[s]])
screen_switch(t, s) ==
    LET saved == [t.stock_cursor_index EXCEPT ![t.active_screen] = t.cursor_pos]
    IN  screen_display([t EXCEPT !.stock_cursor_index = saved, !.active_screen = s,
                                 !.cursor_pos = saved[s]])

\* The globals as the loader leaves them: cells of zeros count as blank ones.
Loaded ==
    [stock |-> [i \in 0 .. NUM_SCREENS * Size - 1 |-> "blank"],
     cursor_pos |-> 0, stock_cursor_index |-> [s \in Screens |-> 0],
     active_screen |-> 0, scroll_offset |-> [s \in Screens |-> 0],
     row_count |-> [s \in Screens |-> 0], caret |-> 0, stale |-> FALSE,
     vga_buffer |-> [i \in 0 .. VGA_ROWS * VGA_COLS - 1 |-> "blank"]]

EachScreen == [i \in 1 .. NUM_SCREENS |-> i - 1]
shell_prompt(t) == vga_puts(t, Prompt)
init_screens ==
    LET greeted == FoldLeft(LAMBDA u, s : vga_puts(vga_clear(screen_switch(u, s)), Banner),
                            Loaded, EachScreen)
        described == vga_puts(screen_switch(greeted, 0), <<"newline">> \o Descriptors)
        prompted == FoldLeft(LAMBDA u, s : shell_prompt(screen_switch(u, s)),
                             described, EachScreen)
    IN  screen_switch(prompted, 0)

----------------------------------------------------------------------------
(* The shell: the command is what stands between the last green space and  *)
(* the cursor, at most SHELL_CMD_BUFFER_SIZE characters of it.             *)

\* How far back the shell reads, one more than the size when it meets no mark.
\* Mutant: it stops a character early.
Stop_Early(t) ==
    Min({k \in 1 .. SHELL_CMD_BUFFER_SIZE :
           k <= t.cursor_pos /\ Cell(t, t.cursor_pos - k) = "mark"}
          \cup {SHELL_CMD_BUFFER_SIZE})
Stop(t) ==
    Min({k \in 1 .. SHELL_CMD_BUFFER_SIZE :
           k <= t.cursor_pos /\ Cell(t, t.cursor_pos - k) = "mark"}
          \cup {SHELL_CMD_BUFFER_SIZE + 1})

\* It reads back past the first cell of the screen.
Underruns(t) == Stop(t) - 1 > t.cursor_pos

\* Only the character of a cell is read, not its colour.
Char(cell) == IF cell \in {"blank", "mark"} THEN "space" ELSE cell
cmdcpy(t) ==
    LET n == Stop(t) - 1
    IN  [i \in 1 .. n |-> Char(Cell(t, t.cursor_pos - n + i - 1))]

----------------------------------------------------------------------------
(* Actions: the cases of the keyboard loop.  A command runs to its end     *)
(* before the next key is read.                                            *)

Init ==
    /\ tty = init_screens
    /\ ctrl_pressed = FALSE
    /\ kernel = "running"
    /\ keyboard \in Keyboards
    /\ typed = [s \in Screens |-> <<>>]
    /\ spoiled = FALSE
    /\ phantoms = [s \in Screens |-> 0]

front == tty.active_screen
Pressed(kind) == kernel = "running" /\ kind \in keyboard
Phantom(counts) == phantoms' = [phantoms EXCEPT ![front] = IF counts THEN @ + 1 ELSE @]

TypeLetter(c) ==
    /\ Pressed("letter") /\ ~ctrl_pressed
    /\ Len(typed[front]) < MaxTyped
    /\ tty' = vga_putchar(tty, c)
    /\ typed' = [typed EXCEPT ![front] = Append(@, c)]
    /\ UNCHANGED <<ctrl_pressed, kernel, keyboard, spoiled, phantoms>>

\* Tab, escape and the keys without a character, which come out as 0, are
\* passed to vga_putchar as well.
TypeControl ==
    /\ Pressed("tab") /\ ~ctrl_pressed
    /\ tty.cursor_pos > 0 \/ Rows(tty) < BUFFER_ROWS - 1
    /\ tty' = vga_putchar(tty, "tab")
    /\ Phantom(tty.cursor_pos % VGA_COLS = 0)
    /\ UNCHANGED <<ctrl_pressed, kernel, keyboard, typed, spoiled>>

\* In the first cell of a screen with no row left, the cursor wraps around.
CursorUnderflows ==
    /\ Pressed("tab") /\ ~ctrl_pressed
    /\ tty.cursor_pos = 0 /\ Rows(tty) = BUFFER_ROWS - 1
    /\ kernel' = "astray"
    /\ Phantom(TRUE)
    /\ UNCHANGED <<tty, ctrl_pressed, keyboard, typed, spoiled>>

Backspace ==
    /\ Pressed("backspace") /\ ~ctrl_pressed
    /\ tty' = vga_delete_char(tty)
    /\ LET erases == ~DeleteStops(tty)
           here == typed[front]
       IN  /\ typed' = [typed EXCEPT ![front] =
                          IF erases /\ here # <<>> THEN Front(@) ELSE @]
           /\ spoiled' = (spoiled \/ (erases /\ here = <<>>))
           /\ Phantom(erases /\ LeavesRow(tty) /\ Rows(tty) = BUFFER_ROWS - 1)
    /\ UNCHANGED <<ctrl_pressed, kernel, keyboard>>

\* Enter: shell_exec_cmd.
Enter ==
    /\ Pressed("enter") /\ ~ctrl_pressed
    /\ ~Underruns(tty)
    /\ UNCHANGED <<ctrl_pressed, keyboard>>
Does(deed) ==
    /\ cmdcpy(tty) \in DOMAIN Commands
    /\ Commands[cmdcpy(tty)] = deed

\* The next prompt, after what the command has printed.
Ends(t) ==
    /\ tty' = shell_prompt(t)
    /\ typed' = [typed EXCEPT ![front] = <<>>]
    /\ UNCHANGED <<kernel, spoiled, phantoms>>

UnknownCommand == Enter /\ cmdcpy(tty) \notin DOMAIN Commands /\ Ends(tty)

DisplayCommand ==
    \E deed \in {"gdt", "print-stack"} :
        Enter /\ Does(deed) /\ Ends(vga_puts(tty, <<"newline">> \o Answers[deed]))

Halt == Enter /\ Does("halt") /\ kernel' = "halted" /\ UNCHANGED <<tty, userVars>>

\* system_reboot waits for the keyboard controller, then asks it for a reset.
Reboot == Enter /\ Does("reboot") /\ kernel' = "reset" /\ UNCHANGED <<tty, userVars>>

\* The port that switches the machine off exists on QEMU and Bochs only.
Shutdown ==
    /\ Enter /\ Does("shutdown")
    /\ \/ kernel' = "off" /\ UNCHANGED <<tty, userVars>>
       \/ Ends(tty)

\* The shell reads what lies in front of the screen's cells.
EnterUnderruns ==
    /\ Pressed("enter") /\ ~ctrl_pressed
    /\ Underruns(tty)
    /\ kernel' = "astray"
    /\ UNCHANGED <<tty, ctrl_pressed, keyboard, userVars>>

\* The difference of unsigned numbers wraps around on a screen that is not full.
ArrowUp ==
    /\ Pressed("arrow")
    /\ Offset(tty) <= (Rows(tty) - VGA_ROWS) % Word
    /\ tty' = screen_display([tty EXCEPT !.scroll_offset[front] = (@ + 1) % Short])
    /\ UNCHANGED <<ctrl_pressed, kernel, keyboard, userVars>>

ArrowDown ==
    /\ Pressed("arrow")
    /\ Offset(tty) > 0
    /\ tty' = screen_display([tty EXCEPT !.scroll_offset[front] = @ - 1])
    /\ UNCHANGED <<ctrl_pressed, kernel, keyboard, userVars>>

Ctrl ==
    /\ Pressed("ctrl")
    /\ ctrl_pressed' = ~ctrl_pressed
    /\ UNCHANGED <<tty, kernel, keyboard, userVars>>

CtrlDigit(s) ==
    /\ Pressed("ctrl") /\ ctrl_pressed
    /\ tty' = screen_switch(tty, s)
    /\ UNCHANGED <<ctrl_pressed, kernel, keyboard, userVars>>

Next ==
    \/ \E c \in Letters : TypeLetter(c)
    \/ TypeControl \/ CursorUnderflows \/ Backspace
    \/ UnknownCommand \/ DisplayCommand \/ Halt \/ Reboot \/ Shutdown
    \/ EnterUnderruns \/ ArrowUp \/ ArrowDown \/ Ctrl
    \/ \E s \in Screens : CtrlDigit(s)

Spec == Init /\ [][Next]_vars

----------------------------------------------------------------------------
(* Properties *)

CursorOf(s) == IF s = front THEN tty.cursor_pos ELSE tty.stock_cursor_index[s]

TypeOK ==
    /\ tty.stock \in [0 .. NUM_SCREENS * Size - 1 -> Cells]
    /\ tty.vga_buffer \in [0 .. VGA_ROWS * VGA_COLS - 1 -> Cells]
    /\ tty.active_screen \in Screens
    /\ \A s \in Screens : /\ CursorOf(s) \in 0 .. Size - 1
                          /\ tty.row_count[s] \in 0 .. BUFFER_ROWS - 1
                          /\ tty.scroll_offset[s] \in 0 .. Short - 1
    /\ tty.caret \in 0 .. VGA_ROWS * VGA_COLS
    /\ ctrl_pressed \in BOOLEAN
    /\ kernel \in {"running", "halted", "reset", "off", "astray"}

\* What the user sees is what the buffer holds there, unless backspace has just
\* ended the scrolling: then nothing draws the screen again before it scrolls,
\* breaks a line or is switched.
ShowsStock == ~tty.stale => tty.vga_buffer = View(tty)

\* The row counter is ahead of the cursor by the rows that control characters
\* and deletions at the limit have counted, and never behind it.
RowsAhead ==
    kernel # "astray" =>
        \A s \in Screens : tty.row_count[s] = CursorOf(s) \div VGA_COLS + phantoms[s]

\* The command that Enter runs is what was typed since the prompt, as long as
\* the shell finds that prompt in front of the cursor.
CommandIsTyped ==
    ~Underruns(tty) =>
      LET n == Min({Len(typed[front]), SHELL_CMD_BUFFER_SIZE})
      IN  cmdcpy(tty) = SubSeq(typed[front], Len(typed[front]) - n + 1, Len(typed[front]))

\* The machine stops, restarts or goes off only when the user has typed just
\* that command and nothing else.
StopsWhenTold ==
    [][kernel' \in {"halted", "reset", "off"} /\ kernel = "running" =>
        /\ typed[front] \in DOMAIN Commands
        /\ Commands[typed[front]] =
             CASE kernel' = "halted" -> "halt"
               [] kernel' = "reset" -> "reboot"
               [] kernel' = "off" -> "shutdown"]_vars

\* The blinking caret is where the next character goes, unless the user has
\* scrolled up or the row counter is ahead.
CaretAtCursor ==
    Offset(tty) = 0 /\ phantoms[front] = 0 =>
        tty.caret = tty.cursor_pos - FirstShown(tty) * VGA_COLS

\* Buffer, row counter, video memory and caret agree but for these exceptions.
DisplaySound == TypeOK /\ ShowsStock /\ RowsAhead /\ CaretAtCursor

\* screen.c:105: backspace does not delete past the prompt, so it erases nothing
\* but what has been typed.
ErasesOnlyTyped == ~spoiled

\* A screen that is not in front is left alone, and found as it was left.
OthersUntouched ==
    [][\A s \in {q \in Screens : q # front \/ q # front'} :
        /\ \A i \in s * Size .. (s + 1) * Size - 1 : tty'.stock[i] = tty.stock[i]
        /\ tty'.row_count[s] = tty.row_count[s]
        /\ CursorOf(s)' = CursorOf(s)]_vars

\* screen.c:113: the character at the cursor is cleared in the display too.
ScreenShowsStock == tty.vga_buffer = View(tty)

=============================================================================
