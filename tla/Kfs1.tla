---------------------------------- MODULE Kfs1 ----------------------------------
(***************************************************************************)
(* The kernel of kfs1 bonus: the keyboard driver of utils/keyboard.c, byte *)
(* by byte as the controller delivers them, and the counters of            *)
(* utils/screen.c, utils/scroll.c and kernel.c that it drives.             *)
(*                                                                         *)
(* The characters on the screens are left out: of a screen there is its    *)
(* cursor, its row counter and its scroll offset, and of the display the   *)
(* row of the buffer that is drawn at its top.  queue and port are the     *)
(* keyboard and its controller, held the modifier keys that are down.      *)
(*                                                                         *)
(* torn and phantoms are history variables: the modifiers whose extended   *)
(* press the driver has read in two halves, the second as a code of its    *)
(* own, and for each screen how often a row was counted that the cursor    *)
(* did not enter.                                                          *)
(***************************************************************************)
EXTENDS Integers, Sequences, FiniteSets

CONSTANTS
    VGA_ROWS, VGA_COLS, NUM_SCREENS, BUFFER_ROWS,
    Word,       \* 2^32
    Keyboards,  \* sets of keys: those a user of the kernel presses
    MaxOffset   \* bound on the arrow-up presses on one screen

Screens == 0 .. NUM_SCREENS - 1

\* A key has a scan code, or an extended one behind the byte E0.  Digits are
\* the keys of the first NUM_SCREENS digits, "fn" is any key above the tables,
\* "caps" the one just behind their end.
ShiftKeys == {"lshift", "rshift"}
Modifiers == ShiftKeys \cup {"ctrl"}
Key(ext, code) == [ext |-> ext, code |-> code]
Make(code) == <<code, "make">>
Break(code) == <<code, "break">>
E0 == <<"E0", "make">>
NoByte == <<"none", "make">>

ASSUME Kfs1Assumption ==
    /\ VGA_ROWS \in Nat \ {0} /\ VGA_COLS \in Nat \ {0} /\ NUM_SCREENS \in 1 .. 9
    /\ BUFFER_ROWS \in Nat /\ BUFFER_ROWS > VGA_ROWS
    /\ Word \in Nat /\ Word > (BUFFER_ROWS + 1) * VGA_COLS + MaxOffset
    /\ MaxOffset \in Nat

\* E0 is no key's code.
ASSUME KeyAssumption ==
    \A keys \in Keyboards : \A k \in keys :
        /\ k \in [ext : BOOLEAN, code : STRING]
        /\ k.code \notin {"E0", "none"}

VARIABLES t,                   \* the globals of screen.c and scroll.c
          shift_active, ctrl_active, pc,
          queue, port,         \* bytes on their way, and the one to be read
          held, keyboard, kernel, torn, phantoms

driverVars == <<shift_active, ctrl_active, pc>>
userVars == <<queue, held, keyboard>>
vars == <<t, driverVars, port, userVars, kernel, torn, phantoms>>

----------------------------------------------------------------------------
(* screen.c, scroll.c and kernel.c on a record of their globals *)

Rows(u) == u.row_count[u.active_screen]
Offset(u) == u.scroll_offset[u.active_screen]

\* screen_scroll: the row of the buffer that is drawn at the top.
FirstShown(u) ==
    LET overflow_rows == Rows(u) - VGA_ROWS + 1
    IN  IF Rows(u) < VGA_ROWS \/ Offset(u) > overflow_rows THEN 0
        ELSE overflow_rows - Offset(u)

\* screen_display draws the whole screen.
screen_display(u) == [u EXCEPT !.top = FirstShown(u)]

\* Typing and deleting draw it only when it is scrolled.  Mutant: only when it
\* is scrolled by more than a row.
Refresh_Late(u) == IF Rows(u) > VGA_ROWS THEN screen_display(u) ELSE u
Refresh(u) == IF Rows(u) >= VGA_ROWS THEN screen_display(u) ELSE u

\* A row is complete.  At the limit the buffer moves up instead of the counter,
\* and the cursor with it.
CountRow(u) ==
    IF Rows(u) = BUFFER_ROWS - 1
    THEN [u EXCEPT !.cursor_pos = (@ - VGA_COLS) % Word]
    ELSE [u EXCEPT !.row_count[u.active_screen] = @ + 1]

vga_newline(u) ==
    screen_display(CountRow([u EXCEPT !.cursor_pos = @ + VGA_COLS - (@ % VGA_COLS)]))

\* vga_putchar of a character that is not a newline; only a printable one moves
\* the cursor.
Put(u, printable) ==
    LET live == [u EXCEPT !.scroll_offset[u.active_screen] = 0,
                          !.cursor_pos = IF printable THEN @ + 1 ELSE @]
    IN  Refresh(IF live.cursor_pos % VGA_COLS = 0 THEN CountRow(live) ELSE live)

vga_putchar(u, c) ==
    IF c = "newline"
    THEN vga_newline([u EXCEPT !.scroll_offset[u.active_screen] = 0])
    ELSE Put(u, c # "control")

\* Mutant: the row that backspace leaves stays counted.
vga_delete_char_KeepsRow(u) ==
    IF u.cursor_pos = 0 THEN u
    ELSE Refresh([u EXCEPT !.cursor_pos = @ - 1])
vga_delete_char(u) ==
    LET k == u.cursor_pos - 1
        left == k % VGA_COLS = VGA_COLS - 1 /\ Rows(u) > 0
    IN  IF u.cursor_pos = 0 THEN u
        ELSE Refresh([u EXCEPT !.cursor_pos = k,
                               !.row_count[u.active_screen] = IF left THEN @ - 1 ELSE @])

vga_clear(u) == [u EXCEPT !.cursor_pos = 0, !.row_count[u.active_screen] = 0]

\* Mutant: the cursor of the screen left behind is not saved.
screen_switch_NoSave(u, s) ==
    screen_display([u EXCEPT !.active_screen = s, !.cursor_pos = u.stock_cursor_index[s]])
screen_switch(u, s) ==
    LET saved == [u.stock_cursor_index EXCEPT ![u.active_screen] = u.cursor_pos]
    IN  screen_display([u EXCEPT !.stock_cursor_index = saved, !.active_screen = s,
                                 !.cursor_pos = saved[s]])

\* The welcome line of a screen, shorter than a row, and the next screen's.
Welcome(u, s) == vga_newline(vga_clear(screen_switch(u, s)))
Loaded ==
    [cursor_pos |-> 0, row_count |-> [s \in Screens |-> 0], active_screen |-> 0,
     scroll_offset |-> [s \in Screens |-> 0],
     stock_cursor_index |-> [s \in Screens |-> 0], top |-> 0]
init_screens ==
    LET welcomed[s \in Screens] == Welcome(IF s = 0 THEN Loaded ELSE welcomed[s - 1], s)
    IN  screen_switch(welcomed[NUM_SCREENS - 1], 0)

----------------------------------------------------------------------------
(* keyboard.c *)

Digits == <<"1", "2", "3", "4", "5", "6", "7", "8", "9">>
Digit(s) == Digits[s + 1]

\* keyboard_scancode_to_char.  The code of caps lock is looked up one past the
\* end of the tables, where anything may stand.
Chars(code, shift) ==
    CASE \E s \in Screens : code = Digit(s) -> {IF shift THEN "letter" ELSE code}
      [] code = "letter" -> {"letter"}
      [] code = "enter" -> {"newline"}
      [] code = "caps" -> {"letter", "newline", "control"} \cup {Digit(s) : s \in Screens}
      [] OTHER -> {"control"}

Init ==
    /\ t = init_screens
    /\ shift_active = FALSE /\ ctrl_active = FALSE /\ pc = "poll"
    /\ queue = <<>> /\ port = NoByte
    /\ held = {} /\ keyboard \in Keyboards
    /\ kernel = "running" /\ torn = {}
    /\ phantoms = [s \in Screens |-> 0]

\* The polling loop finds a byte and takes it.
Take == kernel = "running" /\ pc = "poll" /\ port # NoByte /\ port' = NoByte

ReadPrefix ==
    /\ Take /\ port = E0
    /\ pc' = "extended"
    /\ UNCHANGED <<t, shift_active, ctrl_active, userVars, kernel, torn, phantoms>>

\* The second byte is read without asking whether it is there.  When it is not,
\* the controller answers with the last byte, E0, and the code that comes late
\* is taken for that of another key.  Mutant: it loops until it reads an arrow.
ReadExtended_Loops ==
    /\ kernel = "running" /\ pc = "extended"
    /\ port \in {Make("up"), Make("down")}
    /\ UNCHANGED torn
ReadExtended ==
    /\ kernel = "running" /\ pc = "extended"
    /\ torn' = IF port = NoByte /\ Head(queue)[2] = "make"
               THEN torn \cup ({Head(queue)[1]} \cap Modifiers) ELSE torn

\* The difference of unsigned numbers wraps around on a screen that is not full.
CanScrollUp(u) == Offset(u) <= (Rows(u) - VGA_ROWS) % Word

Extended ==
    /\ ReadExtended
    /\ pc' = "poll" /\ port' = NoByte
    /\ UNCHANGED <<shift_active, ctrl_active, userVars, kernel, phantoms>>
ArrowUp ==
    /\ Extended
    /\ port = Make("up") /\ CanScrollUp(t)
    /\ t' = screen_display([t EXCEPT !.scroll_offset[t.active_screen] = @ + 1])
ArrowDown ==
    /\ Extended
    /\ port = Make("down") /\ Offset(t) > 0
    /\ t' = screen_display([t EXCEPT !.scroll_offset[t.active_screen] = @ - 1])
OtherExtended ==
    /\ Extended
    /\ ~(port = Make("up") /\ CanScrollUp(t))
    /\ ~(port = Make("down") /\ Offset(t) > 0)
    /\ UNCHANGED t

\* The bytes that end shift.  Mutant: the right shift key is forgotten.
ShiftBreaks_LeftOnly == {Break("lshift")}
ShiftBreaks == {Break("lshift"), Break("rshift")}

Shift ==
    /\ Take
    /\ \/ port \in {Make("lshift"), Make("rshift")} /\ shift_active' = TRUE
       \/ port \in ShiftBreaks /\ shift_active' = FALSE
    /\ UNCHANGED <<t, ctrl_active, pc, userVars, kernel, torn, phantoms>>

CtrlAfter(b) == b = Make("ctrl")
Ctrl ==
    /\ Take
    /\ port \in {Make("ctrl"), Break("ctrl")}
    /\ ctrl_active' = CtrlAfter(port)
    /\ UNCHANGED <<t, shift_active, pc, userVars, kernel, torn, phantoms>>

\* Any other byte.
TakePlain ==
    /\ Take
    /\ port \notin {E0, Make("lshift"), Make("rshift"), Make("ctrl"), Break("ctrl")}
    /\ port \notin ShiftBreaks
    /\ UNCHANGED <<driverVars, userVars, torn>>

SwitchScreen(s) ==
    /\ TakePlain /\ ctrl_active
    /\ port[2] = "make" /\ Digit(s) \in Chars(port[1], shift_active)
    /\ t' = screen_switch(t, s)
    /\ UNCHANGED <<kernel, phantoms>>

CtrlOther ==
    /\ TakePlain /\ ctrl_active
    /\ \/ port[2] = "break"
       \/ \E c \in Chars(port[1], shift_active) : \A s \in Screens : c # Digit(s)
    /\ UNCHANGED <<t, kernel, phantoms>>

Backspace ==
    /\ TakePlain /\ ~ctrl_active
    /\ port = Make("backspace")
    /\ t' = vga_delete_char(t)
    /\ UNCHANGED <<kernel, phantoms>>

\* In the first cell of a screen whose counter is at its limit the cursor wraps
\* around.  What is written from then on is outside of the buffer.
TypeKey(c) ==
    /\ TakePlain /\ ~ctrl_active
    /\ port # Make("backspace") /\ port[2] = "make"
    /\ c \in Chars(port[1], shift_active)
    /\ t' = vga_putchar(t, c)
    /\ kernel' = IF t'.cursor_pos < BUFFER_ROWS * VGA_COLS THEN "running" ELSE "astray"
    /\ phantoms' = [phantoms EXCEPT ![t.active_screen] =
                       IF c = "control" /\ t.cursor_pos % VGA_COLS = 0 THEN @ + 1 ELSE @]

Ignored ==
    /\ TakePlain /\ ~ctrl_active
    /\ port[2] = "break"
    /\ UNCHANGED <<t, kernel, phantoms>>

Poll ==
    \/ ReadPrefix \/ ArrowUp \/ ArrowDown \/ OtherExtended
    \/ Shift \/ Ctrl \/ CtrlOther \/ Backspace \/ Ignored
    \/ \E s \in Screens : SwitchScreen(s)
    \/ \E c \in {"letter", "newline", "control"} \cup {Digit(s) : s \in Screens} :
         TypeKey(c)

----------------------------------------------------------------------------
(* The keyboard and its controller, which holds one byte at a time.  Bound: *)
(* the user waits until the keyboard has sent what there was to send.       *)

Deliver ==
    /\ kernel = "running" /\ port = NoByte /\ queue # <<>>
    /\ port' = Head(queue) /\ queue' = Tail(queue)
    /\ UNCHANGED <<t, driverVars, held, keyboard, kernel, torn, phantoms>>

Bytes(k, b) == IF k.ext THEN <<E0, b>> ELSE <<b>>

\* The modifiers that a hand holds down.  The extended codes of shift are not
\* among them: a keyboard sends those around the codes of its arrow keys.
Holds(k) == k.code \in Modifiers /\ ~(k.ext /\ k.code \in ShiftKeys)

Press(k) ==
    /\ kernel = "running" /\ queue = <<>> /\ k \notin held
    /\ k.code = "up" => Offset(t) < MaxOffset /\ port = NoByte /\ pc = "poll"
    /\ queue' = Bytes(k, Make(k.code))
    /\ held' = IF Holds(k) THEN held \cup {k} ELSE held
    /\ UNCHANGED <<t, driverVars, port, keyboard, kernel, torn, phantoms>>

Release(k) ==
    /\ kernel = "running" /\ queue = <<>>
    /\ Holds(k) => k \in held
    /\ queue' = Bytes(k, Break(k.code))
    /\ held' = held \ {k}
    /\ UNCHANGED <<t, driverVars, port, keyboard, kernel, torn, phantoms>>

User == \E k \in keyboard : Press(k) \/ Release(k)

Next == Poll \/ Deliver \/ User

\* The loop polls for ever and the controller delivers; the user may stop.
Spec == Init /\ [][Next]_vars /\ WF_vars(Poll) /\ WF_vars(Deliver)

----------------------------------------------------------------------------
(* Properties *)

CursorOf(s) == IF s = t.active_screen THEN t.cursor_pos ELSE t.stock_cursor_index[s]
RowOf(s) == CursorOf(s) \div VGA_COLS
Drained == queue = <<>> /\ port = NoByte /\ pc = "poll"

TypeOK ==
    /\ t.active_screen \in Screens
    /\ t.row_count \in [Screens -> 0 .. BUFFER_ROWS - 1]
    /\ t.scroll_offset \in [Screens -> 0 .. MaxOffset]
    /\ kernel = "running" => \A s \in Screens : CursorOf(s) \in 0 .. BUFFER_ROWS * VGA_COLS - 1
    /\ t.top \in 0 .. BUFFER_ROWS - VGA_ROWS
    /\ shift_active \in BOOLEAN /\ ctrl_active \in BOOLEAN
    /\ torn \subseteq Modifiers
    /\ pc \in {"poll", "extended"} /\ kernel \in {"running", "astray"}
    /\ held \subseteq keyboard

\* Through typing, deleting, scrolling and switching, the row counter of a
\* screen is ahead of its cursor by the control characters typed at the start
\* of a row, and by nothing else.
RowsAhead ==
    kernel = "running" =>
        \A s \in Screens : t.row_count[s] = RowOf(s) + phantoms[s]

\* The cursor leaves the buffer no earlier than when a whole buffer of rows has
\* been counted that it did not enter.
AstrayIsLate == kernel = "astray" => phantoms[t.active_screen] = BUFFER_ROWS

\* Counter and cursor of a screen drift apart by control characters alone, and
\* only a whole buffer of them drives the cursor out.
RowsCounted == TypeOK /\ RowsAhead /\ AstrayIsLate

\* The display shows the rows it should, but for the one case in which it is
\* stale: backspace has crossed the row at which scrolling starts, the display
\* is not redrawn then (screen.c:171) and stays one row too far down.
TopFollows ==
    \/ t.top = FirstShown(t)
    \/ t.top = 1 /\ Rows(t) < VGA_ROWS

\* Where nothing of this has happened, the cursor is on the display.
CursorOnDisplay ==
    phantoms[t.active_screen] = 0 /\ Offset(t) = 0 /\ t.top = FirstShown(t) =>
        RowOf(t.active_screen) \in t.top .. t.top + VGA_ROWS - 1

\* What is drawn follows what is typed, deleted, scrolled and switched to, and
\* is never further off than that one row.
DisplayFollows == TopFollows /\ CursorOnDisplay

\* A screen that is not in front is left alone, and found as it was left.
OthersUntouched ==
    [][\A s \in Screens : s # t.active_screen \/ s # t'.active_screen =>
        /\ t'.row_count[s] = t.row_count[s]
        /\ t'.scroll_offset[s] = t.scroll_offset[s]
        /\ CursorOf(s)' = CursorOf(s)]_vars

\* When all keys are up and all bytes read, shift is off, whatever the order in
\* which two shift keys went down and up, unless the driver has torn apart an
\* extended press of shift itself and taken the late half for the key.
NoStuckShift ==
    Drained /\ held = {} /\ torn \cap ShiftKeys = {} => ~shift_active

\* The same for control: only a torn press of right control can leave it on.
NoStuckCtrl == Drained /\ held = {} /\ "ctrl" \notin torn => ~ctrl_active

\* A modifier sticks only when an extended press of that very modifier came in
\* two halves (keyboard.c:134): no other code, torn or whole, switches it on.
NoStuckModifier == NoStuckShift /\ NoStuckCtrl

\* If the user stops, everything typed is read, unless the cursor went astray.
AllRead == <>[][~User]_vars => <>[](Drained \/ kernel = "astray")

(* What the comments of the code say, and the code does not do. *)

\* screen.c:170: a deletion updates the display, so the display always shows
\* the rows it should.
DisplayUpdated == t.top = FirstShown(t)

\* keyboard.c:131: the codes behind E0 are handled apart, so the extended codes
\* of control and shift, which the handler skips, never switch them on.
ModifiersEnd == Drained /\ held = {} => ~shift_active /\ ~ctrl_active

=============================================================================
