------------------------------- MODULE Console --------------------------------
(***************************************************************************)
(* The screens of the mandatory parts: one display, and a cursor that only *)
(* prints move.  kfs3 scrolls it, and its kernel_panic takes it over; kfs1 *)
(* and kfs2 never scroll, and rely on what their main prints.              *)
(*                                                                         *)
(* A cell is blank, a letter, or junk that the firmware left.  cpu is      *)
(* "booting" until main has cleared the display.                           *)
(***************************************************************************)
EXTENDS Integers, Sequences, FiniteSets, TLC
LOCAL INSTANCE SequencesExt

CONSTANTS
    ROWS, COLS,   \* 25 and 80
    Letters,      \* what kfs3 prints
    FirstRows,    \* 4, the rows of the report that the boot of kfs2 prints
    ReportRows,   \* 24, the rows that main of kfs2 prints
    PanicRows,    \* 17, the rows of kernel_panic above its stack trace
    MaxFrames     \* 5, the longest stack trace

Programs == {"kfs1_mandatory", "kfs2_mandatory", "kfs3_mandatory"}
Cells == 0 .. ROWS * COLS - 1

\* The report of kfs2 and the panic of kfs3 fit on the display.
ASSUME ConsoleAssumption ==
    /\ ROWS \in Nat \ {0} /\ COLS \in Nat \ {0, 1}
    /\ Letters \cap {"blank", "junk", "newline"} = {}
    /\ FirstRows \in Nat /\ PanicRows \in Nat /\ MaxFrames \in Nat
    /\ ReportRows \in Nat /\ ReportRows < ROWS
    /\ PanicRows + MaxFrames + 2 <= ROWS

VARIABLES
    program, cpu,
    display, cursor,
    printed,    \* the rows that kfs2 has printed
    astray      \* whether a cell outside the display has been written

vars == <<program, cpu, display, cursor, printed, astray>>

----------------------------------------------------------------------------
(* screen.c, on a screen: the cells, the cursor, and whether it is astray *)

Screen == [cells |-> display, at |-> cursor, astray |-> astray]
Becomes(s) == display' = s.cells /\ cursor' = s.at /\ astray' = s.astray

Put(s, c) == [cells  |-> IF s.at \in Cells THEN [s.cells EXCEPT ![s.at] = c]
                         ELSE s.cells,
              at     |-> s.at + 1,
              astray |-> s.astray \/ s.at \notin Cells]
Blank(cells) == [i \in DOMAIN cells |-> "blank"]

\* kfs3: the display moves up when the cursor has left it.  Mutant: the last
\* row keeps its cells.
MovedUp(s) == [i \in Cells |-> IF i + COLS \in Cells THEN s.cells[i + COLS]
                               ELSE "blank"]
Scrolled_NotCleared(s) ==
    IF s.at < ROWS * COLS THEN s
    ELSE [s EXCEPT !.at = (ROWS - 1) * COLS,
                   !.cells = [i \in Cells |-> IF i + COLS \in Cells
                                              THEN MovedUp(s)[i] ELSE @[i]]]
Scrolled(s) ==
    IF s.at < ROWS * COLS THEN s
    ELSE [s EXCEPT !.at = (ROWS - 1) * COLS, !.cells = MovedUp(s)]

vga_newline(s) == [s EXCEPT !.at = @ + COLS - (@ % COLS)]
vga_puts(s, letters) == FoldLeft(Put, s, letters)

print_new_line(s) == Scrolled(vga_newline(s))
print_char(s, c) == IF c = "newline" THEN print_new_line(s) ELSE Scrolled(Put(s, c))
print_str(s, letters) == FoldLeft(print_char, s, letters)

\* clear_screen and vga_clear.
Cleared(s) == [s EXCEPT !.cells = Blank(@), !.at = 0]

\* vga_puts_centered: the column is clamped by vga_set_cursor_pos.
Column(len) == IF len > COLS THEN 0 ELSE (COLS - len) \div 2
vga_puts_centered(s, letters, row) ==
    vga_puts([s EXCEPT !.at = row * COLS + Column(Len(letters))], letters)

\* kernel_panic of kfs3 prints rows of its own, the frames of the stack and a
\* last row that it does not end.
PanicText(frames) ==
    FlattenSeq([i \in 1 .. PanicRows + frames + 1 |-> <<"panic", "newline">>])
      \o <<"panic">>

\* Mutant: the cursor stays where it was.
kernel_panic_KeepsCursor(s, frames) ==
    print_str([s EXCEPT !.cells = Blank(@)], PanicText(frames))
kernel_panic(s, frames) ==
    print_str([s EXCEPT !.cells = Blank(@), !.at = 0], PanicText(frames))

----------------------------------------------------------------------------
(* The kernels *)

Init ==
    /\ program \in Programs
    /\ cpu = "booting" /\ display = [i \in Cells |-> "junk"]
    /\ cursor = IF program = "kfs2_mandatory" THEN FirstRows * COLS ELSE 0
    /\ printed = 0 /\ astray = FALSE

Start ==
    /\ cpu = "booting"
    /\ cpu' = "running"
    /\ Becomes(Cleared(Screen))
    /\ UNCHANGED <<program, printed>>

\* main of kfs1 prints one text in the middle and returns.
Centers ==
    /\ program = "kfs1_mandatory" /\ cpu = "running"
    /\ Becomes(vga_puts_centered(Screen, <<"4", "2">>, ROWS \div 2))
    /\ cpu' = "halted"
    /\ UNCHANGED <<program, printed>>

\* main of kfs2 prints rows shorter than the display, and returns.
Reports ==
    /\ program = "kfs2_mandatory" /\ cpu = "running"
    /\ \E len \in 0 .. COLS - 1 :
         Becomes(vga_newline(vga_puts(Screen, [i \in 1 .. len |-> "row"])))
    /\ printed' = printed + 1
    /\ cpu' = IF printed' = ReportRows THEN "halted" ELSE cpu
    /\ UNCHANGED program

\* kfs3 prints what it likes, until it panics, maybe.
Prints ==
    /\ program = "kfs3_mandatory" /\ cpu = "running"
    /\ \E c \in Letters \cup {"newline"} : Becomes(print_char(Screen, c))
    /\ UNCHANGED <<program, cpu, printed>>

Panics ==
    /\ program = "kfs3_mandatory" /\ cpu = "running"
    /\ \E frames \in 0 .. MaxFrames : Becomes(kernel_panic(Screen, frames))
    /\ cpu' = "panicked"
    /\ UNCHANGED <<program, printed>>

Next == Start \/ Centers \/ Reports \/ Prints \/ Panics
Spec == Init /\ [][Next]_vars

----------------------------------------------------------------------------
(* Properties *)

\* While a program can still print, its cursor is on the display.
TypeOK ==
    /\ program \in Programs
    /\ cpu \in {"booting", "running", "halted", "panicked"}
    /\ display \in [Cells -> Letters \cup {"blank", "junk", "4", "2", "row", "panic"}]
    /\ cursor \in Nat /\ (cpu = "running" => cursor \in Cells)
    /\ printed \in 0 .. ReportRows /\ astray \in BOOLEAN

\* The screens of kfs1 and kfs2 have no bound in their code, and nothing is
\* ever written behind the display.
InsideDisplay == ~astray

\* A panic can be read in full: none of its rows scrolls away while it prints.
PanicInFull ==
    cpu = "panicked" =>
        Cardinality({i \in Cells : display[i] = "panic" /\ i % COLS = 0})
          \in PanicRows + 2 .. PanicRows + MaxFrames + 2

\* Everything printed lands on the display, a panic to its last row.
PrintingSound == TypeOK /\ InsideDisplay /\ PanicInFull

\* The display is the end of a text to which rows are only added: Scrollback
\* with one screen of ROWS rows.  A row of the text is what is left of the
\* first blank.
Row(r) == LET filled == {c \in 0 .. COLS - 1 : display[r * COLS + c] # "blank"}
          IN  [c \in 1 .. Cardinality(filled) |-> display[r * COLS + c - 1]]
OneRow == << <<>> >>
Text == IF cpu = "booting" \/ program = "kfs1_mandatory" THEN OneRow
        ELSE [r \in 1 .. (cursor \div COLS) + 1 |-> Row(r - 1)]

Said == {<<c>> : c \in Letters \cup {"newline"}}
          \cup {[i \in 1 .. len |-> "row"] \o <<"newline">> : len \in 0 .. COLS - 1}
          \cup {PanicText(frames) : frames \in 0 .. MaxFrames}
Paper == INSTANCE Scrollback WITH Columns <- COLS, BufferRows <- ROWS,
                                  Scripts <- Said, Greetings <- (0 :> <<>>),
                                  text <- (0 :> Text), front <- 0
ImplementsScrollback == Paper!Spec

=============================================================================
