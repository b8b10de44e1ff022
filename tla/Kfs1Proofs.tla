------------------------------- MODULE Kfs1Proofs -------------------------------
(***************************************************************************)
(* Proofs about the kernel of kfs1, for every size of the screen and the   *)
(* buffer, every number of screens and every set of keys.                  *)
(*                                                                         *)
(* The first part is about the operations on the globals of screen.c, the  *)
(* second about the bytes between the keyboard and its driver.             *)
(***************************************************************************)
EXTENDS Kfs1, NatFacts

LEMMA Constants ==
    /\ VGA_ROWS \in Nat \ {0} /\ VGA_COLS \in Nat \ {0}
    /\ BUFFER_ROWS \in Nat /\ BUFFER_ROWS > VGA_ROWS
    /\ MaxOffset \in Nat /\ Word \in Nat \ {0}
    /\ BUFFER_ROWS * VGA_COLS \in Nat
    /\ Word > BUFFER_ROWS * VGA_COLS + VGA_COLS
    /\ NUM_SCREENS \in Nat \ {0} /\ Screens = 0 .. NUM_SCREENS - 1 /\ 0 \in Screens
  <1>1. /\ VGA_ROWS \in Nat \ {0} /\ VGA_COLS \in Nat \ {0}
        /\ BUFFER_ROWS \in Nat /\ BUFFER_ROWS > VGA_ROWS /\ MaxOffset \in Nat
        /\ Word \in Nat /\ Word > (BUFFER_ROWS + 1) * VGA_COLS + MaxOffset
        /\ NUM_SCREENS \in Nat \ {0}
    BY Kfs1Assumption
  <1>2. /\ (BUFFER_ROWS + 1) * VGA_COLS = BUFFER_ROWS * VGA_COLS + VGA_COLS
        /\ BUFFER_ROWS * VGA_COLS \in Nat
    BY <1>1
  <1>3. Screens = 0 .. NUM_SCREENS - 1 /\ 0 \in Screens
    BY <1>1 DEF Screens
  <1>4. QED
    BY <1>1, <1>2, <1>3

----------------------------------------------------------------------------
(* The row a cursor is in *)

\* The cells of the buffer, and the row of one.
Cells == 0 .. BUFFER_ROWS * VGA_COLS - 1

LEMMA RowOfCell ==
    ASSUME NEW c \in Cells
    PROVE  /\ c \in Nat /\ c \div VGA_COLS \in 0 .. BUFFER_ROWS - 1
           /\ c % VGA_COLS \in 0 .. VGA_COLS - 1
           /\ c = (c \div VGA_COLS) * VGA_COLS + (c % VGA_COLS)
  <1>1. c \in Nat /\ c < BUFFER_ROWS * VGA_COLS /\ VGA_COLS \in Nat \ {0}
        /\ BUFFER_ROWS \in Nat
    BY Constants DEF Cells
  <1> DEFINE q == c \div VGA_COLS
  <1>2. /\ q \in Nat /\ c % VGA_COLS \in Nat /\ c % VGA_COLS < VGA_COLS
        /\ c = q * VGA_COLS + (c % VGA_COLS)
    BY <1>1, DivMod
  <1>3. BUFFER_ROWS <= q => BUFFER_ROWS * VGA_COLS <= q * VGA_COLS
    BY <1>1, <1>2, TimesMonotonic
  <1> HIDE DEF q
  <1>4. q < BUFFER_ROWS
    BY <1>1, <1>2, <1>3
  <1>5. QED
    BY <1>1, <1>2, <1>4 DEF q

\* A number of a row below the end of the buffer belongs to a cell.
LEMMA CellOfRow ==
    ASSUME NEW c \in Nat
    PROVE  c \in Cells <=> c \div VGA_COLS < BUFFER_ROWS
  <1>1. VGA_COLS \in Nat \ {0} /\ BUFFER_ROWS \in Nat /\ BUFFER_ROWS * VGA_COLS \in Nat
    BY Constants
  <1>2. c \in Cells => c \div VGA_COLS < BUFFER_ROWS
    BY <1>1, RowOfCell
  <1> DEFINE q == c \div VGA_COLS
  <1>3. q \in Nat /\ c < (q + 1) * VGA_COLS
    BY <1>1, DivBounds
  <1>4. q + 1 <= BUFFER_ROWS => (q + 1) * VGA_COLS <= BUFFER_ROWS * VGA_COLS
    BY <1>1, <1>3, TimesMonotonic
  <1> HIDE DEF q
  <1>5. q < BUFFER_ROWS => c < BUFFER_ROWS * VGA_COLS
    BY <1>1, <1>3, <1>4
  <1>6. QED
    BY <1>1, <1>2, <1>5 DEF q, Cells

\* One cell on, and one back.
LEMMA NextCell ==
    ASSUME NEW c \in Nat
    PROVE  /\ (c + 1) % VGA_COLS = 0 =>
                (c + 1) \div VGA_COLS = c \div VGA_COLS + 1
           /\ (c + 1) % VGA_COLS # 0 =>
                (c + 1) \div VGA_COLS = c \div VGA_COLS
           /\ (c + 1) % VGA_COLS = 0 <=> c % VGA_COLS = VGA_COLS - 1
  <1> DEFINE q == c \div VGA_COLS
             m == c % VGA_COLS
  <1>1. VGA_COLS \in Nat \ {0}
    BY Constants
  <1>2. q \in Nat /\ m \in Nat /\ m < VGA_COLS /\ c = q * VGA_COLS + m
    BY <1>1, DivMod
  <1> HIDE DEF q, m
  <1>3. CASE m = VGA_COLS - 1
    <2>1. MadeOf(c + 1, VGA_COLS, q + 1, 0)
      BY <1>1, <1>2, <1>3 DEF MadeOf
    <2>2. (c + 1) \div VGA_COLS = q + 1 /\ (c + 1) % VGA_COLS = 0
      BY <1>1, <1>2, <2>1, DivModUnique
    <2>3. QED
      BY <1>3, <2>2 DEF q, m
  <1>4. CASE m # VGA_COLS - 1
    <2>1. MadeOf(c + 1, VGA_COLS, q, m + 1)
      BY <1>1, <1>2, <1>4 DEF MadeOf
    <2>2. (c + 1) \div VGA_COLS = q /\ (c + 1) % VGA_COLS = m + 1
      BY <1>1, <1>2, <2>1, DivModUnique
    <2>3. m + 1 # 0
      BY <1>2
    <2>4. QED
      BY <1>4, <2>2, <2>3 DEF q, m
  <1>5. QED
    BY <1>3, <1>4

\* The start of the next row.
LEMMA NextRow ==
    ASSUME NEW c \in Nat, NEW d, d = c + VGA_COLS - (c % VGA_COLS)
    PROVE  d \in Nat /\ d \div VGA_COLS = c \div VGA_COLS + 1 /\ d % VGA_COLS = 0
  <1> DEFINE q == c \div VGA_COLS
             m == c % VGA_COLS
  <1>1. VGA_COLS \in Nat \ {0}
    BY Constants
  <1>2. q \in Nat /\ m \in Nat /\ m < VGA_COLS /\ c = q * VGA_COLS + m
    BY <1>1, DivMod
  <1>3. d = c + VGA_COLS - m
    OBVIOUS
  <1> HIDE DEF q, m
  <1>4. MadeOf(d, VGA_COLS, q + 1, 0)
    BY <1>1, <1>2, <1>3 DEF MadeOf
  <1>5. QED
    BY <1>1, <1>2, <1>4, DivModUnique DEF q

\* The buffer moves up, and the cursor with it: into the row above, or out of
\* the buffer if there is none.
LEMMA RowAbove ==
    ASSUME NEW c \in Nat, c < BUFFER_ROWS * VGA_COLS + VGA_COLS,
           NEW d, d = (c - VGA_COLS) % Word
    PROVE  /\ d \in Nat
           /\ VGA_COLS <= c => d \div VGA_COLS = c \div VGA_COLS - 1
           /\ c = 0 => d \notin Cells
           /\ c \div VGA_COLS # 0 => VGA_COLS <= c
  <1> DEFINE q == c \div VGA_COLS
             m == c % VGA_COLS
  <1>1. /\ VGA_COLS \in Nat \ {0} /\ Word \in Nat \ {0} /\ BUFFER_ROWS * VGA_COLS \in Nat
        /\ Word > BUFFER_ROWS * VGA_COLS + VGA_COLS
    BY Constants
  <1>2. q \in Nat /\ m \in Nat /\ m < VGA_COLS /\ c = q * VGA_COLS + m
    BY <1>1, DivMod
  <1> HIDE DEF q, m
  <1>3. d \in Nat
    BY <1>1
  <1>4. ASSUME VGA_COLS <= c PROVE d \div VGA_COLS = q - 1
    <2>1. d = c - VGA_COLS
      BY <1>1, <1>4, ModOfSmall
    <2>2. q # 0
      BY <1>1, <1>2, <1>4
    <2>3. MadeOf(d, VGA_COLS, q - 1, m)
      BY <1>1, <1>2, <2>1, <2>2 DEF MadeOf
    <2>4. QED
      BY <1>1, <1>2, <2>3, DivModUnique
  <1>5. ASSUME c = 0 PROVE d \notin Cells
    <2>1. d = c - VGA_COLS + Word
      BY <1>1, <1>5, ModOfSmall
    <2>2. QED
      BY <1>1, <1>5, <2>1 DEF Cells
  <1>6. ASSUME q # 0 PROVE VGA_COLS <= c
    <2>1. 1 * VGA_COLS <= q * VGA_COLS
      BY <1>1, <1>2, <1>6, TimesMonotonic
    <2>2. q * VGA_COLS \in Nat
      BY <1>1, <1>2
    <2>3. QED
      BY <1>1, <1>2, <2>1, <2>2
  <1>7. QED
    BY <1>3, <1>4, <1>5, <1>6 DEF q

----------------------------------------------------------------------------
(* The operations on the globals of screen.c *)

Globals ==
    [cursor_pos : Nat, row_count : [Screens -> 0 .. BUFFER_ROWS - 1],
     active_screen : Screens, scroll_offset : [Screens -> Nat],
     stock_cursor_index : [Screens -> Nat], top : 0 .. BUFFER_ROWS - VGA_ROWS]

\* The display follows, as TopFollows states it of t.
Follows(u) == u.top = FirstShown(u) \/ (u.top = 1 /\ Rows(u) < VGA_ROWS)

\* w is u but for the cursor, the display and the counter and offset of the
\* screen in front.
OnlyInFront(u, w) ==
    /\ w \in Globals
    /\ w.active_screen = u.active_screen
    /\ w.stock_cursor_index = u.stock_cursor_index
    /\ \A s \in Screens : s # u.active_screen =>
         w.row_count[s] = u.row_count[s] /\ w.scroll_offset[s] = u.scroll_offset[s]

\* w is u after the row that ends before cell c has been counted.
RowIsCounted(u, w, c) ==
    /\ Rows(u) = BUFFER_ROWS - 1 =>
         Rows(w) = Rows(u) /\ w.cursor_pos = (c - VGA_COLS) % Word
    /\ Rows(u) # BUFFER_ROWS - 1 => Rows(w) = Rows(u) + 1 /\ w.cursor_pos = c

LEMMA GlobalsTyped ==
    ASSUME NEW u \in Globals
    PROVE  /\ u.cursor_pos \in Nat /\ u.active_screen \in Screens
           /\ u.row_count \in [Screens -> 0 .. BUFFER_ROWS - 1]
           /\ u.scroll_offset \in [Screens -> Nat]
           /\ u.stock_cursor_index \in [Screens -> Nat]
           /\ u.top \in 0 .. BUFFER_ROWS - VGA_ROWS
           /\ Rows(u) \in 0 .. BUFFER_ROWS - 1 /\ Offset(u) \in Nat
  BY DEF Globals, Rows, Offset

LEMMA FirstShownBounds ==
    ASSUME NEW u \in Globals
    PROVE  /\ FirstShown(u) \in 0 .. BUFFER_ROWS - VGA_ROWS
           /\ Rows(u) < VGA_ROWS => FirstShown(u) = 0
           /\ Rows(u) >= VGA_ROWS /\ Offset(u) = 0 =>
                FirstShown(u) = Rows(u) - VGA_ROWS + 1
           /\ Rows(u) = VGA_ROWS => FirstShown(u) \in {0, 1}
  BY GlobalsTyped, Constants DEF FirstShown

LEMMA DisplayFacts ==
    ASSUME NEW u \in Globals, NEW w, w = screen_display(u)
    PROVE  /\ w \in Globals /\ w.top = FirstShown(w) /\ w.top = FirstShown(u)
           /\ w.cursor_pos = u.cursor_pos /\ w.row_count = u.row_count
           /\ w.active_screen = u.active_screen /\ w.scroll_offset = u.scroll_offset
           /\ w.stock_cursor_index = u.stock_cursor_index
           /\ Rows(w) = Rows(u) /\ Offset(w) = Offset(u)
  <1>1. FirstShown(u) \in 0 .. BUFFER_ROWS - VGA_ROWS
    BY FirstShownBounds
  <1> DEFINE first == FirstShown(u)
  <1> HIDE DEF first
  <1>2. w = [u EXCEPT !.top = first]
    BY DEF screen_display, first
  <1>3. /\ w \in Globals /\ w.top = first
        /\ w.cursor_pos = u.cursor_pos /\ w.row_count = u.row_count
        /\ w.active_screen = u.active_screen /\ w.scroll_offset = u.scroll_offset
        /\ w.stock_cursor_index = u.stock_cursor_index
    BY <1>1, <1>2 DEF Globals, first
  <1>4. Rows(w) = Rows(u) /\ Offset(w) = Offset(u)
    BY <1>3 DEF Rows, Offset
  <1>5. FirstShown(w) = FirstShown(u)
    BY <1>4 DEF FirstShown
  <1>6. QED
    BY <1>3, <1>4, <1>5 DEF first

LEMMA CountRowFacts ==
    ASSUME NEW u \in Globals, NEW w, w = CountRow(u)
    PROVE  /\ w \in Globals /\ w.active_screen = u.active_screen
           /\ w.scroll_offset = u.scroll_offset /\ w.top = u.top
           /\ w.stock_cursor_index = u.stock_cursor_index
           /\ \A s \in Screens : s # u.active_screen => w.row_count[s] = u.row_count[s]
           /\ RowIsCounted(u, w, u.cursor_pos)
  <1>1. /\ u.active_screen \in Screens /\ u.cursor_pos \in Nat
        /\ u.row_count \in [Screens -> 0 .. BUFFER_ROWS - 1]
        /\ Rows(u) \in 0 .. BUFFER_ROWS - 1 /\ Rows(u) = u.row_count[u.active_screen]
        /\ VGA_COLS \in Nat /\ Word \in Nat \ {0} /\ BUFFER_ROWS \in Nat
    BY GlobalsTyped, Constants DEF Rows
  <1>2. CASE Rows(u) = BUFFER_ROWS - 1
    <2> DEFINE c == (u.cursor_pos - VGA_COLS) % Word
    <2>1. c \in Nat
      BY <1>1
    <2> HIDE DEF c
    <2>2. w = [u EXCEPT !.cursor_pos = c]
      BY <1>2 DEF CountRow, c
    <2>3. /\ w \in Globals /\ w.active_screen = u.active_screen
          /\ w.scroll_offset = u.scroll_offset /\ w.top = u.top
          /\ w.stock_cursor_index = u.stock_cursor_index
          /\ w.row_count = u.row_count /\ w.cursor_pos = c
      BY <2>1, <2>2 DEF Globals
    <2>4. Rows(w) = Rows(u)
      BY <2>3 DEF Rows
    <2>5. RowIsCounted(u, w, u.cursor_pos)
      BY <1>2, <2>3, <2>4 DEF RowIsCounted, c
    <2>6. QED
      BY <2>3, <2>5
  <1>3. CASE Rows(u) # BUFFER_ROWS - 1
    <2> DEFINE rows == [u.row_count EXCEPT ![u.active_screen] = Rows(u) + 1]
    <2>1. /\ rows \in [Screens -> 0 .. BUFFER_ROWS - 1]
          /\ rows[u.active_screen] = Rows(u) + 1
          /\ \A s \in Screens : s # u.active_screen => rows[s] = u.row_count[s]
      BY <1>1, <1>3
    <2>2. w = [u EXCEPT !.row_count = rows]
      BY <1>1, <1>3 DEF CountRow, Globals
    <2> HIDE DEF rows
    <2>3. /\ w \in Globals /\ w.active_screen = u.active_screen
          /\ w.scroll_offset = u.scroll_offset /\ w.top = u.top
          /\ w.stock_cursor_index = u.stock_cursor_index
          /\ w.row_count = rows /\ w.cursor_pos = u.cursor_pos
      BY <2>1, <2>2 DEF Globals
    <2>4. Rows(w) = Rows(u) + 1
      BY <2>1, <2>3 DEF Rows
    <2>5. RowIsCounted(u, w, u.cursor_pos)
      BY <1>3, <2>3, <2>4 DEF RowIsCounted
    <2>6. QED
      BY <2>1, <2>3, <2>5
  <1>4. QED
    BY <1>2, <1>3

LEMMA NewlineFacts ==
    ASSUME NEW u \in Globals, NEW w, w = vga_newline(u),
           NEW c, c = u.cursor_pos + VGA_COLS - (u.cursor_pos % VGA_COLS)
    PROVE  /\ OnlyInFront(u, w) /\ w.scroll_offset = u.scroll_offset
           /\ w.top = FirstShown(w) /\ RowIsCounted(u, w, c)
  <1> DEFINE moved == [u EXCEPT !.cursor_pos = c]
             counted == CountRow(moved)
  <1>1. u.cursor_pos \in Nat /\ VGA_COLS \in Nat \ {0}
    BY GlobalsTyped, Constants
  <1>2. c \in Nat
    BY <1>1, NextRow
  <1>3. w = screen_display(counted)
    BY DEF vga_newline, Globals
  <1>4. /\ moved \in Globals /\ moved.cursor_pos = c
        /\ moved.row_count = u.row_count /\ moved.active_screen = u.active_screen
        /\ moved.scroll_offset = u.scroll_offset
        /\ moved.stock_cursor_index = u.stock_cursor_index
    BY <1>2 DEF Globals
  <1> HIDE DEF moved
  <1>5. /\ counted \in Globals /\ counted.active_screen = u.active_screen
        /\ counted.scroll_offset = u.scroll_offset
        /\ counted.stock_cursor_index = u.stock_cursor_index
        /\ \A s \in Screens : s # u.active_screen => counted.row_count[s] = u.row_count[s]
        /\ RowIsCounted(moved, counted, c)
    BY <1>4, CountRowFacts
  <1> HIDE DEF counted
  <1>6. /\ w \in Globals /\ w.top = FirstShown(w)
        /\ w.cursor_pos = counted.cursor_pos /\ w.row_count = counted.row_count
        /\ w.active_screen = counted.active_screen
        /\ w.scroll_offset = counted.scroll_offset
        /\ w.stock_cursor_index = counted.stock_cursor_index
        /\ Rows(w) = Rows(counted)
    BY <1>3, <1>5, DisplayFacts
  <1>7. Rows(moved) = Rows(u)
    BY <1>4 DEF Rows
  <1>8. RowIsCounted(u, w, c)
    BY <1>5, <1>6, <1>7 DEF RowIsCounted
  <1>9. OnlyInFront(u, w)
    BY <1>5, <1>6 DEF OnlyInFront
  <1>10. QED
    BY <1>5, <1>6, <1>8, <1>9

\* The offset of the screen in front goes to 0, and the cursor to c.
Live(u, c) == [u EXCEPT !.scroll_offset[u.active_screen] = 0, !.cursor_pos = c]

LEMMA LiveFacts ==
    ASSUME NEW u \in Globals, NEW c \in Nat, NEW w, w = Live(u, c)
    PROVE  /\ OnlyInFront(u, w) /\ Offset(w) = 0 /\ w.cursor_pos = c
           /\ Rows(w) = Rows(u) /\ w.top = u.top /\ w \in Globals
  <1> DEFINE offsets == [u.scroll_offset EXCEPT ![u.active_screen] = 0]
  <1>1. u.active_screen \in Screens /\ u.scroll_offset \in [Screens -> Nat]
    BY GlobalsTyped
  <1>2. /\ offsets \in [Screens -> Nat] /\ offsets[u.active_screen] = 0
        /\ \A s \in Screens : s # u.active_screen => offsets[s] = u.scroll_offset[s]
    BY <1>1
  <1>3. w = [u EXCEPT !.scroll_offset = offsets, !.cursor_pos = c]
    BY DEF Globals, Live
  <1> HIDE DEF offsets
  <1>4. /\ w \in Globals /\ w.scroll_offset = offsets /\ w.cursor_pos = c
        /\ w.row_count = u.row_count /\ w.active_screen = u.active_screen
        /\ w.stock_cursor_index = u.stock_cursor_index /\ w.top = u.top
    BY <1>2, <1>3 DEF Globals
  <1>5. Rows(w) = Rows(u) /\ Offset(w) = 0
    BY <1>2, <1>4 DEF Rows, Offset
  <1>6. QED
    BY <1>2, <1>4, <1>5 DEF OnlyInFront

LEMMA RefreshFacts ==
    ASSUME NEW u \in Globals, NEW w, w = Refresh(u)
    PROVE  /\ w \in Globals
           /\ w.cursor_pos = u.cursor_pos /\ w.row_count = u.row_count
           /\ w.active_screen = u.active_screen /\ w.scroll_offset = u.scroll_offset
           /\ w.stock_cursor_index = u.stock_cursor_index
           /\ Rows(w) = Rows(u) /\ Offset(w) = Offset(u)
           /\ Rows(u) >= VGA_ROWS => w.top = FirstShown(w)
           /\ ~(Rows(u) >= VGA_ROWS) => w = u
  BY DisplayFacts DEF Refresh

\* Whether the display is drawn or not, it follows if at most one row went away.
LEMMA RefreshFollows ==
    ASSUME NEW u \in Globals, Follows(u), NEW v \in Globals, v.top = u.top,
           Rows(u) - 1 <= Rows(v), NEW w, w = Refresh(v)
    PROVE  Follows(w)
  <1>1. /\ Rows(v) >= VGA_ROWS => w.top = FirstShown(w)
        /\ ~(Rows(v) >= VGA_ROWS) => w = v
    BY RefreshFacts
  <1>2. /\ Rows(u) \in Nat /\ Rows(v) \in Nat /\ VGA_ROWS \in Nat
        /\ v.top \in Nat
    BY GlobalsTyped, Constants
  <1>3. CASE Rows(v) >= VGA_ROWS
    BY <1>1, <1>3 DEF Follows
  <1>4. CASE Rows(v) < VGA_ROWS
    <2>1. FirstShown(v) = 0
      BY <1>4, FirstShownBounds
    <2>2. Rows(u) <= VGA_ROWS
      BY <1>2, <1>4
    <2>3. FirstShown(u) \in {0, 1}
      BY <1>2, <2>2, FirstShownBounds
    <2>4. v.top \in {0, 1}
      BY <2>3 DEF Follows
    <2>5. Follows(v)
      BY <1>4, <2>1, <2>4 DEF Follows
    <2>6. QED
      BY <1>1, <1>2, <1>4, <2>5
  <1>5. QED
    BY <1>2, <1>3, <1>4

LEMMA PutFacts ==
    ASSUME NEW u \in Globals, NEW printable \in BOOLEAN, NEW w, w = Put(u, printable),
           NEW c, printable => c = u.cursor_pos + 1, ~printable => c = u.cursor_pos
    PROVE  /\ OnlyInFront(u, w) /\ Offset(w) = 0
           /\ c % VGA_COLS # 0 => Rows(w) = Rows(u) /\ w.cursor_pos = c
           /\ c % VGA_COLS = 0 => RowIsCounted(u, w, c)
           /\ Follows(u) => Follows(w)
  <1> DEFINE live == Live(u, c)
             counted == IF c % VGA_COLS = 0 THEN CountRow(live) ELSE live
  <1>1. u.cursor_pos \in Nat /\ c \in Nat
    BY GlobalsTyped
  <1>2. /\ OnlyInFront(u, live) /\ Offset(live) = 0 /\ live.cursor_pos = c
        /\ Rows(live) = Rows(u) /\ live.top = u.top /\ live \in Globals
    BY <1>1, LiveFacts
  <1>3. w = Refresh(counted)
    <2>1. live = [u EXCEPT !.scroll_offset[u.active_screen] = 0,
                           !.cursor_pos = IF printable THEN @ + 1 ELSE @]
      BY DEF Globals, Live
    <2>2. QED
      BY <1>2, <2>1 DEF Put
  <1> HIDE DEF live
  <1>4. /\ counted \in Globals
        /\ counted.active_screen = u.active_screen
        /\ counted.scroll_offset = live.scroll_offset /\ counted.top = u.top
        /\ counted.stock_cursor_index = u.stock_cursor_index
        /\ \A s \in Screens : s # u.active_screen => counted.row_count[s] = u.row_count[s]
        /\ c % VGA_COLS = 0 => RowIsCounted(u, counted, c)
        /\ c % VGA_COLS # 0 => Rows(counted) = Rows(u) /\ counted.cursor_pos = c
    <2>1. CASE c % VGA_COLS = 0
      <3>1. counted = CountRow(live)
        BY <2>1
      <3>2. /\ counted \in Globals /\ counted.active_screen = live.active_screen
            /\ counted.scroll_offset = live.scroll_offset /\ counted.top = live.top
            /\ counted.stock_cursor_index = live.stock_cursor_index
            /\ \A s \in Screens : s # live.active_screen =>
                 counted.row_count[s] = live.row_count[s]
            /\ RowIsCounted(live, counted, live.cursor_pos)
        BY <1>2, <3>1, CountRowFacts
      <3>3. RowIsCounted(u, counted, c)
        BY <1>2, <3>2 DEF RowIsCounted
      <3> HIDE DEF counted
      <3>4. QED
        BY <1>2, <2>1, <3>2, <3>3 DEF OnlyInFront
    <2>2. CASE c % VGA_COLS # 0
      <3>1. counted = live
        BY <2>2
      <3> HIDE DEF counted
      <3>2. QED
        BY <1>2, <2>2, <3>1 DEF OnlyInFront
    <2>3. QED
      BY <2>1, <2>2
  <1> HIDE DEF counted
  <1>5. /\ w \in Globals
        /\ w.cursor_pos = counted.cursor_pos /\ w.row_count = counted.row_count
        /\ w.active_screen = counted.active_screen
        /\ w.scroll_offset = counted.scroll_offset
        /\ w.stock_cursor_index = counted.stock_cursor_index
        /\ Rows(w) = Rows(counted)
    BY <1>3, <1>4, RefreshFacts
  <1>6. OnlyInFront(u, w) /\ Offset(w) = 0
    <2>1. Offset(w) = 0
      BY <1>2, <1>4, <1>5 DEF Offset, OnlyInFront
    <2>2. QED
      BY <1>2, <1>4, <1>5, <2>1 DEF OnlyInFront
  <1>7. /\ c % VGA_COLS # 0 => Rows(w) = Rows(u) /\ w.cursor_pos = c
        /\ c % VGA_COLS = 0 => RowIsCounted(u, w, c)
    BY <1>4, <1>5 DEF RowIsCounted
  <1>8. ASSUME Follows(u) PROVE Follows(w)
    <2>1. Rows(u) \in Nat /\ BUFFER_ROWS \in Nat
      BY GlobalsTyped, Constants
    <2>2. Rows(u) - 1 <= Rows(counted)
      BY <1>4, <2>1 DEF RowIsCounted
    <2>3. QED
      BY <1>3, <1>4, <1>8, <2>2, RefreshFollows
  <1>9. QED
    BY <1>6, <1>7, <1>8

\* A row that has been counted keeps counter and cursor p rows apart, or p + 1
\* if the cursor did not enter it.
LEMMA CountingRows ==
    ASSUME NEW u \in Globals, u.cursor_pos \in Cells, NEW p \in Nat,
           Rows(u) = u.cursor_pos \div VGA_COLS + p,
           NEW w \in Globals, NEW c \in Nat, RowIsCounted(u, w, c),
           c <= u.cursor_pos + VGA_COLS, NEW k \in {0, 1},
           c \div VGA_COLS + k = u.cursor_pos \div VGA_COLS + 1,
           k = 1 => c = u.cursor_pos /\ c % VGA_COLS = 0
    PROVE  /\ w.cursor_pos \in Cells => Rows(w) = w.cursor_pos \div VGA_COLS + p + k
           /\ w.cursor_pos \notin Cells => p + k = BUFFER_ROWS
  <1> DEFINE q == u.cursor_pos \div VGA_COLS
             r == c \div VGA_COLS
  <1>1. /\ VGA_COLS \in Nat \ {0} /\ BUFFER_ROWS \in Nat
        /\ BUFFER_ROWS * VGA_COLS \in Nat
    BY Constants
  <1>2. /\ u.cursor_pos \in Nat /\ q \in 0 .. BUFFER_ROWS - 1
        /\ u.cursor_pos < BUFFER_ROWS * VGA_COLS
        /\ Rows(u) \in 0 .. BUFFER_ROWS - 1 /\ Rows(u) = q + p
    BY <1>1, RowOfCell, GlobalsTyped DEF Cells
  <1>3. /\ r \in Nat /\ r + k = q + 1
        /\ c = r * VGA_COLS + (c % VGA_COLS)
    BY <1>1, DivMod
  <1>4. c \in Cells <=> r < BUFFER_ROWS
    BY CellOfRow
  <1> HIDE DEF q, r
  <1>5. CASE Rows(u) # BUFFER_ROWS - 1
    <2>1. w.cursor_pos = c /\ Rows(w) = Rows(u) + 1
      BY <1>5 DEF RowIsCounted
    <2>2. r < BUFFER_ROWS
      <3>1. /\ q \in Nat /\ r \in Nat /\ r + k = q + 1 /\ k \in Nat /\ p \in Nat
            /\ Rows(u) = q + p /\ Rows(u) \in 0 .. BUFFER_ROWS - 1
        BY <1>2, <1>3
      <3>2. Rows(u) < BUFFER_ROWS - 1
        BY <1>1, <1>5, <3>1
      <3>3. QED
        BY <1>1, <3>1, <3>2
    <2>3. c \in Cells
      BY <1>4, <2>2
    <2>4. Rows(w) = r + p + k
      BY <1>2, <1>3, <2>1
    <2>5. QED
      BY <2>1, <2>3, <2>4 DEF r
  <1>6. CASE Rows(u) = BUFFER_ROWS - 1
    <2> DEFINE d == (c - VGA_COLS) % Word
    <2>1. w.cursor_pos = d /\ Rows(w) = Rows(u)
      BY <1>6 DEF RowIsCounted
    <2>2. c < BUFFER_ROWS * VGA_COLS + VGA_COLS
      BY <1>1, <1>2
    <2>3. /\ d \in Nat
          /\ VGA_COLS <= c => d \div VGA_COLS = r - 1
          /\ c = 0 => d \notin Cells
          /\ r # 0 => VGA_COLS <= c
      BY <2>2, RowAbove DEF r
    <2>4. d \in Cells <=> d \div VGA_COLS < BUFFER_ROWS
      BY <2>3, CellOfRow
    <2> HIDE DEF d
    <2>5. CASE r # 0
      <3>1. d \div VGA_COLS = r - 1 /\ d \in Cells
        BY <1>1, <1>2, <1>3, <2>3, <2>4, <2>5
      <3>2. QED
        BY <1>1, <1>2, <1>3, <2>1, <3>1
    <2>6. CASE r = 0
      <3>1. k = 1 /\ q = 0
        BY <1>2, <1>3, <2>6
      <3>2. c = 0
        BY <1>1, <1>3, <2>6, <3>1
      <3>3. d \notin Cells
        BY <2>3, <3>2
      <3>4. QED
        BY <1>1, <1>2, <1>6, <2>1, <3>1, <3>3
    <2>7. QED
      BY <2>5, <2>6
  <1>7. QED
    BY <1>5, <1>6

\* Typing: a control character at the start of a row counts a row too much.
LEMMA PutcharFacts ==
    ASSUME NEW u \in Globals, NEW ch, NEW w, w = vga_putchar(u, ch)
    PROVE  /\ OnlyInFront(u, w) /\ Offset(w) = 0
           /\ Follows(u) => Follows(w)
           /\ \A p \in Nat :
                u.cursor_pos \in Cells /\ Rows(u) = u.cursor_pos \div VGA_COLS + p =>
                  \E k \in {0, 1} :
                    /\ k = 1 <=> ch = "control" /\ u.cursor_pos % VGA_COLS = 0
                    /\ w.cursor_pos \in Cells =>
                         Rows(w) = w.cursor_pos \div VGA_COLS + p + k
                    /\ w.cursor_pos \notin Cells => p + k = BUFFER_ROWS
  <1>1. u.cursor_pos \in Nat /\ VGA_COLS \in Nat \ {0}
    BY GlobalsTyped, Constants
  <1>2. CASE ch = "newline"
    <2> DEFINE live == [u EXCEPT !.scroll_offset[u.active_screen] = 0]
               c == u.cursor_pos + VGA_COLS - (u.cursor_pos % VGA_COLS)
    <2>1. w = vga_newline(live)
      BY <1>2 DEF vga_putchar
    <2>2. live = Live(u, u.cursor_pos)
      BY DEF Globals, Live
    <2> HIDE DEF live
    <2>3. /\ OnlyInFront(u, live) /\ Offset(live) = 0 /\ live.cursor_pos = u.cursor_pos
          /\ Rows(live) = Rows(u) /\ live \in Globals
      BY <1>1, <2>2, LiveFacts
    <2>4. /\ c \in Nat /\ c \div VGA_COLS = u.cursor_pos \div VGA_COLS + 1
          /\ c <= u.cursor_pos + VGA_COLS
      <3>1. c \in Nat /\ c \div VGA_COLS = u.cursor_pos \div VGA_COLS + 1
        BY <1>1, NextRow
      <3>2. u.cursor_pos % VGA_COLS \in Nat
        BY <1>1, DivMod
      <3>3. QED
        BY <1>1, <3>1, <3>2
    <2>5. c = live.cursor_pos + VGA_COLS - (live.cursor_pos % VGA_COLS)
      BY <2>3
    <2> HIDE DEF c
    <2>6. /\ OnlyInFront(live, w) /\ w.scroll_offset = live.scroll_offset
          /\ w.top = FirstShown(w) /\ RowIsCounted(live, w, c)
      BY <2>1, <2>3, <2>5, NewlineFacts
    <2>7. RowIsCounted(u, w, c)
      BY <2>3, <2>6 DEF RowIsCounted
    <2>8. OnlyInFront(u, w) /\ w \in Globals
      BY <2>3, <2>6 DEF OnlyInFront
    <2>9. Offset(w) = 0
      BY <2>3, <2>6 DEF OnlyInFront, Offset
    <2>10. ASSUME NEW p \in Nat, u.cursor_pos \in Cells,
                  Rows(u) = u.cursor_pos \div VGA_COLS + p
           PROVE  /\ w.cursor_pos \in Cells =>
                       Rows(w) = w.cursor_pos \div VGA_COLS + p + 0
                  /\ w.cursor_pos \notin Cells => p + 0 = BUFFER_ROWS
      <3>1. c \div VGA_COLS + 0 = u.cursor_pos \div VGA_COLS + 1
        BY <1>1, <2>4
      <3>2. QED
        BY <2>4, <2>7, <2>8, <2>10, <3>1, CountingRows
    <2>11. QED
      BY <1>2, <2>6, <2>8, <2>9, <2>10 DEF Follows
  <1>3. CASE ch # "newline"
    <2> DEFINE printable == ch # "control"
               c == IF printable THEN u.cursor_pos + 1 ELSE u.cursor_pos
               k == IF printable THEN 0 ELSE 1
    <2>1. w = Put(u, printable)
      BY <1>3 DEF vga_putchar
    <2>2. /\ c \in Nat /\ c <= u.cursor_pos + VGA_COLS /\ k \in {0, 1}
          /\ printable => c = u.cursor_pos + 1 /\ k = 0
          /\ ~printable => c = u.cursor_pos /\ k = 1
          /\ printable \in BOOLEAN
      BY <1>1
    <2> HIDE DEF c, k
    <2>3. /\ OnlyInFront(u, w) /\ Offset(w) = 0
          /\ c % VGA_COLS # 0 => Rows(w) = Rows(u) /\ w.cursor_pos = c
          /\ c % VGA_COLS = 0 => RowIsCounted(u, w, c)
          /\ Follows(u) => Follows(w)
      BY <2>1, <2>2, PutFacts
    <2>4. w \in Globals
      BY <2>3 DEF OnlyInFront
    <2>5. ASSUME NEW p \in Nat, u.cursor_pos \in Cells,
                 Rows(u) = u.cursor_pos \div VGA_COLS + p
          PROVE  \E j \in {0, 1} :
                    /\ j = 1 <=> ch = "control" /\ u.cursor_pos % VGA_COLS = 0
                    /\ w.cursor_pos \in Cells =>
                         Rows(w) = w.cursor_pos \div VGA_COLS + p + j
                    /\ w.cursor_pos \notin Cells => p + j = BUFFER_ROWS
      <3>1. CASE c % VGA_COLS = 0
        <4>1. c \div VGA_COLS + k = u.cursor_pos \div VGA_COLS + 1
          BY <1>1, <2>2, <3>1, NextCell
        <4>2. /\ w.cursor_pos \in Cells => Rows(w) = w.cursor_pos \div VGA_COLS + p + k
              /\ w.cursor_pos \notin Cells => p + k = BUFFER_ROWS
          BY <2>2, <2>3, <2>4, <2>5, <3>1, <4>1, CountingRows
        <4>3. k = 1 <=> ch = "control" /\ u.cursor_pos % VGA_COLS = 0
          BY <2>2, <3>1
        <4>4. QED
          BY <2>2, <4>2, <4>3
      <3>2. CASE c % VGA_COLS # 0
        <4>1. w.cursor_pos = c /\ Rows(w) = Rows(u)
          BY <2>3, <3>2
        <4>2. c \div VGA_COLS = u.cursor_pos \div VGA_COLS
          BY <1>1, <2>2, <3>2, NextCell
        <4>3. w.cursor_pos \in Cells
          BY <1>1, <2>2, <2>5, <4>1, <4>2, CellOfRow
        <4>4. ~(ch = "control" /\ u.cursor_pos % VGA_COLS = 0)
          BY <2>2, <3>2
        <4>5. u.cursor_pos \div VGA_COLS \in Nat
          BY <1>1
        <4>6. Rows(w) = w.cursor_pos \div VGA_COLS + p + 0
          BY <2>5, <4>1, <4>2, <4>5
        <4>7. QED
          BY <4>3, <4>4, <4>6
      <3>3. QED
        BY <3>1, <3>2
    <2>6. QED
      BY <2>3, <2>5
  <1>4. QED
    BY <1>2, <1>3

LEMMA DeleteFacts ==
    ASSUME NEW u \in Globals, NEW w, w = vga_delete_char(u)
    PROVE  /\ OnlyInFront(u, w) /\ w.scroll_offset = u.scroll_offset
           /\ Follows(u) => Follows(w)
           /\ \A p \in Nat :
                u.cursor_pos \in Cells /\ Rows(u) = u.cursor_pos \div VGA_COLS + p =>
                  /\ w.cursor_pos \in Cells
                  /\ Rows(w) = w.cursor_pos \div VGA_COLS + p
  <1> DEFINE k == u.cursor_pos - 1
             left == k % VGA_COLS = VGA_COLS - 1 /\ Rows(u) > 0
             less == IF left THEN Rows(u) - 1 ELSE Rows(u)
             rows == [u.row_count EXCEPT ![u.active_screen] = less]
             v == [u EXCEPT !.cursor_pos = k, !.row_count = rows]
  <1>1. /\ u.cursor_pos \in Nat /\ u.active_screen \in Screens
        /\ u.row_count \in [Screens -> 0 .. BUFFER_ROWS - 1]
        /\ Rows(u) \in 0 .. BUFFER_ROWS - 1 /\ Rows(u) = u.row_count[u.active_screen]
        /\ VGA_COLS \in Nat \ {0} /\ BUFFER_ROWS \in Nat
    BY GlobalsTyped, Constants DEF Rows
  <1>2. CASE u.cursor_pos = 0
    <2>1. w = u
      BY <1>2 DEF vga_delete_char
    <2>2. QED
      BY <2>1 DEF OnlyInFront
  <1>3. CASE u.cursor_pos # 0
    <2>1. w = Refresh(v)
      BY <1>1, <1>3 DEF vga_delete_char, Globals
    <2>2. less \in 0 .. BUFFER_ROWS - 1 /\ Rows(u) - 1 <= less
      BY <1>1
    <2>3. k \in Nat /\ u.cursor_pos = k + 1
      BY <1>1, <1>3
    <2>4. /\ rows \in [Screens -> 0 .. BUFFER_ROWS - 1] /\ rows[u.active_screen] = less
          /\ \A s \in Screens : s # u.active_screen => rows[s] = u.row_count[s]
      BY <1>1, <2>2
    <2>5. /\ left => less = Rows(u) - 1
          /\ ~left => less = Rows(u)
          /\ left <=> k % VGA_COLS = VGA_COLS - 1 /\ Rows(u) > 0
      OBVIOUS
    <2> HIDE DEF rows, less, left, k
    <2>6. /\ v \in Globals /\ v.cursor_pos = k /\ v.row_count = rows
          /\ v.active_screen = u.active_screen /\ v.scroll_offset = u.scroll_offset
          /\ v.stock_cursor_index = u.stock_cursor_index /\ v.top = u.top
      BY <2>3, <2>4 DEF Globals
    <2> HIDE DEF v
    <2>7. Rows(v) = less
      BY <2>4, <2>6 DEF Rows
    <2>8. /\ w \in Globals
          /\ w.cursor_pos = v.cursor_pos /\ w.row_count = v.row_count
          /\ w.active_screen = v.active_screen /\ w.scroll_offset = v.scroll_offset
          /\ w.stock_cursor_index = v.stock_cursor_index /\ Rows(w) = Rows(v)
      BY <2>1, <2>6, RefreshFacts
    <2>9. Follows(u) => Follows(w)
      BY <2>1, <2>2, <2>6, <2>7, RefreshFollows
    <2>10. OnlyInFront(u, w)
      BY <2>4, <2>6, <2>8 DEF OnlyInFront
    <2>11. ASSUME NEW p \in Nat, u.cursor_pos \in Cells,
                  Rows(u) = u.cursor_pos \div VGA_COLS + p
           PROVE  k \in Cells /\ less = k \div VGA_COLS + p
      <3>1. k \in Cells
        BY <2>3, <2>11, Constants DEF Cells
      <3>2. /\ u.cursor_pos % VGA_COLS = 0 =>
                 u.cursor_pos \div VGA_COLS = k \div VGA_COLS + 1
            /\ u.cursor_pos % VGA_COLS # 0 =>
                 u.cursor_pos \div VGA_COLS = k \div VGA_COLS
            /\ u.cursor_pos % VGA_COLS = 0 <=> k % VGA_COLS = VGA_COLS - 1
        BY <2>3, NextCell
      <3> DEFINE q == k \div VGA_COLS
      <3>3. q \in Nat
        BY <1>1, <2>3
      <3> HIDE DEF q
      <3>4. CASE k % VGA_COLS = VGA_COLS - 1
        <4>1. Rows(u) = q + 1 + p
          BY <2>11, <3>2, <3>4 DEF q
        <4>2. left /\ less = q + p
          BY <2>5, <3>3, <3>4, <4>1
        <4>3. QED
          BY <3>1, <4>2 DEF q
      <3>5. CASE k % VGA_COLS # VGA_COLS - 1
        BY <2>5, <2>11, <3>1, <3>2, <3>5
      <3>6. QED
        BY <3>4, <3>5
    <2>12. QED
      BY <2>6, <2>7, <2>8, <2>9, <2>10, <2>11
  <1>4. QED
    BY <1>2, <1>3

\* Scrolling to another offset moves no cursor and no counter.
Scrolled(u, d) == screen_display([u EXCEPT !.scroll_offset[u.active_screen] = d])

LEMMA ScrolledFacts ==
    ASSUME NEW u \in Globals, NEW d \in Nat, NEW w, w = Scrolled(u, d)
    PROVE  /\ OnlyInFront(u, w) /\ Offset(w) = d /\ w.top = FirstShown(w)
           /\ w.cursor_pos = u.cursor_pos /\ Rows(w) = Rows(u)
  <1> DEFINE offsets == [u.scroll_offset EXCEPT ![u.active_screen] = d]
             v == [u EXCEPT !.scroll_offset = offsets]
  <1>1. u.active_screen \in Screens /\ u.scroll_offset \in [Screens -> Nat]
    BY GlobalsTyped
  <1>2. /\ offsets \in [Screens -> Nat] /\ offsets[u.active_screen] = d
        /\ \A s \in Screens : s # u.active_screen => offsets[s] = u.scroll_offset[s]
    BY <1>1
  <1>3. w = screen_display(v)
    BY DEF Globals, Scrolled
  <1> HIDE DEF offsets
  <1>4. /\ v \in Globals /\ v.scroll_offset = offsets /\ v.cursor_pos = u.cursor_pos
        /\ v.row_count = u.row_count /\ v.active_screen = u.active_screen
        /\ v.stock_cursor_index = u.stock_cursor_index
    BY <1>2 DEF Globals
  <1> HIDE DEF v
  <1>5. /\ w \in Globals /\ w.top = FirstShown(w)
        /\ w.cursor_pos = v.cursor_pos /\ w.row_count = v.row_count
        /\ w.active_screen = v.active_screen /\ w.scroll_offset = v.scroll_offset
        /\ w.stock_cursor_index = v.stock_cursor_index
    BY <1>3, <1>4, DisplayFacts
  <1>6. Rows(w) = Rows(u) /\ Offset(w) = d
    BY <1>2, <1>4, <1>5 DEF Rows, Offset
  <1>7. QED
    BY <1>2, <1>4, <1>5, <1>6 DEF OnlyInFront

\* The cursor of a screen, as CursorOf states it of t.
CursorIn(u, s) ==
    IF s = u.active_screen THEN u.cursor_pos ELSE u.stock_cursor_index[s]

LEMMA SwitchFacts ==
    ASSUME NEW u \in Globals, NEW s \in Screens, NEW w, w = screen_switch(u, s)
    PROVE  /\ w \in Globals /\ w.active_screen = s /\ w.top = FirstShown(w)
           /\ w.row_count = u.row_count /\ w.scroll_offset = u.scroll_offset
           /\ \A q \in Screens : CursorIn(w, q) = CursorIn(u, q)
  <1> DEFINE saved == [u.stock_cursor_index EXCEPT ![u.active_screen] = u.cursor_pos]
             v == [u EXCEPT !.stock_cursor_index = saved, !.active_screen = s,
                            !.cursor_pos = saved[s]]
  <1>1. /\ u.cursor_pos \in Nat /\ u.active_screen \in Screens
        /\ u.stock_cursor_index \in [Screens -> Nat]
    BY GlobalsTyped
  <1>2. /\ saved \in [Screens -> Nat]
        /\ \A q \in Screens : saved[q] = CursorIn(u, q)
    BY <1>1 DEF CursorIn
  <1>3. w = screen_display(v)
    BY DEF screen_switch
  <1> HIDE DEF saved
  <1>4. /\ v \in Globals /\ v.stock_cursor_index = saved /\ v.cursor_pos = saved[s]
        /\ v.active_screen = s
        /\ v.row_count = u.row_count /\ v.scroll_offset = u.scroll_offset
    BY <1>2 DEF Globals
  <1> HIDE DEF v
  <1>5. /\ w \in Globals /\ w.top = FirstShown(w)
        /\ w.cursor_pos = v.cursor_pos /\ w.row_count = v.row_count
        /\ w.active_screen = v.active_screen /\ w.scroll_offset = v.scroll_offset
        /\ w.stock_cursor_index = v.stock_cursor_index
    BY <1>3, <1>4, DisplayFacts
  <1>6. \A q \in Screens : CursorIn(w, q) = CursorIn(u, q)
    BY <1>2, <1>4, <1>5 DEF CursorIn
  <1>7. QED
    BY <1>4, <1>5, <1>6

\* Counters and cursors are the given numbers of rows apart, as RowsAhead states
\* it of t and phantoms.
Counted(u, apart) ==
    \A s \in Screens :
        /\ CursorIn(u, s) \in Cells
        /\ u.row_count[s] = CursorIn(u, s) \div VGA_COLS + apart[s]

LEMMA CountedInFront ==
    ASSUME NEW u \in Globals, NEW w, OnlyInFront(u, w), NEW ph, NEW apart,
           Counted(u, ph), w.cursor_pos \in Cells,
           Rows(w) = w.cursor_pos \div VGA_COLS + apart[u.active_screen],
           \A s \in Screens : s # u.active_screen => apart[s] = ph[s]
    PROVE  Counted(w, apart)
  <1>1. /\ w.active_screen = u.active_screen
        /\ w.stock_cursor_index = u.stock_cursor_index
        /\ \A s \in Screens : s # u.active_screen => w.row_count[s] = u.row_count[s]
    BY DEF OnlyInFront
  <1>2. Rows(w) = w.row_count[u.active_screen]
    BY <1>1 DEF Rows
  <1>3. ASSUME NEW s \in Screens
        PROVE  /\ CursorIn(w, s) \in Cells
               /\ w.row_count[s] = CursorIn(w, s) \div VGA_COLS + apart[s]
    <2>1. CASE s = u.active_screen
      BY <1>1, <1>2, <2>1 DEF CursorIn
    <2>2. CASE s # u.active_screen
      <3>1. CursorIn(w, s) = CursorIn(u, s) /\ w.row_count[s] = u.row_count[s]
        BY <1>1, <2>2 DEF CursorIn
      <3>2. QED
        BY <2>2, <3>1 DEF Counted
    <2>3. QED
      BY <2>1, <2>2
  <1>4. QED
    BY <1>3 DEF Counted

CountedFront(u, apart) ==
    /\ u.cursor_pos \in Cells
    /\ Rows(u) = u.cursor_pos \div VGA_COLS + apart[u.active_screen]

LEMMA FrontIsCounted ==
    ASSUME NEW u \in Globals, NEW apart, Counted(u, apart)
    PROVE  CountedFront(u, apart)
  BY GlobalsTyped DEF Counted, CountedFront, CursorIn, Rows

----------------------------------------------------------------------------
(* The screens that the kernel starts with *)

Level == [s \in Screens |-> 0]

\* Globals with no screen scrolled and every counter where its cursor is.
Fresh == {u \in Globals : Counted(u, Level) /\ u.scroll_offset = Level}

LEMMA LoadedIsFresh == Loaded \in Fresh
  <1>1. 0 \in Cells /\ 0 \div VGA_COLS = 0
    <2>1. VGA_COLS \in Nat \ {0} /\ BUFFER_ROWS \in Nat \ {0}
      BY Constants
    <2>2. MadeOf(0, VGA_COLS, 0, 0)
      BY <2>1 DEF MadeOf
    <2>3. 0 \div VGA_COLS = 0
      BY <2>1, <2>2, DivModUnique
    <2>4. QED
      BY <2>1, <2>3, CellOfRow
  <1>2. /\ Loaded \in Globals /\ Loaded.scroll_offset = Level
        /\ Loaded.row_count = Level /\ Loaded.cursor_pos = 0
        /\ Loaded.stock_cursor_index = Level
    BY Constants DEF Loaded, Globals, Level
  <1>3. \A s \in Screens : Level[s] = 0
    BY DEF Level
  <1>4. \A s \in Screens : CursorIn(Loaded, s) = 0
    BY <1>2, <1>3 DEF CursorIn
  <1>5. QED
    BY <1>1, <1>2, <1>3, <1>4 DEF Fresh, Counted

LEMMA WelcomeFacts ==
    ASSUME NEW u \in Fresh, NEW s \in Screens
    PROVE  Welcome(u, s) \in Fresh
  <1> DEFINE a == screen_switch(u, s)
             rows == [a.row_count EXCEPT ![a.active_screen] = 0]
             b == [a EXCEPT !.cursor_pos = 0, !.row_count = rows]
             w == vga_newline(b)
  <1>0. u \in Globals /\ Counted(u, Level) /\ u.scroll_offset = Level
    BY DEF Fresh
  <1>1. /\ a \in Globals /\ a.active_screen = s /\ a.scroll_offset = Level
        /\ a.row_count = u.row_count
        /\ \A q \in Screens : CursorIn(a, q) = CursorIn(u, q)
    BY <1>0, SwitchFacts
  <1>2. Counted(a, Level)
    BY <1>0, <1>1 DEF Counted
  <1>3. Welcome(u, s) = w
    BY <1>1 DEF Welcome, vga_clear, Globals
  <1> HIDE DEF a
  <1>4. /\ rows \in [Screens -> 0 .. BUFFER_ROWS - 1] /\ rows[s] = 0
        /\ \A q \in Screens : q # s => rows[q] = a.row_count[q]
    <2>1. 0 \in 0 .. BUFFER_ROWS - 1 /\ a.row_count \in [Screens -> 0 .. BUFFER_ROWS - 1]
      <3>1. 0 \in 0 .. BUFFER_ROWS - 1
        BY Constants
      <3>2. QED
        BY <1>1, <3>1, GlobalsTyped
    <2>2. QED
      BY <1>1, <2>1
  <1> HIDE DEF rows
  <1>5. /\ b \in Globals /\ b.cursor_pos = 0 /\ b.row_count = rows
        /\ b.active_screen = s /\ b.scroll_offset = Level
        /\ b.stock_cursor_index = a.stock_cursor_index
    BY <1>1, <1>4 DEF Globals
  <1> HIDE DEF b
  <1>6. Rows(b) = 0 /\ OnlyInFront(a, b)
    BY <1>1, <1>4, <1>5 DEF Rows, OnlyInFront
  <1>7. VGA_COLS \in Nat \ {0} /\ BUFFER_ROWS \in Nat \ {0}
    BY Constants
  <1>8. /\ 0 \in Cells /\ 0 \div VGA_COLS = 0 /\ 0 % VGA_COLS = 0
        /\ VGA_COLS \div VGA_COLS = 1
    <2>1. MadeOf(0, VGA_COLS, 0, 0) /\ MadeOf(VGA_COLS, VGA_COLS, 1, 0)
      BY <1>7 DEF MadeOf
    <2>2. 0 \div VGA_COLS = 0 /\ 0 % VGA_COLS = 0 /\ VGA_COLS \div VGA_COLS = 1
      BY <1>7, <2>1, DivModUnique
    <2>3. QED
      BY <1>7, <2>2, CellOfRow
  <1>9. /\ OnlyInFront(b, w) /\ w.scroll_offset = b.scroll_offset
        /\ RowIsCounted(b, w, VGA_COLS)
    <2>1. VGA_COLS = b.cursor_pos + VGA_COLS - (b.cursor_pos % VGA_COLS)
      BY <1>5, <1>7, <1>8
    <2>2. QED
      BY <1>5, <2>1, NewlineFacts
  <1> HIDE DEF w
  <1>10. w \in Globals
    BY <1>9 DEF OnlyInFront
  <1>11. /\ w.cursor_pos \in Cells
         /\ Rows(w) = w.cursor_pos \div VGA_COLS + 0
    <2>1. /\ w.cursor_pos \in Cells => Rows(w) = w.cursor_pos \div VGA_COLS + 0 + 0
          /\ w.cursor_pos \notin Cells => 0 + 0 = BUFFER_ROWS
      <3>1. /\ Rows(b) = b.cursor_pos \div VGA_COLS + 0 /\ b.cursor_pos \in Cells
            /\ VGA_COLS <= b.cursor_pos + VGA_COLS
            /\ VGA_COLS \div VGA_COLS + 0 = b.cursor_pos \div VGA_COLS + 1
        BY <1>5, <1>6, <1>7, <1>8
      <3>2. QED
        BY <1>5, <1>7, <1>9, <1>10, <3>1, CountingRows
    <2>2. w.cursor_pos \in Cells
      BY <1>7, <2>1
    <2>3. w.cursor_pos \div VGA_COLS \in Nat
      BY <1>7, <2>2, RowOfCell
    <2>4. QED
      BY <2>1, <2>2, <2>3
  <1>12. Counted(w, Level)
    <2>1. OnlyInFront(a, w)
      BY <1>6, <1>9, <1>5 DEF OnlyInFront
    <2>2. Level[s] = 0
      BY DEF Level
    <2>3. QED
      BY <1>1, <1>2, <1>11, <2>1, <2>2, CountedInFront
  <1>13. QED
    BY <1>3, <1>5, <1>9, <1>10, <1>12 DEF Fresh

LEMMA InitialScreens ==
    init_screens \in Fresh /\ Follows(init_screens)
  <1> DEFINE from(g, s) == Welcome(IF s = 0 THEN Loaded ELSE g[s - 1], s)
             welcomed == CHOOSE g : g = [s \in Screens |-> from(g, s)]
             n == NUM_SCREENS - 1
  <1>1. /\ n \in Nat /\ Screens = 0 .. n /\ n \in Screens /\ 0 \in Screens
    BY Constants
  <1>2. \E g : g = [s \in Screens |-> from(g, s)]
    <2> DEFINE step == [u \in Fresh |-> [s \in 1 .. n |-> Welcome(u, s)]]
    <2>1. step \in [Fresh -> [1 .. n -> Fresh]]
      BY <1>1, WelcomeFacts
    <2>2. Welcome(Loaded, 0) \in Fresh
      BY <1>1, LoadedIsFresh, WelcomeFacts
    <2>3. PICK f \in [0 .. n -> Fresh] :
            /\ f[0] = Welcome(Loaded, 0)
            /\ \A k \in 1 .. n : f[k] = step[f[k - 1]][k]
      <3> DEFINE first == Welcome(Loaded, 0)
      <3> HIDE DEF step, first, n
      <3>1. step \in [Fresh -> [1 .. n -> Fresh]] /\ first \in Fresh
        BY <2>1, <2>2 DEF first
      <3>2. n \in Nat
        BY <1>1
      <3>3. \E f : IsRecursion(f, n, Fresh, first, step)
        BY <3>1, <3>2, RecursionExists
      <3>4. QED
        BY <3>3 DEF first, IsRecursion
    <2>4. ASSUME NEW s \in Screens PROVE f[s] = from(f, s)
      <3>1. CASE s = 0
        BY <2>3, <3>1
      <3>2. CASE s # 0
        <4>1. s \in 1 .. n /\ s - 1 \in 0 .. n
          BY <1>1, <3>2
        <4>2. f[s] = step[f[s - 1]][s] /\ f[s - 1] \in Fresh
          BY <2>3, <4>1
        <4>3. QED
          BY <3>2, <4>1, <4>2
      <3>3. QED
        BY <3>1, <3>2
    <2>5. f = [s \in Screens |-> from(f, s)]
      BY <1>1, <2>3, <2>4
    <2>6. QED
      BY <2>5
  <1>3. welcomed = [s \in Screens |-> from(welcomed, s)]
    BY <1>2
  <1>4. init_screens = screen_switch(welcomed[n], 0)
    BY DEF init_screens
  <1> HIDE DEF welcomed
  <1>5. welcomed[n] \in Fresh
    <2> DEFINE S == {k \in Nat : k \in Screens => welcomed[k] \in Fresh}
    <2>1. 0 \in S
      BY <1>1, <1>3, LoadedIsFresh, WelcomeFacts
    <2>2. ASSUME NEW k \in Nat, k \in S PROVE k + 1 \in S
      <3> SUFFICES ASSUME k + 1 \in Screens PROVE welcomed[k + 1] \in Fresh
        OBVIOUS
      <3>1. k \in Screens /\ k + 1 # 0 /\ (k + 1) - 1 = k
        BY <1>1
      <3>2. welcomed[k] \in Fresh
        BY <2>2, <3>1
      <3>3. welcomed[k + 1] = Welcome(welcomed[k], k + 1)
        BY <1>3, <3>1
      <3>4. QED
        BY <3>2, <3>3, WelcomeFacts
    <2> HIDE DEF S
    <2>3. n \in S
      BY <1>1, <2>1, <2>2, SetInduction
    <2>4. QED
      BY <1>1, <2>3 DEF S
  <1>6. QED
    <2> DEFINE u == welcomed[n]
               w == screen_switch(u, 0)
    <2> HIDE DEF u
    <2>1. u \in Globals /\ Counted(u, Level) /\ u.scroll_offset = Level
      BY <1>5 DEF Fresh, u
    <2>2. /\ w \in Globals /\ w.top = FirstShown(w)
          /\ w.row_count = u.row_count /\ w.scroll_offset = u.scroll_offset
          /\ \A q \in Screens : CursorIn(w, q) = CursorIn(u, q)
      BY <1>1, <2>1, SwitchFacts
    <2> HIDE DEF w
    <2>3. Counted(w, Level)
      BY <2>1, <2>2 DEF Counted
    <2>4. QED
      BY <1>4, <2>1, <2>2, <2>3 DEF Fresh, Follows, w, u

----------------------------------------------------------------------------
(* The invariant of the screens *)

Offsets(u) == \A s \in Screens : u.scroll_offset[s] <= MaxOffset

ScreenInv ==
    /\ t \in Globals /\ Follows(t) /\ Offsets(t)
    /\ phantoms \in [Screens -> Nat]
    /\ kernel \in {"running", "astray"}
    /\ kernel = "running" => Counted(t, phantoms)
    /\ kernel = "astray" => phantoms[t.active_screen] = BUFFER_ROWS

\* An operation on the screen in front that leaves its offset in bounds.
LEMMA OffsetsInFront ==
    ASSUME t \in Globals, Offsets(t), NEW w, OnlyInFront(t, w), Offset(w) <= MaxOffset
    PROVE  Offsets(w)
  BY DEF OnlyInFront, Offsets, Offset

LEMMA TypeKeyScreens ==
    ASSUME ScreenInv, NEW c, TypeKey(c)
    PROVE  ScreenInv' /\ OnlyInFront(t, t')
  <1> DEFINE w == vga_putchar(t, c)
             a == t.active_screen
  <1>1. /\ kernel = "running" /\ t' = w
        /\ kernel' = IF t'.cursor_pos < BUFFER_ROWS * VGA_COLS THEN "running" ELSE "astray"
        /\ phantoms' = [phantoms EXCEPT ![a] =
                          IF c = "control" /\ t.cursor_pos % VGA_COLS = 0 THEN @ + 1 ELSE @]
    BY DEF TypeKey, TakePlain, Take
  <1>2. /\ t \in Globals /\ Follows(t) /\ Offsets(t) /\ phantoms \in [Screens -> Nat]
        /\ Counted(t, phantoms)
    BY <1>1 DEF ScreenInv
  <1>3. a \in Screens
    BY <1>2, GlobalsTyped
  <1>4. t.cursor_pos \in Cells /\ Rows(t) = t.cursor_pos \div VGA_COLS + phantoms[a]
    BY <1>2, FrontIsCounted DEF CountedFront
  <1>5. /\ OnlyInFront(t, w) /\ Offset(w) = 0
        /\ Follows(t) => Follows(w)
        /\ \A p \in Nat :
             t.cursor_pos \in Cells /\ Rows(t) = t.cursor_pos \div VGA_COLS + p =>
               \E k \in {0, 1} :
                 /\ k = 1 <=> c = "control" /\ t.cursor_pos % VGA_COLS = 0
                 /\ w.cursor_pos \in Cells =>
                      Rows(w) = w.cursor_pos \div VGA_COLS + p + k
                 /\ w.cursor_pos \notin Cells => p + k = BUFFER_ROWS
    BY <1>2, PutcharFacts
  <1> HIDE DEF w, a
  <1>6. PICK k \in {0, 1} :
          /\ k = 1 <=> c = "control" /\ t.cursor_pos % VGA_COLS = 0
          /\ w.cursor_pos \in Cells => Rows(w) = w.cursor_pos \div VGA_COLS + phantoms[a] + k
          /\ w.cursor_pos \notin Cells => phantoms[a] + k = BUFFER_ROWS
    BY <1>2, <1>3, <1>4, <1>5
  <1>7. /\ phantoms' \in [Screens -> Nat] /\ phantoms'[a] = phantoms[a] + k
        /\ \A s \in Screens : s # a => phantoms'[s] = phantoms[s]
    BY <1>1, <1>2, <1>3, <1>6
  <1>8. /\ w \in Globals /\ w.active_screen = a /\ w.cursor_pos \in Nat
        /\ BUFFER_ROWS * VGA_COLS \in Nat
    BY <1>5, GlobalsTyped, Constants DEF OnlyInFront, a
  <1>9. w.cursor_pos \in Cells <=> kernel' = "running"
    BY <1>1, <1>8 DEF Cells
  <1>10. ASSUME kernel' = "running" PROVE Counted(w, phantoms')
    <2>1. w.cursor_pos \in Cells
      BY <1>9, <1>10
    <2>2. w.cursor_pos \div VGA_COLS \in Nat /\ phantoms[a] \in Nat
      BY <1>2, <1>3, <2>1, RowOfCell
    <2>3. Rows(w) = w.cursor_pos \div VGA_COLS + phantoms'[a]
      BY <1>6, <1>7, <2>1, <2>2
    <2>4. QED
      BY <1>2, <1>5, <1>7, <2>1, <2>3, CountedInFront DEF a
  <1>11. ASSUME kernel' = "astray" PROVE phantoms'[w.active_screen] = BUFFER_ROWS
    BY <1>6, <1>7, <1>8, <1>9, <1>11
  <1>12. Offsets(w)
    BY <1>2, <1>5, OffsetsInFront, Constants
  <1>13. kernel' \in {"running", "astray"}
    BY <1>1
  <1>14. QED
    BY <1>1, <1>2, <1>5, <1>7, <1>8, <1>10, <1>11, <1>12, <1>13 DEF ScreenInv

LEMMA BackspaceScreens ==
    ASSUME ScreenInv, Backspace
    PROVE  ScreenInv' /\ OnlyInFront(t, t')
  <1> DEFINE w == vga_delete_char(t)
  <1>1. kernel = "running" /\ t' = w /\ UNCHANGED <<kernel, phantoms>>
    BY DEF Backspace, TakePlain, Take
  <1>2. /\ t \in Globals /\ Follows(t) /\ Offsets(t) /\ phantoms \in [Screens -> Nat]
        /\ Counted(t, phantoms)
    BY <1>1 DEF ScreenInv
  <1>3. /\ t.active_screen \in Screens /\ phantoms[t.active_screen] \in Nat
        /\ t.cursor_pos \in Cells
        /\ Rows(t) = t.cursor_pos \div VGA_COLS + phantoms[t.active_screen]
    BY <1>2, GlobalsTyped, FrontIsCounted DEF CountedFront
  <1>4. /\ OnlyInFront(t, w) /\ w.scroll_offset = t.scroll_offset /\ Follows(w)
        /\ w.cursor_pos \in Cells
        /\ Rows(w) = w.cursor_pos \div VGA_COLS + phantoms[t.active_screen]
    BY <1>2, <1>3, DeleteFacts
  <1> HIDE DEF w
  <1>5. Counted(w, phantoms) /\ w \in Globals
    BY <1>2, <1>4, CountedInFront DEF OnlyInFront
  <1>6. Offsets(w)
    BY <1>2, <1>4 DEF Offsets
  <1>7. QED
    BY <1>1, <1>2, <1>4, <1>5, <1>6 DEF ScreenInv

\* Scrolling up is checked when the key is pressed, not when it is handled.
LEMMA ArrowScreens ==
    ASSUME ScreenInv, ArrowUp \/ ArrowDown,
           port = Make("up") => Offset(t) < MaxOffset
    PROVE  ScreenInv' /\ OnlyInFront(t, t')
  <1>0. port # Make("down") \/ port # Make("up")
    BY DEF Make
  <1>1. /\ kernel = "running" /\ UNCHANGED <<kernel, phantoms>>
        /\ \/ port = Make("up") /\ t' = Scrolled(t, Offset(t) + 1)
           \/ Offset(t) > 0 /\ t' = Scrolled(t, Offset(t) - 1)
    <2>1. t \in Globals
      BY DEF ScreenInv
    <2>2. /\ Scrolled(t, Offset(t) + 1)
               = screen_display([t EXCEPT !.scroll_offset[t.active_screen] = @ + 1])
          /\ Scrolled(t, Offset(t) - 1)
               = screen_display([t EXCEPT !.scroll_offset[t.active_screen] = @ - 1])
      BY <2>1 DEF Scrolled, Offset, Globals
    <2>3. QED
      BY <2>2 DEF ArrowUp, ArrowDown, Extended, ReadExtended
  <1>2. /\ t \in Globals /\ Follows(t) /\ Offsets(t) /\ phantoms \in [Screens -> Nat]
        /\ Counted(t, phantoms)
    BY <1>1 DEF ScreenInv
  <1>3. Offset(t) \in Nat /\ Offset(t) <= MaxOffset /\ MaxOffset \in Nat
    BY <1>2, GlobalsTyped, Constants DEF Offsets, Offset
  <1>4. \E d \in 0 .. MaxOffset : t' = Scrolled(t, d)
    BY <1>1, <1>3
  <1>5. PICK d \in 0 .. MaxOffset : t' = Scrolled(t, d)
    BY <1>4
  <1>6. /\ OnlyInFront(t, t') /\ Offset(t') = d /\ t'.top = FirstShown(t')
        /\ t'.cursor_pos = t.cursor_pos /\ Rows(t') = Rows(t)
    BY <1>2, <1>3, <1>5, ScrolledFacts
  <1>7. /\ t.cursor_pos \in Cells
        /\ Rows(t) = t.cursor_pos \div VGA_COLS + phantoms[t.active_screen]
    BY <1>2, FrontIsCounted DEF CountedFront
  <1>8. Counted(t', phantoms)
    BY <1>2, <1>6, <1>7, CountedInFront
  <1>9. Offsets(t')
    BY <1>2, <1>3, <1>6, OffsetsInFront
  <1>10. QED
    BY <1>1, <1>2, <1>6, <1>8, <1>9 DEF ScreenInv, Follows, OnlyInFront

LEMMA SwitchScreens ==
    ASSUME ScreenInv, NEW s \in Screens, SwitchScreen(s)
    PROVE  /\ ScreenInv'
           /\ t'.row_count = t.row_count /\ t'.scroll_offset = t.scroll_offset
           /\ \A q \in Screens : CursorIn(t', q) = CursorIn(t, q)
  <1>1. kernel = "running" /\ t' = screen_switch(t, s) /\ UNCHANGED <<kernel, phantoms>>
    BY DEF SwitchScreen, TakePlain, Take
  <1>2. /\ t \in Globals /\ Offsets(t) /\ phantoms \in [Screens -> Nat]
        /\ Counted(t, phantoms)
    BY <1>1 DEF ScreenInv
  <1>3. /\ t' \in Globals /\ t'.top = FirstShown(t')
        /\ t'.row_count = t.row_count /\ t'.scroll_offset = t.scroll_offset
        /\ \A q \in Screens : CursorIn(t', q) = CursorIn(t, q)
    BY <1>1, <1>2, SwitchFacts
  <1>4. Counted(t', phantoms) /\ Offsets(t')
    BY <1>2, <1>3 DEF Counted, Offsets
  <1>5. QED
    BY <1>1, <1>2, <1>3, <1>4 DEF ScreenInv, Follows

----------------------------------------------------------------------------
(* The bytes on their way *)

LEMMA DifferentBytes ==
    /\ \A a, b : Make(a) = Make(b) => a = b
    /\ \A a, b : Break(a) = Break(b) => a = b
    /\ \A a, b : Make(a) # Break(b)
    /\ E0 = Make("E0") /\ NoByte = Make("none")
  BY DEF Make, Break, E0, NoByte

ShiftMakes == {Make("lshift"), Make("rshift")}

\* Whether a modifier is on after a byte.
ShiftOn(b, on) == b \in ShiftMakes \/ (on /\ b \notin ShiftBreaks)
CtrlOn(b, on) == b = Make("ctrl") \/ (on /\ b # Break("ctrl"))

\* What may stand behind E0.
Half(b) == b \notin {E0, NoByte}

\* The last byte in the queue, and whether it belongs to an E0 before it that
\* the driver has not forgotten.
LastByte == queue[Len(queue)]
Belongs == Len(queue) = 2 \/ port = E0 \/ (pc = "extended" /\ port = NoByte)

\* A code of two bytes is never mixed up with another one on its way.
Shape ==
    /\ keyboard \in Keyboards /\ held \subseteq keyboard
    /\ shift_active \in BOOLEAN /\ ctrl_active \in BOOLEAN
    /\ torn \subseteq Modifiers
    /\ \/ pc = "poll"
       \/ pc = "extended" /\ (port = NoByte \/ Half(port))
    /\ queue = <<>> => port # E0 /\ (pc = "extended" => port # NoByte)
    /\ queue # <<>> =>
         /\ \/ Len(queue) = 1 /\ queue = <<LastByte>>
            \/ Len(queue) = 2 /\ queue = <<E0, LastByte>>
         /\ LastByte \notin {E0, NoByte}
         /\ Belongs => Half(LastByte)
         /\ Len(queue) = 2 => port # E0 /\ (pc = "extended" => port # NoByte)
         /\ port = E0 => pc = "poll"

\* When the bytes on their way have been read, shift is on only if a shift key
\* is down, unless a press of shift with the extended code has been torn apart.
ShiftHeld == \E k \in held : k.code \in ShiftKeys /\ ~k.ext
ShiftSoon == (pc = "poll" /\ ShiftOn(port, shift_active = TRUE))
               \/ (pc = "extended" /\ shift_active = TRUE)
ShiftInv ==
    torn \cap ShiftKeys = {} =>
      /\ queue = <<>> \/ Belongs => (ShiftSoon => ShiftHeld)
      /\ queue # <<>> /\ ~Belongs => (ShiftOn(LastByte, ShiftSoon) => ShiftHeld)

\* The same of control and the control key with the short code.
CtrlHeld == Key(FALSE, "ctrl") \in held
CtrlSoon == (pc = "poll" /\ CtrlOn(port, ctrl_active = TRUE))
              \/ (pc = "extended" /\ ctrl_active = TRUE)
CtrlInv ==
    "ctrl" \notin torn =>
      /\ queue = <<>> \/ Belongs => (CtrlSoon => CtrlHeld)
      /\ queue # <<>> /\ ~Belongs => (CtrlOn(LastByte, CtrlSoon) => CtrlHeld)

KeyInv == Shape /\ ShiftInv /\ CtrlInv

\* A user presses arrow-up only where the screen may still be scrolled, and that
\* key is handled before the screen can change.
UpInv ==
    /\ port = Make("up") => Offset(t) < MaxOffset
    /\ queue # <<>> /\ LastByte = Make("up") =>
         Offset(t) < MaxOffset /\ port \in {NoByte, E0}

\* The driver takes a byte that is not part of an extended code.
Consumes ==
    /\ pc = "poll" /\ port \notin {NoByte, E0}
    /\ pc' = "poll" /\ port' = NoByte
    /\ UNCHANGED <<queue, held, keyboard, torn>>
    /\ shift_active' \in BOOLEAN /\ ctrl_active' \in BOOLEAN
    /\ shift_active' = TRUE <=> ShiftOn(port, shift_active = TRUE)
    /\ ctrl_active' = TRUE <=> CtrlOn(port, ctrl_active = TRUE)

LEMMA NoByteIsNoKey ==
    /\ \A on \in BOOLEAN : (ShiftOn(NoByte, on) <=> on) /\ (CtrlOn(NoByte, on) <=> on)
    /\ NoByte # E0
    /\ NoByte # Make("up") /\ E0 # Make("up")
  <1>1. /\ NoByte \notin ShiftMakes /\ NoByte \notin ShiftBreaks
        /\ NoByte # Make("ctrl") /\ NoByte # Break("ctrl") /\ NoByte # E0
        /\ NoByte # Make("up") /\ E0 # Make("up")
    BY DifferentBytes DEF ShiftMakes, ShiftBreaks
  <1>2. QED
    BY <1>1 DEF ShiftOn, CtrlOn

LEMMA ConsumingKeepsKeys ==
    ASSUME KeyInv, Consumes
    PROVE  KeyInv'
  <1>1. Shape /\ Shape'
    BY NoByteIsNoKey DEF KeyInv, Shape, Consumes, Belongs, LastByte
  <1>2. LastByte' = LastByte /\ ShiftHeld' = ShiftHeld /\ CtrlHeld' = CtrlHeld
    BY DEF Consumes, LastByte, ShiftHeld, CtrlHeld
  <1>3. ShiftInv'
    <2>1. ShiftSoon' <=> ShiftSoon
      BY NoByteIsNoKey DEF ShiftSoon, Consumes, ShiftOn
    <2>2. queue # <<>> => (Belongs' <=> Belongs)
      BY NoByteIsNoKey DEF Belongs, Consumes
    <2>3. QED
      BY <1>2, <2>1, <2>2 DEF KeyInv, ShiftInv, Consumes, ShiftOn
  <1>4. CtrlInv'
    <2>1. CtrlSoon' <=> CtrlSoon
      BY NoByteIsNoKey DEF CtrlSoon, Consumes, CtrlOn
    <2>2. queue # <<>> => (Belongs' <=> Belongs)
      BY NoByteIsNoKey DEF Belongs, Consumes
    <2>3. QED
      BY <1>2, <2>1, <2>2 DEF KeyInv, CtrlInv, Consumes, CtrlOn
  <1>5. QED
    BY <1>1, <1>3, <1>4 DEF KeyInv

LEMMA PrefixKeepsKeys ==
    ASSUME KeyInv, ReadPrefix
    PROVE  KeyInv'
  <1>1. /\ pc = "poll" /\ port = E0 /\ pc' = "extended" /\ port' = NoByte
        /\ UNCHANGED <<queue, held, keyboard, torn, shift_active, ctrl_active>>
    BY DEF ReadPrefix, Take, userVars
  <1>2. queue # <<>> /\ Belongs /\ Belongs' /\ LastByte' = LastByte
    BY <1>1 DEF KeyInv, Shape, Belongs, LastByte
  <1>3. Shape'
    BY <1>1, <1>2, NoByteIsNoKey DEF KeyInv, Shape
  <1>4. ShiftHeld' = ShiftHeld /\ CtrlHeld' = CtrlHeld
    BY <1>1 DEF ShiftHeld, CtrlHeld
  <1>5. E0 \notin ShiftMakes \cup ShiftBreaks
    BY DifferentBytes DEF ShiftMakes, ShiftBreaks
  <1>6. ShiftInv'
    <2>1. ShiftSoon' <=> ShiftSoon
      BY <1>1, <1>5 DEF ShiftSoon, ShiftOn
    <2>2. QED
      BY <1>1, <1>2, <1>4, <2>1 DEF KeyInv, ShiftInv
  <1>7. CtrlInv'
    <2>1. E0 # Make("ctrl") /\ E0 # Break("ctrl")
      BY DifferentBytes
    <2>2. CtrlSoon' <=> CtrlSoon
      BY <1>1, <2>1 DEF CtrlSoon, CtrlOn
    <2>3. QED
      BY <1>1, <1>2, <1>4, <2>2 DEF KeyInv, CtrlInv
  <1>8. QED
    BY <1>3, <1>6, <1>7 DEF KeyInv

LEMMA ExtendedKeepsKeys ==
    ASSUME KeyInv, Extended
    PROVE  KeyInv'
  <1>1. /\ pc = "extended" /\ pc' = "poll" /\ port' = NoByte
        /\ UNCHANGED <<queue, held, keyboard, shift_active, ctrl_active>>
        /\ torn' = IF port = NoByte /\ Head(queue)[2] = "make"
                   THEN torn \cup ({Head(queue)[1]} \cap Modifiers) ELSE torn
    BY DEF Extended, ReadExtended, userVars
  <1>2. LastByte' = LastByte
    BY <1>1 DEF LastByte
  <1>3. port = NoByte \/ Half(port)
    BY <1>1 DEF KeyInv, Shape
  <1>4. Shape'
    <2>1. queue # <<>> =>
            /\ \/ Len(queue) = 1 /\ queue = <<LastByte>>
               \/ Len(queue) = 2 /\ queue = <<E0, LastByte>>
            /\ LastByte \notin {E0, NoByte}
            /\ Len(queue) = 2 => Half(LastByte)
      BY DEF KeyInv, Shape, Belongs
    <2>2. Belongs' <=> Len(queue) = 2
      BY <1>1, NoByteIsNoKey DEF Belongs
    <2>3. torn' \subseteq Modifiers
      BY <1>1 DEF KeyInv, Shape
    <2>4. QED
      BY <1>1, <1>2, <2>1, <2>2, <2>3, NoByteIsNoKey DEF KeyInv, Shape
  <1>5. ShiftHeld' = ShiftHeld /\ CtrlHeld' = CtrlHeld
    BY <1>1 DEF ShiftHeld, CtrlHeld
  <1>6. ShiftInv'
    <2>1. ShiftSoon' <=> ShiftSoon
      BY <1>1, NoByteIsNoKey DEF ShiftSoon, ShiftOn
    <2>2. CASE port # NoByte
      <3>1. port # E0
        BY <1>3, <2>2 DEF Half
      <3>2. Belongs' <=> Belongs
        BY <1>1, <2>2, <3>1, NoByteIsNoKey DEF Belongs
      <3>3. torn' = torn
        BY <1>1, <2>2
      <3>4. QED
        BY <1>1, <1>2, <1>5, <2>1, <3>2, <3>3 DEF KeyInv, ShiftInv, ShiftOn
    <2>3. CASE port = NoByte
      <3>1. queue = <<LastByte>> /\ Belongs /\ queue # <<>> /\ ~Belongs'
        BY <1>1, <2>3, NoByteIsNoKey DEF KeyInv, Shape, Belongs
      <3>2. ShiftSoon => ShiftHeld \/ ~(torn \cap ShiftKeys = {})
        BY <3>1 DEF KeyInv, ShiftInv
      <3>3. LastByte \in ShiftMakes => ~(torn' \cap ShiftKeys = {})
        <4>1. Head(queue) = LastByte
          BY <3>1
        <4>2. ASSUME LastByte \in ShiftMakes
              PROVE  LastByte[1] \in ShiftKeys /\ LastByte[2] = "make"
          BY <4>2 DEF ShiftMakes, ShiftKeys, Make
        <4>3. ASSUME LastByte[1] \in ShiftKeys, LastByte[2] = "make"
              PROVE  LastByte[1] \in torn'
          BY <1>1, <2>3, <4>1, <4>3 DEF Modifiers
        <4>4. QED
          BY <4>2, <4>3
      <3>4. torn' \cap ShiftKeys = {} => torn \cap ShiftKeys = {}
        BY <1>1
      <3>5. QED
        <4>1. LastByte \in ShiftMakes \/ ShiftSoon => ShiftHeld \/ ~(torn' \cap ShiftKeys = {})
          BY <3>2, <3>3, <3>4
        <4>2. queue' # <<>> /\ LastByte' = LastByte /\ ShiftHeld' = ShiftHeld
          BY <1>1, <1>2, <1>5, <3>1
        <4>3. ShiftOn(LastByte', ShiftSoon') => LastByte \in ShiftMakes \/ ShiftSoon
          BY <2>1, <4>2 DEF ShiftOn
        <4>4. QED
          BY <3>1, <4>1, <4>2, <4>3 DEF ShiftInv
    <2>4. QED
      BY <2>2, <2>3
  <1>7. CtrlInv'
    <2>1. CtrlSoon' <=> CtrlSoon
      BY <1>1, NoByteIsNoKey DEF CtrlSoon, CtrlOn
    <2>2. CASE port # NoByte
      <3>1. port # E0
        BY <1>3, <2>2 DEF Half
      <3>2. Belongs' <=> Belongs
        BY <1>1, <2>2, <3>1, NoByteIsNoKey DEF Belongs
      <3>3. torn' = torn
        BY <1>1, <2>2
      <3>4. QED
        BY <1>1, <1>2, <1>5, <2>1, <3>2, <3>3 DEF KeyInv, CtrlInv, CtrlOn
    <2>3. CASE port = NoByte
      <3>1. queue = <<LastByte>> /\ Belongs /\ queue # <<>> /\ ~Belongs'
        BY <1>1, <2>3, NoByteIsNoKey DEF KeyInv, Shape, Belongs
      <3>2. CtrlSoon => CtrlHeld \/ ~("ctrl" \notin torn)
        BY <3>1 DEF KeyInv, CtrlInv
      <3>3. LastByte \in {Make("ctrl")} => ~("ctrl" \notin torn')
        <4>1. Head(queue) = LastByte
          BY <3>1
        <4>2. QED
          BY <1>1, <2>3, <4>1 DEF Modifiers, Make
      <3>4. "ctrl" \notin torn' => "ctrl" \notin torn
        BY <1>1
      <3>5. QED
        BY <1>1, <1>2, <1>5, <2>1, <3>1, <3>2, <3>3, <3>4 DEF CtrlInv, CtrlOn
    <2>4. QED
      BY <2>2, <2>3
  <1>8. QED
    BY <1>4, <1>6, <1>7 DEF KeyInv

LEMMA DeliverKeepsKeys ==
    ASSUME KeyInv, Deliver
    PROVE  KeyInv'
  <1>1. /\ port = NoByte /\ queue # <<>>
        /\ port' = Head(queue) /\ queue' = Tail(queue)
        /\ UNCHANGED <<pc, held, keyboard, torn, shift_active, ctrl_active>>
    BY DEF Deliver, driverVars
  <1>2. ShiftHeld' = ShiftHeld /\ CtrlHeld' = CtrlHeld
    BY <1>1 DEF ShiftHeld, CtrlHeld
  <1>3. /\ \/ Len(queue) = 1 /\ queue = <<LastByte>>
           \/ Len(queue) = 2 /\ queue = <<E0, LastByte>>
        /\ LastByte \notin {E0, NoByte}
        /\ Belongs => Half(LastByte)
        /\ Len(queue) = 2 => pc = "poll"
        /\ pc \in {"poll", "extended"}
    BY <1>1 DEF KeyInv, Shape
  <1>4. CASE Len(queue) = 1
    <2> DEFINE b == LastByte
    <2>1. queue' = <<>> /\ port' = b
      BY <1>1, <1>3, <1>4
    <2>2. pc = "extended" <=> Belongs
      BY <1>1, <1>3, <1>4, NoByteIsNoKey DEF Belongs
    <2> HIDE DEF b
    <2>3. b \notin {E0, NoByte} /\ (pc = "extended" => Half(b))
      BY <1>3, <2>2 DEF b
    <2>4. Shape'
      BY <1>1, <2>1, <2>3, <1>3 DEF KeyInv, Shape
    <2>5. ShiftInv'
      <3> SUFFICES ASSUME torn \cap ShiftKeys = {} PROVE ShiftSoon' => ShiftHeld
        BY <1>1, <1>2, <2>1 DEF ShiftInv
      <3>1. CASE pc = "extended"
        BY <1>1, <2>2, <3>1 DEF KeyInv, ShiftInv, ShiftSoon
      <3>2. CASE pc = "poll"
        BY <1>1, <2>1, <2>2, <3>2, NoByteIsNoKey
          DEF KeyInv, ShiftInv, ShiftSoon, ShiftOn, b
      <3>3. QED
        BY <1>3, <3>1, <3>2
    <2>6. CtrlInv'
      <3> SUFFICES ASSUME "ctrl" \notin torn PROVE CtrlSoon' => CtrlHeld
        BY <1>1, <1>2, <2>1 DEF CtrlInv
      <3>1. CASE pc = "extended"
        BY <1>1, <2>2, <3>1 DEF KeyInv, CtrlInv, CtrlSoon
      <3>2. CASE pc = "poll"
        BY <1>1, <2>1, <2>2, <3>2, NoByteIsNoKey
          DEF KeyInv, CtrlInv, CtrlSoon, CtrlOn, b
      <3>3. QED
        BY <1>3, <3>1, <3>2
    <2>7. QED
      BY <2>4, <2>5, <2>6 DEF KeyInv
  <1>5. CASE Len(queue) = 2
    <2> DEFINE b == LastByte
    <2>1. queue = <<E0, b>>
      BY <1>3, <1>5
    <2>2. Belongs /\ pc = "poll"
      BY <1>3, <1>5 DEF Belongs
    <2> HIDE DEF b
    <2>3. queue' = <<b>> /\ Len(queue') = 1 /\ queue' # <<>> /\ port' = E0
      BY <1>1, <2>1
    <2>4. LastByte' = b
      BY <2>3 DEF LastByte
    <2>5. b \notin {E0, NoByte} /\ Half(b)
      BY <1>3, <2>2 DEF b
    <2>6. Belongs'
      BY <2>3 DEF Belongs
    <2>7. Shape'
      <3>1. queue' = <<LastByte'>> /\ Len(queue') # 2
        BY <2>3, <2>4
      <3>2. LastByte' \notin {E0, NoByte} /\ Half(LastByte') /\ pc' = "poll"
        BY <1>1, <2>2, <2>4, <2>5
      <3>3. QED
        BY <1>1, <2>3, <3>1, <3>2 DEF KeyInv, Shape, Half
    <2>8. E0 \notin ShiftMakes \cup ShiftBreaks /\ E0 # Make("ctrl") /\ E0 # Break("ctrl")
      BY DifferentBytes DEF ShiftMakes, ShiftBreaks
    <2>9. ShiftInv'
      <3>1. ShiftSoon' <=> ShiftSoon
        BY <1>1, <2>2, <2>3, <2>8, NoByteIsNoKey DEF ShiftSoon, ShiftOn
      <3>2. QED
        BY <1>1, <1>2, <2>2, <2>6, <3>1 DEF KeyInv, ShiftInv
    <2>10. CtrlInv'
      <3>1. CtrlSoon' <=> CtrlSoon
        BY <1>1, <2>2, <2>3, <2>8, NoByteIsNoKey DEF CtrlSoon, CtrlOn
      <3>2. QED
        BY <1>1, <1>2, <2>2, <2>6, <3>1 DEF KeyInv, CtrlInv
    <2>11. QED
      BY <2>7, <2>9, <2>10 DEF KeyInv
  <1>6. QED
    BY <1>3, <1>4, <1>5

LEMMA KeysOfKeyboard ==
    ASSUME Shape, NEW k \in keyboard
    PROVE  /\ k \in [ext : BOOLEAN, code : STRING] /\ k.code \notin {"E0", "none"}
           /\ Make(k.code) \notin {E0, NoByte} /\ Break(k.code) \notin {E0, NoByte}
           /\ k.ext => Half(Make(k.code)) /\ Half(Break(k.code))
           /\ k.code = "ctrl" /\ ~k.ext => k = Key(FALSE, "ctrl")
  <1>1. k \in [ext : BOOLEAN, code : STRING] /\ k.code \notin {"E0", "none"}
    BY KeyAssumption DEF Shape
  <1>2. Make(k.code) \notin {E0, NoByte} /\ Break(k.code) \notin {E0, NoByte}
    BY <1>1, DifferentBytes
  <1>3. k.ext => Half(Make(k.code)) /\ Half(Break(k.code))
    BY <1>2 DEF Half
  <1>4. k.code = "ctrl" /\ ~k.ext => k = Key(FALSE, "ctrl")
    BY <1>1 DEF Key
  <1>5. QED
    BY <1>1, <1>2, <1>3, <1>4

\* A key sends a byte of its own, with E0 before it if its code is extended.
Sends(k, b) ==
    /\ queue = <<>> /\ queue' = Bytes(k, b)
    /\ b \notin {E0, NoByte} /\ (k.ext => Half(b))
    /\ UNCHANGED <<pc, port, keyboard, torn, shift_active, ctrl_active>>
    /\ held' \subseteq keyboard

LEMMA SendingShapes ==
    ASSUME Shape, NEW k \in keyboard, NEW b, Sends(k, b)
    PROVE  /\ Shape' /\ queue' # <<>> /\ LastByte' = b
           /\ Belongs' <=> k.ext
           /\ port # E0
  <1>1. /\ queue = <<>> /\ b \notin {E0, NoByte} /\ (k.ext => Half(b))
        /\ UNCHANGED <<pc, port, keyboard, torn, shift_active, ctrl_active>>
        /\ held' \subseteq keyboard
        /\ port # E0 /\ (pc = "extended" => port # NoByte)
    BY DEF Sends, Shape
  <1>2. CASE k.ext
    <2>1. queue' = <<E0, b>>
      BY <1>2 DEF Sends, Bytes
    <2>2. Len(queue') = 2 /\ queue' # <<>> /\ LastByte' = b
      BY <2>1 DEF LastByte
    <2>3. Belongs'
      BY <2>2 DEF Belongs
    <2>4. QED
      BY <1>1, <1>2, <2>1, <2>2, <2>3 DEF Shape
  <1>3. CASE ~k.ext
    <2>1. queue' = <<b>>
      BY <1>3 DEF Sends, Bytes
    <2>2. Len(queue') = 1 /\ queue' # <<>> /\ LastByte' = b
      BY <2>1 DEF LastByte
    <2>3. ~Belongs'
      BY <1>1, <2>2 DEF Belongs
    <2>4. QED
      BY <1>1, <1>3, <2>1, <2>2, <2>3 DEF Shape
  <1>4. QED
    BY <1>2, <1>3

LEMMA PressKeepsKeys ==
    ASSUME KeyInv, NEW k \in keyboard, Press(k)
    PROVE  KeyInv'
  <1> DEFINE b == Make(k.code)
  <1>1. /\ queue = <<>> /\ queue' = Bytes(k, b)
        /\ held' = IF Holds(k) THEN held \cup {k} ELSE held
        /\ UNCHANGED <<pc, port, keyboard, torn, shift_active, ctrl_active>>
    BY DEF Press, driverVars
  <1>2. Shape
    BY DEF KeyInv
  <1>3. /\ b \notin {E0, NoByte} /\ (k.ext => Half(b))
        /\ k.code = "ctrl" /\ ~k.ext => k = Key(FALSE, "ctrl")
    BY <1>2, KeysOfKeyboard
  <1>4. b # Break("ctrl") /\ b \notin ShiftBreaks
    BY DifferentBytes DEF ShiftBreaks
  <1>5. /\ b \in ShiftMakes => k.code \in ShiftKeys
        /\ b = Make("ctrl") => k.code = "ctrl"
    BY DifferentBytes DEF ShiftMakes, ShiftKeys
  <1>6. held \subseteq held' /\ (Holds(k) => k \in held')
    BY <1>1
  <1> HIDE DEF b
  <1>7. Sends(k, b)
    BY <1>1, <1>2, <1>3 DEF Sends, Shape
  <1>8. /\ Shape' /\ queue' # <<>> /\ LastByte' = b
        /\ Belongs' <=> k.ext
    BY <1>2, <1>7, SendingShapes
  <1>9. ShiftInv'
    <2> SUFFICES ASSUME torn \cap ShiftKeys = {} PROVE ShiftInv'
      BY <1>1 DEF ShiftInv
    <2>1. ShiftHeld => ShiftHeld'
      BY <1>6 DEF ShiftHeld
    <2>2. ShiftSoon' <=> ShiftSoon
      BY <1>1 DEF ShiftSoon
    <2>3. ShiftSoon => ShiftHeld
      BY <1>1 DEF KeyInv, ShiftInv
    <2>4. ~k.ext /\ b \in ShiftMakes => ShiftHeld'
      BY <1>5, <1>6 DEF ShiftHeld, Holds, Modifiers
    <2>5. QED
      BY <1>4, <1>8, <2>1, <2>2, <2>3, <2>4 DEF ShiftInv, ShiftOn
  <1>10. CtrlInv'
    <2> SUFFICES ASSUME "ctrl" \notin torn PROVE CtrlInv'
      BY <1>1 DEF CtrlInv
    <2>1. CtrlHeld => CtrlHeld'
      BY <1>6 DEF CtrlHeld
    <2>2. CtrlSoon' <=> CtrlSoon
      BY <1>1 DEF CtrlSoon
    <2>3. CtrlSoon => CtrlHeld
      BY <1>1 DEF KeyInv, CtrlInv
    <2>4. ~k.ext /\ b = Make("ctrl") => CtrlHeld'
      BY <1>3, <1>5, <1>6 DEF CtrlHeld, Holds, Modifiers
    <2>5. QED
      BY <1>4, <1>8, <2>1, <2>2, <2>3, <2>4 DEF CtrlInv, CtrlOn
  <1>11. QED
    BY <1>8, <1>9, <1>10 DEF KeyInv

LEMMA ReleaseKeepsKeys ==
    ASSUME KeyInv, NEW k \in keyboard, Release(k)
    PROVE  KeyInv'
  <1> DEFINE b == Break(k.code)
  <1>1. /\ queue = <<>> /\ queue' = Bytes(k, b) /\ held' = held \ {k}
        /\ UNCHANGED <<pc, port, keyboard, torn, shift_active, ctrl_active>>
    BY DEF Release, driverVars
  <1>2. Shape
    BY DEF KeyInv
  <1>3. /\ b \notin {E0, NoByte} /\ (k.ext => Half(b))
        /\ k.code = "ctrl" /\ ~k.ext => k = Key(FALSE, "ctrl")
    BY <1>2, KeysOfKeyboard
  <1>4. b # Make("ctrl") /\ b \notin ShiftMakes
    BY DifferentBytes DEF ShiftMakes
  <1>5. /\ k.code \in ShiftKeys => b \in ShiftBreaks
        /\ k.code = "ctrl" => b = Break("ctrl")
    BY DEF ShiftBreaks, ShiftKeys
  <1> HIDE DEF b
  <1>6. Sends(k, b)
    BY <1>1, <1>2, <1>3 DEF Sends, Shape
  <1>7. /\ Shape' /\ queue' # <<>> /\ LastByte' = b
        /\ Belongs' <=> k.ext
    BY <1>2, <1>6, SendingShapes
  <1>8. ShiftInv'
    <2> SUFFICES ASSUME torn \cap ShiftKeys = {} PROVE ShiftInv'
      BY <1>1 DEF ShiftInv
    <2>1. ShiftSoon' <=> ShiftSoon
      BY <1>1 DEF ShiftSoon
    <2>2. ShiftSoon => ShiftHeld
      BY <1>1 DEF KeyInv, ShiftInv
    <2>3. ~(k.code \in ShiftKeys /\ ~k.ext) => (ShiftHeld => ShiftHeld')
      BY <1>1 DEF ShiftHeld
    <2>4. QED
      BY <1>4, <1>5, <1>7, <2>1, <2>2, <2>3 DEF ShiftInv, ShiftOn
  <1>9. CtrlInv'
    <2> SUFFICES ASSUME "ctrl" \notin torn PROVE CtrlInv'
      BY <1>1 DEF CtrlInv
    <2>1. CtrlSoon' <=> CtrlSoon
      BY <1>1 DEF CtrlSoon
    <2>2. CtrlSoon => CtrlHeld
      BY <1>1 DEF KeyInv, CtrlInv
    <2>3. k # Key(FALSE, "ctrl") => (CtrlHeld => CtrlHeld')
      BY <1>1 DEF CtrlHeld
    <2>4. k = Key(FALSE, "ctrl") => k.code = "ctrl" /\ ~k.ext
      BY DEF Key
    <2>5. QED
      BY <1>4, <1>5, <1>7, <2>1, <2>2, <2>3, <2>4 DEF CtrlInv, CtrlOn
  <1>10. QED
    BY <1>7, <1>8, <1>9 DEF KeyInv

LEMMA ShiftConsumes ==
    ASSUME Shape, Shift PROVE Consumes
  <1>1. /\ pc = "poll" /\ port' = NoByte
        /\ UNCHANGED <<queue, held, keyboard, torn, ctrl_active, pc>>
        /\ \/ port \in ShiftMakes /\ shift_active' = TRUE
           \/ port \in ShiftBreaks /\ shift_active' = FALSE
    BY DEF Shift, Take, userVars, ShiftMakes
  <1>2. port \notin {NoByte, E0, Make("ctrl"), Break("ctrl")}
    BY <1>1, DifferentBytes DEF ShiftMakes, ShiftBreaks
  <1>3. port \in ShiftBreaks => port \notin ShiftMakes
    BY DifferentBytes DEF ShiftMakes, ShiftBreaks
  <1>4. QED
    BY <1>1, <1>2, <1>3 DEF Consumes, ShiftOn, CtrlOn, Shape

LEMMA CtrlConsumes ==
    ASSUME Shape, Ctrl PROVE Consumes
  <1>1. /\ pc = "poll" /\ port' = NoByte
        /\ UNCHANGED <<queue, held, keyboard, torn, shift_active, pc>>
        /\ port \in {Make("ctrl"), Break("ctrl")}
        /\ ctrl_active' = (port = Make("ctrl"))
    BY DEF Ctrl, Take, userVars, CtrlAfter
  <1>2. port \notin {NoByte, E0} \cup ShiftMakes \cup ShiftBreaks
    BY <1>1, DifferentBytes DEF ShiftMakes, ShiftBreaks
  <1>3. Make("ctrl") # Break("ctrl")
    BY DifferentBytes
  <1>4. QED
    BY <1>1, <1>2, <1>3 DEF Consumes, ShiftOn, CtrlOn, Shape

LEMMA PlainConsumes ==
    ASSUME Shape, TakePlain PROVE Consumes
  <1>1. /\ pc = "poll" /\ port # NoByte /\ port' = NoByte
        /\ UNCHANGED <<queue, held, keyboard, torn, shift_active, ctrl_active, pc>>
        /\ port \notin {E0, Make("ctrl"), Break("ctrl")}
        /\ port \notin ShiftMakes /\ port \notin ShiftBreaks
    BY DEF TakePlain, Take, userVars, driverVars, ShiftMakes
  <1>2. QED
    BY <1>1 DEF Consumes, ShiftOn, CtrlOn, Shape

----------------------------------------------------------------------------
(* Arrow-up on its way *)

\* A byte that is read, or not there, does not bring an arrow-up any further.
LEMMA ReadingKeepsUp ==
    ASSUME UpInv, port' = NoByte, queue' = queue, t' = t \/ port \notin {NoByte, E0}
    PROVE  UpInv'
  <1>1. LastByte' = LastByte
    BY DEF LastByte
  <1>2. QED
    BY <1>1, NoByteIsNoKey DEF UpInv

LEMMA PollKeepsUp ==
    ASSUME KeyInv, UpInv, Poll
    PROVE  UpInv'
  <1>1. port' = NoByte /\ queue' = queue
    BY DEF Poll, ReadPrefix, ArrowUp, ArrowDown, OtherExtended, Extended, Shift, Ctrl,
           CtrlOther, Backspace, Ignored, SwitchScreen, TypeKey, TakePlain, Take, userVars
  <1>2. t' = t \/ port \notin {NoByte, E0}
    <2>1. Make("up") \notin {NoByte, E0} /\ Make("down") \notin {NoByte, E0}
      BY DifferentBytes
    <2>2. QED
      BY <2>1 DEF Poll, ReadPrefix, ArrowUp, ArrowDown, OtherExtended, Shift, Ctrl,
             CtrlOther, Backspace, Ignored, SwitchScreen, TypeKey, TakePlain, Take
  <1>3. QED
    BY <1>1, <1>2, ReadingKeepsUp

LEMMA DeliverKeepsUp ==
    ASSUME KeyInv, UpInv, Deliver
    PROVE  UpInv'
  <1>1. /\ queue # <<>> /\ port' = Head(queue) /\ queue' = Tail(queue) /\ t' = t
    BY DEF Deliver
  <1>2. \/ Len(queue) = 1 /\ queue = <<LastByte>>
        \/ Len(queue) = 2 /\ queue = <<E0, LastByte>>
    BY <1>1 DEF KeyInv, Shape
  <1>3. CASE Len(queue) = 1 /\ queue = <<LastByte>>
    <2>1. queue' = <<>> /\ port' = LastByte
      BY <1>1, <1>3
    <2>2. QED
      BY <1>1, <2>1 DEF UpInv
  <1>4. CASE Len(queue) = 2 /\ queue = <<E0, LastByte>>
    <2> DEFINE b == LastByte
    <2>1. queue = <<E0, b>>
      BY <1>4
    <2> HIDE DEF b
    <2>2. queue' = <<b>> /\ Len(queue') = 1 /\ port' = E0
      BY <1>1, <2>1
    <2>3. LastByte' = LastByte
      BY <2>2 DEF LastByte, b
    <2>4. QED
      BY <1>1, <2>2, <2>3, NoByteIsNoKey DEF UpInv
  <1>5. QED
    BY <1>2, <1>3, <1>4

LEMMA UserKeepsUp ==
    ASSUME KeyInv, UpInv, NEW k \in keyboard, Press(k) \/ Release(k)
    PROVE  UpInv'
  <1>1. queue = <<>> /\ UNCHANGED <<t, port>>
    BY DEF Press, Release
  <1>2. port = Make("up") => Offset(t) < MaxOffset
    BY DEF UpInv
  <1>3. CASE Press(k)
    <2>1. Sends(k, Make(k.code))
      BY <1>3, KeysOfKeyboard DEF KeyInv, Shape, Press, Sends, driverVars
    <2>2. LastByte' = Make(k.code)
      BY <2>1, SendingShapes DEF KeyInv
    <2>3. Make(k.code) = Make("up") => k.code = "up"
      BY DifferentBytes
    <2>4. k.code = "up" => Offset(t) < MaxOffset /\ port = NoByte
      BY <1>3 DEF Press
    <2>5. QED
      BY <1>1, <1>2, <2>2, <2>3, <2>4 DEF UpInv
  <1>4. CASE Release(k)
    <2>1. Sends(k, Break(k.code))
      BY <1>4, KeysOfKeyboard DEF KeyInv, Shape, Release, Sends, driverVars
    <2>2. LastByte' = Break(k.code)
      BY <2>1, SendingShapes DEF KeyInv
    <2>3. Break(k.code) # Make("up")
      BY DifferentBytes
    <2>4. QED
      BY <1>1, <1>2, <2>2, <2>3 DEF UpInv
  <1>5. QED
    BY <1>3, <1>4

----------------------------------------------------------------------------
(* The inductive invariant *)

IInv == ScreenInv /\ KeyInv /\ UpInv

LEMMA ScreensKept ==
    ASSUME ScreenInv, UNCHANGED <<t, kernel, phantoms>>
    PROVE  ScreenInv'
  BY DEF ScreenInv, Follows, FirstShown, Rows, Offset, Offsets, Counted, CursorIn

LEMMA InitIInv ==
    ASSUME Init
    PROVE  IInv
  <1>1. /\ t \in Globals /\ Follows(t) /\ Counted(t, Level) /\ t.scroll_offset = Level
    BY InitialScreens DEF Init, Fresh
  <1>2. phantoms = Level /\ Level \in [Screens -> Nat] /\ \A s \in Screens : Level[s] = 0
    BY DEF Init, Level
  <1>3. kernel = "running"
    BY DEF Init
  <1>4. Offsets(t)
    BY <1>1, <1>2, Constants DEF Offsets
  <1>5. ScreenInv
    BY <1>1, <1>2, <1>3, <1>4 DEF ScreenInv
  <1>6. KeyInv
    <2>1. Shape
      BY NoByteIsNoKey DEF Init, Shape
    <2>2. ~ShiftOn(NoByte, FALSE) /\ ~CtrlOn(NoByte, FALSE)
      BY NoByteIsNoKey
    <2>3. queue = <<>> /\ port = NoByte /\ pc = "poll"
          /\ (shift_active = TRUE) = FALSE /\ (ctrl_active = TRUE) = FALSE
      BY DEF Init
    <2>4. ShiftInv
      BY <2>2, <2>3 DEF ShiftInv, ShiftSoon
    <2>5. CtrlInv
      BY <2>2, <2>3 DEF CtrlInv, CtrlSoon
    <2>6. QED
      BY <2>1, <2>4, <2>5 DEF KeyInv
  <1>7. UpInv
    BY NoByteIsNoKey DEF Init, UpInv
  <1>8. QED
    BY <1>5, <1>6, <1>7 DEF IInv

LEMMA PollKeepsIInv ==
    ASSUME IInv, Poll
    PROVE  IInv'
  <1>1. ScreenInv /\ KeyInv /\ UpInv /\ Shape
    BY DEF IInv, KeyInv
  <1>2. UpInv'
    BY <1>1, PollKeepsUp
  <1>3. CASE ReadPrefix
    <2>1. UNCHANGED <<t, kernel, phantoms>>
      BY <1>3 DEF ReadPrefix
    <2>2. QED
      BY <1>1, <1>2, <1>3, <2>1, ScreensKept, PrefixKeepsKeys DEF IInv
  <1>4. CASE ArrowUp \/ ArrowDown
    <2>1. ScreenInv'
      BY <1>1, <1>4, ArrowScreens DEF UpInv
    <2>2. KeyInv'
      BY <1>1, <1>4, ExtendedKeepsKeys DEF ArrowUp, ArrowDown
    <2>3. QED
      BY <1>2, <2>1, <2>2 DEF IInv
  <1>5. CASE OtherExtended
    <2>1. UNCHANGED <<t, kernel, phantoms>> /\ Extended
      BY <1>5 DEF OtherExtended, Extended
    <2>2. QED
      BY <1>1, <1>2, <2>1, ScreensKept, ExtendedKeepsKeys DEF IInv
  <1>6. CASE Shift
    <2>1. UNCHANGED <<t, kernel, phantoms>>
      BY <1>6 DEF Shift
    <2>2. QED
      BY <1>1, <1>2, <1>6, <2>1, ScreensKept, ShiftConsumes, ConsumingKeepsKeys DEF IInv
  <1>7. CASE Ctrl
    <2>1. UNCHANGED <<t, kernel, phantoms>>
      BY <1>7 DEF Ctrl
    <2>2. QED
      BY <1>1, <1>2, <1>7, <2>1, ScreensKept, CtrlConsumes, ConsumingKeepsKeys DEF IInv
  <1>8. ASSUME TakePlain PROVE KeyInv'
    BY <1>1, <1>8, PlainConsumes, ConsumingKeepsKeys
  <1>9. CASE CtrlOther \/ Ignored
    <2>1. UNCHANGED <<t, kernel, phantoms>> /\ TakePlain
      BY <1>9 DEF CtrlOther, Ignored
    <2>2. QED
      BY <1>1, <1>2, <1>8, <2>1, ScreensKept DEF IInv
  <1>10. CASE Backspace
    <2>1. TakePlain
      BY <1>10 DEF Backspace
    <2>2. QED
      BY <1>1, <1>2, <1>8, <1>10, <2>1, BackspaceScreens DEF IInv
  <1>11. ASSUME NEW s \in Screens, SwitchScreen(s) PROVE IInv'
    <2>1. TakePlain
      BY <1>11 DEF SwitchScreen
    <2>2. QED
      BY <1>1, <1>2, <1>8, <1>11, <2>1, SwitchScreens DEF IInv
  <1>12. ASSUME NEW c, TypeKey(c) PROVE IInv'
    <2>1. TakePlain
      BY <1>12 DEF TypeKey
    <2>2. QED
      BY <1>1, <1>2, <1>8, <1>12, <2>1, TypeKeyScreens DEF IInv
  <1>13. QED
    BY <1>3, <1>4, <1>5, <1>6, <1>7, <1>9, <1>10, <1>11, <1>12 DEF Poll

LEMMA NextIInv ==
    ASSUME IInv, [Next]_vars
    PROVE  IInv'
  <1>1. ScreenInv /\ KeyInv /\ UpInv
    BY DEF IInv
  <1>2. CASE Poll
    BY <1>2, PollKeepsIInv
  <1>3. CASE Deliver
    <2>1. UNCHANGED <<t, kernel, phantoms>>
      BY <1>3 DEF Deliver
    <2>2. QED
      BY <1>1, <1>3, <2>1, ScreensKept, DeliverKeepsKeys, DeliverKeepsUp DEF IInv
  <1>4. ASSUME NEW k \in keyboard, Press(k) \/ Release(k) PROVE IInv'
    <2>1. UNCHANGED <<t, kernel, phantoms>>
      BY <1>4 DEF Press, Release
    <2>2. KeyInv'
      BY <1>1, <1>4, PressKeepsKeys, ReleaseKeepsKeys
    <2>3. QED
      BY <1>1, <1>4, <2>1, <2>2, ScreensKept, UserKeepsUp DEF IInv
  <1>5. CASE UNCHANGED vars
    <2>1. /\ UNCHANGED <<t, kernel, phantoms>>
          /\ UNCHANGED <<shift_active, ctrl_active, pc, queue, port, held, keyboard, torn>>
      BY <1>5 DEF vars, driverVars, userVars
    <2>2. KeyInv'
      BY <1>1, <2>1 DEF KeyInv, Shape, ShiftInv, CtrlInv, LastByte, Belongs, ShiftHeld,
                        ShiftSoon, CtrlHeld, CtrlSoon
    <2>3. UpInv'
      BY <1>1, <2>1 DEF UpInv, LastByte
    <2>4. QED
      BY <1>1, <2>1, <2>2, <2>3, ScreensKept DEF IInv
  <1>6. QED
    BY <1>2, <1>3, <1>4, <1>5 DEF Next, User

LEMMA Invariance == Spec => []IInv
  BY InitIInv, NextIInv, PTL DEF Spec

----------------------------------------------------------------------------
(* The properties *)

LEMMA CursorsAgree ==
    /\ \A s : CursorOf(s) = CursorIn(t, s)
    /\ \A s : CursorOf(s)' = CursorIn(t', s)
  BY DEF CursorOf, CursorIn

\* The row counter of a screen is the row of its cursor and the control characters
\* counted on top, for every size and every way the keys are pressed.
THEOREM RowCountersFollow == Spec => []RowsCounted
  <1>1. ASSUME IInv PROVE RowsCounted
    <2>1. /\ t \in Globals /\ Offsets(t) /\ kernel \in {"running", "astray"}
          /\ kernel = "running" => Counted(t, phantoms)
          /\ kernel = "astray" => phantoms[t.active_screen] = BUFFER_ROWS
          /\ Shape
      BY <1>1 DEF IInv, ScreenInv, KeyInv
    <2>2. t.scroll_offset \in [Screens -> 0 .. MaxOffset]
      <3>1. t.scroll_offset \in [Screens -> Nat] /\ MaxOffset \in Nat
        BY <2>1, GlobalsTyped, Constants
      <3>2. \A s \in Screens : t.scroll_offset[s] \in 0 .. MaxOffset
        BY <2>1, <3>1 DEF Offsets
      <3>3. QED
        BY <3>1, <3>2
    <2>3. TypeOK
      BY <2>1, <2>2, GlobalsTyped, CursorsAgree DEF TypeOK, Counted, Cells, Shape
    <2>4. RowsAhead
      BY <2>1, CursorsAgree DEF RowsAhead, RowOf, Counted
    <2>5. AstrayIsLate
      BY <2>1 DEF AstrayIsLate
    <2>6. QED
      BY <2>3, <2>4, <2>5 DEF RowsCounted
  <1>2. QED
    BY <1>1, Invariance, PTL

\* The row at the top of the display is the one that row counter and scroll
\* offset ask for, or one further down after backspace has ended the scrolling.
\* Where it is the one asked for, nothing is scrolled back and no row has been
\* counted that the cursor did not enter, the cursor is on the display.
THEOREM DisplayFollowsRows == Spec => []DisplayFollows
  <1>1. ASSUME IInv PROVE DisplayFollows
    <2>1. /\ t \in Globals /\ Follows(t) /\ kernel \in {"running", "astray"}
          /\ kernel = "running" => Counted(t, phantoms)
          /\ kernel = "astray" => phantoms[t.active_screen] = BUFFER_ROWS
      BY <1>1 DEF IInv, ScreenInv
    <2>2. TopFollows
      BY <2>1 DEF TopFollows, Follows
    <2>3. CursorOnDisplay
      <3> DEFINE a == t.active_screen
                 q == RowOf(a)
      <3> SUFFICES ASSUME phantoms[a] = 0, Offset(t) = 0, t.top = FirstShown(t)
                   PROVE  q \in t.top .. t.top + VGA_ROWS - 1
        BY DEF CursorOnDisplay
      <3>1. /\ BUFFER_ROWS \in Nat /\ VGA_ROWS \in Nat \ {0} /\ BUFFER_ROWS > VGA_ROWS
        BY Constants
      <3>2. CountedFront(t, phantoms)
        BY <2>1, <3>1, FrontIsCounted
      <3>3. q = t.cursor_pos \div VGA_COLS
        BY DEF RowOf, CursorOf
      <3>4. q \in Nat
        BY <3>2, <3>3, RowOfCell DEF CountedFront
      <3>5. Rows(t) = q + 0
        BY <3>2, <3>3 DEF CountedFront
      <3>6. /\ Rows(t) < VGA_ROWS => t.top = 0
            /\ Rows(t) >= VGA_ROWS => t.top = Rows(t) - VGA_ROWS + 1
        BY <2>1, FirstShownBounds
      <3> HIDE DEF q
      <3>7. QED
        BY <3>1, <3>4, <3>5, <3>6
    <2>4. QED
      BY <2>2, <2>3 DEF DisplayFollows
  <1>2. QED
    BY <1>1, Invariance, PTL

\* A modifier of keyboard.c is off when no key is down and every byte is read,
\* for every set of keys and every order of presses, releases and reads, unless
\* an extended press of that very modifier has been read in two halves.
THEOREM ModifiersAreReleased == Spec => []NoStuckModifier
  <1>1. ASSUME IInv PROVE NoStuckModifier
    <2>1. ShiftInv /\ CtrlInv /\ Shape
      BY <1>1 DEF IInv, KeyInv
    <2>2. ASSUME Drained, held = {}
          PROVE  /\ torn \cap ShiftKeys = {} => ~shift_active
                 /\ "ctrl" \notin torn => ~ctrl_active
      <3>1. queue = <<>> /\ port = NoByte /\ pc = "poll" /\ ~ShiftHeld /\ ~CtrlHeld
        BY <2>2 DEF Drained, ShiftHeld, CtrlHeld
      <3>2. torn \cap ShiftKeys = {} => ~ShiftOn(NoByte, shift_active = TRUE)
        BY <2>1, <3>1 DEF ShiftInv, ShiftSoon
      <3>3. "ctrl" \notin torn => ~CtrlOn(NoByte, ctrl_active = TRUE)
        BY <2>1, <3>1 DEF CtrlInv, CtrlSoon
      <3>4. /\ torn \cap ShiftKeys = {} => shift_active # TRUE
            /\ "ctrl" \notin torn => ctrl_active # TRUE
        BY <3>2, <3>3, NoByteIsNoKey
      <3>5. shift_active \in BOOLEAN /\ ctrl_active \in BOOLEAN
        BY <2>1 DEF Shape
      <3>6. QED
        BY <3>4, <3>5
    <2>3. QED
      BY <2>2 DEF NoStuckModifier, NoStuckShift, NoStuckCtrl
  <1>2. QED
    BY <1>1, Invariance, PTL

\* No step of the keyboard or its driver changes the row counter, the scroll
\* offset or the cursor of a screen that is not in front before or after it.
THEOREM HiddenScreensKept == Spec => OthersUntouched
  <1> DEFINE Untouched ==
        \A s \in Screens : s # t.active_screen \/ s # t'.active_screen =>
          /\ t'.row_count[s] = t.row_count[s]
          /\ t'.scroll_offset[s] = t.scroll_offset[s]
          /\ CursorOf(s)' = CursorOf(s)
  <1>1. ASSUME t' = t PROVE Untouched
    BY <1>1, CursorsAgree DEF CursorIn
  <1>2. ASSUME OnlyInFront(t, t') PROVE Untouched
    BY <1>2, CursorsAgree DEF OnlyInFront, CursorIn
  <1>3. ASSUME IInv, Next PROVE Untouched
    <2>1. ScreenInv /\ UpInv
      BY <1>3 DEF IInv
    <2>2. CASE ArrowUp \/ ArrowDown
      BY <1>2, <2>1, <2>2, ArrowScreens DEF UpInv
    <2>3. CASE Backspace
      BY <1>2, <2>1, <2>3, BackspaceScreens
    <2>4. ASSUME NEW c, TypeKey(c) PROVE Untouched
      BY <1>2, <2>1, <2>4, TypeKeyScreens
    <2>5. ASSUME NEW s \in Screens, SwitchScreen(s) PROVE Untouched
      <3>1. /\ t'.row_count = t.row_count /\ t'.scroll_offset = t.scroll_offset
            /\ \A q \in Screens : CursorIn(t', q) = CursorIn(t, q)
        BY <2>1, <2>5, SwitchScreens
      <3>2. QED
        BY <3>1, CursorsAgree
    <2>6. CASE \/ ReadPrefix \/ OtherExtended \/ Shift \/ Ctrl \/ CtrlOther \/ Ignored
               \/ Deliver \/ User
      <3>1. t' = t
        BY <2>6 DEF ReadPrefix, OtherExtended, Shift, Ctrl, CtrlOther, Ignored, Deliver,
                    User, Press, Release
      <3>2. QED
        BY <1>1, <3>1
    <2>7. QED
      BY <1>3, <2>2, <2>3, <2>4, <2>5, <2>6 DEF Next, Poll
  <1>4. ASSUME IInv, [Next]_vars PROVE [Untouched]_vars
    BY <1>3, <1>4
  <1>5. QED
    BY <1>4, Invariance, PTL DEF Spec, OthersUntouched

=============================================================================
