----------------------------- MODULE ScreensProofs -----------------------------
(***************************************************************************)
(* Proofs about the screens of kfs3 bonus, for every size of the screen    *)
(* and the buffer, every number of screens and every prompt, banner and    *)
(* output.                                                                 *)
(*                                                                         *)
(* A page is one screen by itself: its cells, its cursor and its row       *)
(* counter.  The first part is about pages, the second shows that the      *)
(* operations of screen.c on the globals are operations on the page in     *)
(* front and leave the others alone, the third has the invariants and the  *)
(* theorems that follow from them, the last the texts that pages hold and  *)
(* the refinement of Scrollback.                                           *)
(***************************************************************************)
EXTENDS Screens, NatFacts, SequenceTheorems, TLAPS

Indices == 0 .. Size - 1
Top == (BufferRows - 1) * Columns   \* the start of the last row

LEMMA Constants ==
    /\ Rows \in Nat \ {0} /\ Columns \in Nat \ {0} /\ ScreenCount \in Nat \ {0}
    /\ BufferRows \in Nat /\ BufferRows > Rows
    /\ CommandSize \in Nat /\ MaxTyped \in Nat /\ Keys \subseteq KeyKinds
    /\ Word \in Nat /\ Short \in Nat /\ Short > BufferRows /\ Word > Short
    /\ "blank" \in Cells /\ "mark" \in Cells /\ Letters \subseteq Cells
    /\ "newline" \notin Cells /\ "tab" \notin Cells
    /\ "blank" \notin Letters /\ "mark" \notin Letters
    /\ Screens = 0 .. ScreenCount - 1 /\ 0 \in Screens
  BY ScreensAssumption DEF Cells, Screens

LEMMA Sizes ==
    /\ Size \in Nat /\ Top \in Nat /\ Rows * Columns \in Nat
    /\ Size = Top + Columns /\ Rows * Columns <= Top
    /\ Columns <= Rows * Columns
    /\ Columns <= Top
  <1>1. /\ Rows \in Nat \ {0} /\ Columns \in Nat \ {0} /\ BufferRows \in Nat
        /\ Rows <= BufferRows - 1 /\ 1 <= Rows /\ BufferRows - 1 \in Nat
    BY Constants
  <1>2. Rows * Columns <= (BufferRows - 1) * Columns /\ 1 * Columns <= Rows * Columns
    BY <1>1, TimesMonotonic
  <1>3. /\ BufferRows * Columns = (BufferRows - 1) * Columns + Columns
        /\ (BufferRows - 1) * Columns \in Nat /\ Rows * Columns \in Nat
    BY <1>1
  <1>4. QED
    BY <1>1, <1>2, <1>3 DEF Size, Top

----------------------------------------------------------------------------
(* Pages *)

PageRec == [cells : [Indices -> Cells], at : Int, rows : 0 .. BufferRows - 1]

\* The cursor is in the buffer, and no row below those that are counted.
Sheet(p) ==
    /\ p \in PageRec
    /\ p.at \in Indices
    /\ p.at \div Columns <= p.rows

\* Nothing has been deleted: the row counter is the row of the cursor, and
\* there is nothing behind the cursor.
Straight(p) ==
    /\ Sheet(p)
    /\ p.at \div Columns = p.rows
    /\ \A j \in Indices : p.at <= j => p.cells[j] = "blank"

PageUp(p) ==
    [cells |-> [j \in Indices |-> IF j < Top THEN p.cells[j + Columns] ELSE "blank"],
     at |-> p.at - Columns, rows |-> p.rows]
PageRow(p) ==
    IF p.rows = BufferRows - 1 THEN PageUp(p)
    ELSE [cells |-> p.cells, at |-> p.at, rows |-> p.rows + 1]
Filled(p, c) ==
    [cells |-> [j \in Indices |-> IF j = p.at THEN c ELSE p.cells[j]],
     at |-> p.at + 1, rows |-> p.rows]
PagePut(p, c) ==
    IF (p.at + 1) % Columns = 0 THEN PageRow(Filled(p, c)) ELSE Filled(p, c)
Rest(k) == Columns - (k % Columns)
Padded(p) ==
    [cells |-> [j \in Indices |-> IF p.at <= j /\ j < p.at + Rest(p.at)
                                  THEN "blank" ELSE p.cells[j]],
     at |-> p.at + Rest(p.at), rows |-> p.rows]
PageLine(p) == PageRow(Padded(p))
PageErased(p) ==
    [cells |-> [j \in Indices |-> IF j = p.at - 1 THEN "blank" ELSE p.cells[j]],
     at |-> p.at - 1, rows |-> p.rows]
EmptyPage == [cells |-> [j \in Indices |-> "blank"], at |-> 0, rows |-> 0]

\* Where a cursor in row r of the buffer can be.
LEMMA RowOf ==
    ASSUME NEW k \in Nat
    PROVE  /\ k \div Columns \in Nat
           /\ (k \div Columns) * Columns <= k /\ k < (k \div Columns) * Columns + Columns
           /\ k < Size <=> k \div Columns <= BufferRows - 1
           /\ k < Rows * Columns <=> k \div Columns < Rows
           /\ Top <= k <=> BufferRows - 1 <= k \div Columns
  <1> DEFINE q == k \div Columns
  <1>1. /\ Columns \in Nat \ {0} /\ Rows \in Nat /\ BufferRows \in Nat
        /\ BufferRows - 1 \in Nat
    BY Constants
  <1>2. q \in Nat /\ q * Columns <= k /\ k < (q + 1) * Columns
    BY <1>1, DivBounds
  <1>3. /\ (q + 1) * Columns = q * Columns + Columns
        /\ q * Columns \in Nat
    BY <1>1, <1>2
  <1>4. /\ q <= BufferRows - 1 => (q + 1) * Columns <= BufferRows * Columns
        /\ BufferRows <= q => BufferRows * Columns <= q * Columns
        /\ q + 1 <= Rows => (q + 1) * Columns <= Rows * Columns
        /\ Rows <= q => Rows * Columns <= q * Columns
        /\ BufferRows - 1 <= q => (BufferRows - 1) * Columns <= q * Columns
        /\ q + 1 <= BufferRows - 1 => (q + 1) * Columns <= (BufferRows - 1) * Columns
    BY <1>1, <1>2, TimesMonotonic
  <1>5. /\ BufferRows * Columns \in Nat /\ Rows * Columns \in Nat
        /\ (BufferRows - 1) * Columns \in Nat
    BY <1>1
  <1> HIDE DEF q
  <1>6. k < BufferRows * Columns <=> q <= BufferRows - 1
    BY <1>1, <1>2, <1>4, <1>5, <1>3
  <1>7. k < Rows * Columns <=> q < Rows
    BY <1>1, <1>2, <1>4, <1>5, <1>3
  <1>8. (BufferRows - 1) * Columns <= k <=> BufferRows - 1 <= q
    BY <1>1, <1>2, <1>4, <1>5, <1>3
  <1>9. QED
    BY <1>2, <1>3, <1>6, <1>7, <1>8 DEF q, Size, Top

\* One cell on: into the next row, or not.
LEMMA NextCell ==
    ASSUME NEW k \in Nat
    PROVE  /\ (k + 1) % Columns = 0 =>
                (k + 1) \div Columns = k \div Columns + 1 /\ Columns <= k + 1
           /\ (k + 1) % Columns # 0 => (k + 1) \div Columns = k \div Columns
           /\ (k + 1) % Columns = 0 <=> Rest(k) = 1
  <1> DEFINE q == k \div Columns
             m == k % Columns
  <1>1. Columns \in Nat \ {0}
    BY Constants
  <1>2. q \in Nat /\ m \in Nat /\ m < Columns /\ k = q * Columns + m
        /\ q * Columns \in Nat /\ Rest(k) = Columns - m
    BY <1>1, DivMod DEF Rest
  <1> HIDE DEF q, m
  <1>3. CASE m = Columns - 1
    <2>1. MadeOf(k + 1, Columns, q + 1, 0)
      BY <1>1, <1>2, <1>3 DEF MadeOf
    <2>2. (k + 1) \div Columns = q + 1 /\ (k + 1) % Columns = 0
      BY <1>1, <1>2, <2>1, DivModUnique
    <2>3. QED
      BY <1>1, <1>2, <1>3, <2>2 DEF q
  <1>4. CASE m # Columns - 1
    <2>1. MadeOf(k + 1, Columns, q, m + 1)
      BY <1>1, <1>2, <1>4 DEF MadeOf
    <2>2. (k + 1) \div Columns = q /\ (k + 1) % Columns = m + 1
      BY <1>1, <1>2, <2>1, DivModUnique
    <2>3. m + 1 # 0 /\ Columns - m # 1
      BY <1>1, <1>2, <1>4
    <2>4. QED
      BY <1>2, <2>2, <2>3 DEF q
  <1>5. QED
    BY <1>3, <1>4

\* The start of the next row.
LEMMA NextRow ==
    ASSUME NEW k \in Nat
    PROVE  /\ Rest(k) \in 1 .. Columns /\ k + Rest(k) \in Nat
           /\ (k + Rest(k)) \div Columns = k \div Columns + 1
           /\ (k + Rest(k)) % Columns = 0
           /\ Columns <= k + Rest(k)
           /\ k + Rest(k) = (k \div Columns) * Columns + Columns
  <1> DEFINE q == k \div Columns
             m == k % Columns
  <1>1. Columns \in Nat \ {0}
    BY Constants
  <1>2. q \in Nat /\ m \in Nat /\ m < Columns /\ k = q * Columns + m
        /\ q * Columns \in Nat /\ Rest(k) = Columns - m
    BY <1>1, DivMod DEF Rest
  <1> HIDE DEF q, m
  <1>3. (q + 1) * Columns = q * Columns + Columns
    BY <1>1, <1>2
  <1>4. MadeOf(k + Rest(k), Columns, q + 1, 0)
    BY <1>1, <1>2, <1>3 DEF MadeOf
  <1>5. (k + Rest(k)) \div Columns = q + 1 /\ (k + Rest(k)) % Columns = 0
    BY <1>1, <1>2, <1>4, DivModUnique
  <1>6. QED
    BY <1>1, <1>2, <1>3, <1>5 DEF q

\* One row up.
LEMMA RowAbove ==
    ASSUME NEW k \in Nat, Columns <= k
    PROVE  /\ k - Columns \in Nat
           /\ (k - Columns) \div Columns = k \div Columns - 1
           /\ (k - Columns) % Columns = k % Columns
  <1> DEFINE q == k \div Columns
             m == k % Columns
  <1>1. Columns \in Nat \ {0}
    BY Constants
  <1>2. q \in Nat /\ m \in Nat /\ m < Columns /\ k = q * Columns + m
    BY <1>1, DivMod
  <1>3. Columns <= q * Columns + m
    BY <1>2
  <1> HIDE DEF q, m
  <1>4. q # 0
    BY <1>1, <1>2, <1>3
  <1>5. (q - 1) * Columns = q * Columns - Columns
    BY <1>1, <1>2
  <1>6. MadeOf(k - Columns, Columns, q - 1, m)
    BY <1>1, <1>2, <1>4, <1>5 DEF MadeOf
  <1>7. QED
    BY <1>1, <1>2, <1>3, <1>6, DivModUnique DEF q, m

LEMMA PageTypes ==
    ASSUME NEW p, p \in PageRec
    PROVE  /\ p.at \in Int /\ p.rows \in Nat /\ p.rows \in 0 .. BufferRows - 1
           /\ p.cells \in [Indices -> Cells] /\ DOMAIN p.cells = Indices
           /\ \A j \in Indices : p.cells[j] \in Cells
  BY Constants DEF PageRec

\* A new row has been begun that is not counted yet.
Ended(p) ==
    /\ p \in PageRec
    /\ p.at \in Nat /\ p.at <= Size /\ p.at % Columns = 0 /\ Columns <= p.at
    /\ p.at \div Columns - 1 <= p.rows

\* The cells in front of the cursor move with it, by one row if at all.
Moves(p, q, d) ==
    /\ q.at = p.at - d
    /\ \A j \in Indices : j < q.at => j + d \in Indices /\ q.cells[j] = p.cells[j + d]

\* As far as they move, they keep the rows that are counted, or the buffer is full.
Shifts(p, q) ==
    \/ Moves(p, q, 0) /\ p.rows <= q.rows
    \/ Moves(p, q, Columns) /\ q.rows = BufferRows - 1

LEMMA PageUpFacts ==
    ASSUME NEW p, Ended(p), p.rows = BufferRows - 1
    PROVE  /\ Sheet(PageUp(p)) /\ Moves(p, PageUp(p), Columns)
           /\ \A j \in Indices : Top <= j => PageUp(p).cells[j] = "blank"
           /\ \A j \in Indices : j < Top => PageUp(p).cells[j] = p.cells[j + Columns]
  <1> DEFINE q == PageUp(p)
  <1>1. /\ p \in PageRec /\ p.at \in Nat /\ p.at <= Size /\ Columns <= p.at
        /\ p.at \div Columns - 1 <= p.rows
    BY DEF Ended
  <1>2. /\ Size \in Nat /\ Top \in Nat /\ Size = Top + Columns /\ Columns \in Nat \ {0}
        /\ BufferRows \in Nat /\ "blank" \in Cells
    BY Constants, Sizes
  <1>3. \A j \in Indices : j < Top => j + Columns \in Indices
    BY <1>2 DEF Indices
  <1>4. /\ q.at = p.at - Columns /\ q.rows = p.rows
        /\ q.cells = [j \in Indices |-> IF j < Top THEN p.cells[j + Columns] ELSE "blank"]
    BY DEF PageUp
  <1>5. q.cells \in [Indices -> Cells]
    BY <1>1, <1>2, <1>3, <1>4, PageTypes
  <1>6. q.at \in Nat /\ q.at <= Top /\ q.at \div Columns = p.at \div Columns - 1
    <2>1. /\ p.at - Columns \in Nat
          /\ (p.at - Columns) \div Columns = p.at \div Columns - 1
      BY <1>1, RowAbove
    <2>2. p.at - Columns <= Top
      BY <1>1, <1>2
    <2>3. QED
      BY <1>4, <2>1, <2>2
  <1>7. q.at \in Indices
    BY <1>2, <1>6 DEF Indices
  <1>8. q \in PageRec
    BY <1>1, <1>4, <1>5, <1>6, PageTypes DEF PageRec, PageUp
  <1>9. Sheet(q)
    BY <1>1, <1>4, <1>6, <1>7, <1>8 DEF Sheet
  <1>10. \A j \in Indices : j \in Nat
    BY <1>2 DEF Indices
  <1>11. \A j \in Indices : Top <= j => q.cells[j] = "blank"
    BY <1>2, <1>4, <1>10
  <1>12. \A j \in Indices : j < Top => q.cells[j] = p.cells[j + Columns]
    BY <1>2, <1>4, <1>10
  <1>13. Moves(p, q, Columns)
    BY <1>2, <1>3, <1>4, <1>6, <1>10, <1>12 DEF Moves
  <1>14. QED
    BY <1>9, <1>11, <1>12, <1>13

LEMMA PageRowFacts ==
    ASSUME NEW p, Ended(p)
    PROVE  /\ Sheet(PageRow(p)) /\ Shifts(p, PageRow(p))
           /\ \/ Moves(p, PageRow(p), 0) /\ PageRow(p).cells = p.cells
              \/ Moves(p, PageRow(p), Columns)
  <1> DEFINE q == PageRow(p)
  <1>1. /\ p \in PageRec /\ p.at \in Nat /\ p.at <= Size
        /\ p.at \div Columns - 1 <= p.rows /\ p.at \div Columns \in Nat
    BY Constants, DivBounds DEF Ended
  <1>2. Size \in Nat /\ BufferRows \in Nat /\ Columns \in Nat \ {0} /\ BufferRows # 0
    BY Constants, Sizes
  <1>3. CASE p.rows = BufferRows - 1
    <2>1. q = PageUp(p) /\ q.rows = BufferRows - 1
      BY <1>3 DEF PageRow, PageUp
    <2>2. QED
      BY <1>3, <2>1, PageUpFacts DEF Shifts
  <1>4. CASE p.rows # BufferRows - 1
    <2>1. q = [cells |-> p.cells, at |-> p.at, rows |-> p.rows + 1]
      BY <1>4 DEF PageRow
    <2>2. p.rows \in 0 .. BufferRows - 1
      BY <1>1, PageTypes
    <2>3. q.rows \in 0 .. BufferRows - 1 /\ p.at \div Columns <= q.rows
      BY <1>1, <1>2, <1>4, <2>1, <2>2
    <2>4. p.at \div Columns <= BufferRows - 1
      BY <1>1, <1>2, <2>3
    <2>5. p.at < Size
      BY <1>1, <1>2, <2>4, RowOf
    <2>6. q \in PageRec
      BY <1>1, <2>1, <2>3, PageTypes DEF PageRec
    <2>7. Sheet(q)
      BY <1>1, <1>2, <2>1, <2>3, <2>5, <2>6 DEF Sheet, Indices
    <2>8. Moves(p, q, 0)
      <3>1. \A j \in Indices : j + 0 = j
        BY <1>2 DEF Indices
      <3>2. p.at - 0 = p.at
        BY <1>1
      <3>3. QED
        BY <2>1, <3>1, <3>2 DEF Moves
    <2>9. p.rows <= q.rows
      BY <1>2, <2>1, <2>2
    <2>10. QED
      BY <2>1, <2>7, <2>8, <2>9 DEF Shifts
  <1>5. QED
    BY <1>3, <1>4

\* Without deletions the buffer moves up only when its last row is full.
LEMMA StraightRow ==
    ASSUME NEW p, Ended(p), p.at \div Columns - 1 = p.rows,
           \A j \in Indices : p.at <= j => p.cells[j] = "blank"
    PROVE  /\ Straight(PageRow(p))
           /\ \/ PageRow(p).at = p.at /\ PageRow(p).cells = p.cells
              \/ PageRow(p).at = Top /\ p.at = Size /\ PageRow(p) = PageUp(p)
  <1> DEFINE q == PageRow(p)
  <1>1. /\ p \in PageRec /\ p.at \in Nat /\ p.at <= Size /\ Columns <= p.at
        /\ p.at \div Columns \in Nat
    BY Constants, DivBounds DEF Ended
  <1>2. /\ Size \in Nat /\ BufferRows \in Nat /\ Columns \in Nat \ {0} /\ BufferRows # 0
        /\ Top \in Nat /\ Size = Top + Columns
    BY Constants, Sizes
  <1>3. Sheet(q)
    BY PageRowFacts
  <1>4. CASE p.rows = BufferRows - 1
    <2>1. q = PageUp(p) /\ q.at = p.at - Columns /\ q.rows = p.rows
      BY <1>4 DEF PageRow, PageUp
    <2>2. p.at \div Columns = BufferRows
      BY <1>1, <1>2, <1>4
    <2>3. p.at = Size
      <3>1. ~ (p.at < Size)
        BY <1>1, <1>2, <2>2, RowOf
      <3>2. QED
        BY <1>1, <1>2, <3>1
    <2>4. q.at = Top
      BY <1>1, <1>2, <2>1, <2>3
    <2>5. \A j \in Indices : Top <= j => q.cells[j] = "blank"
      BY <1>4, <2>1, PageUpFacts
    <2>6. q.at \div Columns = q.rows
      <3>1. q.at \div Columns = p.at \div Columns - 1
        BY <1>1, <2>1, RowAbove
      <3>2. QED
        BY <2>1, <3>1
    <2>7. QED
      BY <1>3, <2>1, <2>3, <2>4, <2>5, <2>6 DEF Straight
  <1>5. CASE p.rows # BufferRows - 1
    <2>1. q = [cells |-> p.cells, at |-> p.at, rows |-> p.rows + 1]
      BY <1>5 DEF PageRow
    <2>2. q.at = p.at /\ q.cells = p.cells /\ q.rows = p.rows + 1
      BY <2>1
    <2>3. q.at \div Columns = q.rows
      BY <1>1, <2>2
    <2>4. QED
      BY <1>3, <2>2, <2>3 DEF Straight
  <1>6. QED
    BY <1>4, <1>5

\* A character goes to the cell of the cursor.
LEMMA FilledFacts ==
    ASSUME NEW p, Sheet(p), NEW c \in Cells
    PROVE  /\ Filled(p, c) \in PageRec /\ Filled(p, c).at = p.at + 1
           /\ p.at \in Nat /\ p.at < Size /\ p.at \in Indices
           /\ Filled(p, c).rows = p.rows
           /\ Filled(p, c).cells[p.at] = c
           /\ \A j \in Indices : j # p.at => Filled(p, c).cells[j] = p.cells[j]
           /\ (p.at + 1) % Columns = 0 => Ended(Filled(p, c))
           /\ (p.at + 1) % Columns # 0 => Sheet(Filled(p, c))
  <1> DEFINE q == Filled(p, c)
  <1>1. /\ p \in PageRec /\ p.at \in Indices /\ p.at \in Nat /\ p.at < Size
        /\ p.at \div Columns <= p.rows
    BY Sizes DEF Sheet, Indices
  <1>2. /\ Size \in Nat /\ BufferRows \in Nat /\ Columns \in Nat \ {0} /\ BufferRows # 0
    BY Constants, Sizes
  <1>3. /\ q.cells = [j \in Indices |-> IF j = p.at THEN c ELSE p.cells[j]]
        /\ q.at = p.at + 1 /\ q.rows = p.rows
    BY DEF Filled
  <1>4. q.cells \in [Indices -> Cells] /\ q.rows \in 0 .. BufferRows - 1
    BY <1>1, <1>3, PageTypes
  <1>5. q \in PageRec
    BY <1>1, <1>3, <1>4 DEF PageRec, Filled
  <1>6. /\ q.cells[p.at] = c
        /\ \A j \in Indices : j # p.at => q.cells[j] = p.cells[j]
    BY <1>1, <1>3
  <1>7. p.at \div Columns \in Nat
    BY <1>1, <1>2, DivBounds
  <1>8. CASE (p.at + 1) % Columns = 0
    <2>1. (p.at + 1) \div Columns = p.at \div Columns + 1 /\ Columns <= p.at + 1
      BY <1>1, <1>8, NextCell
    <2>2. p.at + 1 \in Nat /\ p.at + 1 <= Size
      BY <1>1, <1>2
    <2>3. p.rows \in Nat
      BY <1>1, PageTypes
    <2>4. Ended(q)
      BY <1>1, <1>3, <1>5, <1>7, <1>8, <2>1, <2>2, <2>3 DEF Ended
    <2>5. QED
      BY <1>1, <1>3, <1>5, <1>6, <1>8, <2>4
  <1>9. CASE (p.at + 1) % Columns # 0
    <2>1. (p.at + 1) \div Columns = p.at \div Columns
      BY <1>1, <1>9, NextCell
    <2>2. p.at \div Columns <= BufferRows - 1
      BY <1>1, <1>2, RowOf
    <2>3. p.at + 1 \in Nat /\ p.at + 1 < Size
      BY <1>1, <2>1, <2>2, RowOf
    <2>4. Sheet(q)
      BY <1>1, <1>2, <1>3, <1>5, <2>1, <2>3 DEF Sheet, Indices
    <2>5. QED
      BY <1>1, <1>3, <1>5, <1>6, <1>9, <2>4
  <1>10. QED
    BY <1>8, <1>9

LEMMA PutOnPage ==
    ASSUME NEW p, Sheet(p), NEW c \in Cells
    PROVE  Sheet(PagePut(p, c)) /\ Shifts(Filled(p, c), PagePut(p, c))
  <1>1. CASE (p.at + 1) % Columns = 0
    BY <1>1, FilledFacts, PageRowFacts DEF PagePut
  <1>2. CASE (p.at + 1) % Columns # 0
    <2>1. PagePut(p, c) = Filled(p, c) /\ Sheet(Filled(p, c))
      BY <1>2, FilledFacts DEF PagePut
    <2>2. Moves(Filled(p, c), Filled(p, c), 0)
      <3>1. \A j \in Indices : j + 0 = j
        BY Sizes DEF Indices
      <3>2. Filled(p, c).at - 0 = Filled(p, c).at
        BY FilledFacts, PageTypes
      <3>3. QED
        BY <3>1, <3>2 DEF Moves
    <2>3. Filled(p, c).rows <= Filled(p, c).rows
      BY FilledFacts, PageTypes
    <2>4. QED
      BY <2>1, <2>2, <2>3 DEF Shifts
  <1>3. QED
    BY <1>1, <1>2

LEMMA PutStraight ==
    ASSUME NEW p, Straight(p), NEW c \in Cells
    PROVE  /\ Straight(PagePut(p, c))
           /\ \/ PagePut(p, c).at = p.at + 1 /\ PagePut(p, c).cells = Filled(p, c).cells
              \/ /\ PagePut(p, c).at = Top /\ p.at + 1 = Size
                 /\ PagePut(p, c) = PageUp(Filled(p, c))
  <1> DEFINE q == Filled(p, c)
  <1>1. /\ Sheet(p) /\ p.at \div Columns = p.rows
        /\ \A j \in Indices : p.at <= j => p.cells[j] = "blank"
    BY DEF Straight
  <1>2. /\ q \in PageRec /\ q.at = p.at + 1 /\ p.at \in Nat /\ p.at < Size /\ q.rows = p.rows
        /\ \A j \in Indices : j # p.at => q.cells[j] = p.cells[j]
    BY <1>1, FilledFacts
  <1>3. \A j \in Indices : q.at <= j => q.cells[j] = "blank"
    <2>1. \A j \in Indices : j \in Nat
      BY Sizes DEF Indices
    <2>2. QED
      BY <1>1, <1>2, <2>1
  <1>4. p.rows \in Nat
    BY <1>1, PageTypes DEF Sheet
  <1>5. CASE (p.at + 1) % Columns = 0
    <2>1. Ended(q)
      BY <1>1, <1>5, FilledFacts
    <2>2. q.at \div Columns - 1 = q.rows
      BY <1>1, <1>2, <1>4, <1>5, NextCell
    <2>3. PagePut(p, c) = PageRow(q)
      BY <1>5 DEF PagePut
    <2> HIDE DEF q
    <2>4. QED
      BY <1>2, <1>3, <2>1, <2>2, <2>3, StraightRow DEF q
  <1>6. CASE (p.at + 1) % Columns # 0
    <2>1. PagePut(p, c) = q /\ Sheet(q)
      BY <1>1, <1>6, FilledFacts DEF PagePut
    <2>2. q.at \div Columns = q.rows
      BY <1>1, <1>2, <1>6, NextCell
    <2>3. QED
      BY <1>2, <1>3, <2>1, <2>2 DEF Straight
  <1>7. QED
    BY <1>5, <1>6

\* The row of the cursor is filled up with blanks.
LEMMA PaddedFacts ==
    ASSUME NEW p, Sheet(p)
    PROVE  /\ Ended(Padded(p)) /\ Padded(p).rows = p.rows
           /\ p.at \in Nat /\ p.at < Size
           /\ Padded(p).at = p.at + Rest(p.at)
           /\ Padded(p).at \div Columns = p.at \div Columns + 1
           /\ \A j \in Indices : j < p.at => Padded(p).cells[j] = p.cells[j]
           /\ \A j \in Indices : p.at <= j /\ j < Padded(p).at
                                   => Padded(p).cells[j] = "blank"
           /\ \A j \in Indices : Padded(p).at <= j => Padded(p).cells[j] = p.cells[j]
  <1> DEFINE q == Padded(p)
  <1>1. /\ p \in PageRec /\ p.at \in Indices /\ p.at \in Nat /\ p.at < Size
        /\ p.at \div Columns <= p.rows
    BY Sizes DEF Sheet, Indices
  <1>2. /\ Size \in Nat /\ BufferRows \in Nat /\ Columns \in Nat \ {0} /\ BufferRows # 0
        /\ Top \in Nat /\ Size = Top + Columns /\ "blank" \in Cells
    BY Constants, Sizes
  <1>3. /\ q.cells = [j \in Indices |-> IF p.at <= j /\ j < p.at + Rest(p.at)
                                        THEN "blank" ELSE p.cells[j]]
        /\ q.at = p.at + Rest(p.at) /\ q.rows = p.rows
    BY DEF Padded
  <1>4. /\ Rest(p.at) \in 1 .. Columns /\ p.at + Rest(p.at) \in Nat
        /\ (p.at + Rest(p.at)) \div Columns = p.at \div Columns + 1
        /\ (p.at + Rest(p.at)) % Columns = 0 /\ Columns <= p.at + Rest(p.at)
        /\ p.at + Rest(p.at) = (p.at \div Columns) * Columns + Columns
    BY <1>1, NextRow
  <1>5. q.cells \in [Indices -> Cells] /\ q.rows \in 0 .. BufferRows - 1
    BY <1>1, <1>2, <1>3, PageTypes
  <1>6. q \in PageRec
    BY <1>1, <1>3, <1>4, <1>5 DEF PageRec, Padded
  <1>7. p.at + Rest(p.at) <= Size
    <2>1. p.at \div Columns <= BufferRows - 1 /\ p.at \div Columns \in Nat
      BY <1>1, <1>2, RowOf
    <2>2. (p.at \div Columns) * Columns <= Top
      BY <1>2, <2>1, TimesMonotonic DEF Top
    <2>3. (p.at \div Columns) * Columns \in Nat
      BY <1>2, <2>1
    <2>4. QED
      BY <1>2, <1>4, <2>2, <2>3
  <1>8. p.at \div Columns \in Nat /\ p.rows \in Nat
    BY <1>1, <1>2, DivBounds, PageTypes
  <1>9. p.at \div Columns + 1 - 1 <= p.rows
    BY <1>1, <1>8
  <1>10. Ended(q)
    <2> DEFINE e == p.at + Rest(p.at)
    <2>0. /\ e \in Nat /\ e <= Size /\ e % Columns = 0 /\ Columns <= e
          /\ e \div Columns - 1 <= p.rows /\ q.at = e /\ q.rows = p.rows
      <3>1. e \div Columns - 1 <= p.rows
        <4>1. e \div Columns = p.at \div Columns + 1
          BY <1>4
        <4> DEFINE d == e \div Columns
                   f == p.at \div Columns
        <4>2. d = f + 1 /\ f + 1 - 1 <= p.rows /\ f \in Nat
          BY <1>8, <1>9, <4>1
        <4> HIDE DEF d, f
        <4>3. d - 1 <= p.rows
          BY <1>8, <4>2
        <4>4. QED
          BY <4>3 DEF d
      <3>2. QED
        BY <1>3, <1>4, <1>7, <3>1
    <2> HIDE DEF e, q
    <2>1. /\ q.at \in Nat /\ q.at <= Size /\ q.at % Columns = 0 /\ Columns <= q.at
          /\ q.at \div Columns - 1 <= q.rows
      BY <2>0
    <2>2. QED
      BY <1>6, <2>1 DEF Ended
  <1>11. \A j \in Indices : j \in Nat
    BY <1>2 DEF Indices
  <1>12. /\ \A j \in Indices : j < p.at => q.cells[j] = p.cells[j]
         /\ \A j \in Indices : p.at <= j /\ j < q.at => q.cells[j] = "blank"
         /\ \A j \in Indices : q.at <= j => q.cells[j] = p.cells[j]
    BY <1>1, <1>3, <1>4, <1>11
  <1>13. QED
    BY <1>1, <1>3, <1>4, <1>10, <1>12

LEMMA LineOnPage ==
    ASSUME NEW p, Sheet(p)
    PROVE  /\ Sheet(PageLine(p))
           /\ \/ Moves(Padded(p), PageLine(p), 0)
              \/ Moves(Padded(p), PageLine(p), Columns)
  BY PaddedFacts, PageRowFacts DEF PageLine

LEMMA LineStraight ==
    ASSUME NEW p, Straight(p)
    PROVE  /\ Straight(PageLine(p))
           /\ \/ PageLine(p).at = Padded(p).at /\ PageLine(p).cells = p.cells
              \/ /\ PageLine(p).at = Top /\ Padded(p).at = Size
                 /\ PageLine(p) = PageUp(Padded(p))
           /\ Padded(p).cells = p.cells
  <1> DEFINE q == Padded(p)
  <1>1. /\ Sheet(p) /\ p \in PageRec /\ p.at \div Columns = p.rows
        /\ \A j \in Indices : p.at <= j => p.cells[j] = "blank"
    BY DEF Straight, Sheet
  <1>2. /\ Ended(q) /\ q.rows = p.rows /\ p.at \in Nat
        /\ q.at \div Columns = p.at \div Columns + 1
        /\ \A j \in Indices : j < p.at => q.cells[j] = p.cells[j]
        /\ \A j \in Indices : p.at <= j /\ j < q.at => q.cells[j] = "blank"
        /\ \A j \in Indices : q.at <= j => q.cells[j] = p.cells[j]
    BY <1>1, PaddedFacts
  <1>3. q \in PageRec /\ q.at \in Nat /\ p.rows \in Nat
    BY <1>1, <1>2, PageTypes DEF Ended
  <1>4. \A j \in Indices : j \in Nat
    BY Sizes DEF Indices
  <1>5. \A j \in Indices : q.cells[j] = p.cells[j]
    BY <1>1, <1>2, <1>3, <1>4
  <1>6. q.cells = p.cells
    <2>1. p.cells \in [Indices -> Cells] /\ q.cells \in [Indices -> Cells]
      BY <1>1, <1>3, PageTypes
    <2>2. QED
      BY <1>5, <2>1
  <1>7. \A j \in Indices : q.at <= j => q.cells[j] = "blank"
    <2>1. p.at <= q.at
      <3>1. q.at = p.at + Rest(p.at)
        BY <1>1, PaddedFacts
      <3>2. Rest(p.at) \in 1 .. Columns /\ Columns \in Nat
        BY <1>2, NextRow, Constants
      <3>3. QED
        BY <1>2, <3>1, <3>2
    <2>2. QED
      BY <1>1, <1>2, <1>3, <1>4, <2>1
  <1>8. q.at \div Columns - 1 = q.rows
    BY <1>1, <1>2, <1>3
  <1> HIDE DEF q
  <1>9. /\ Straight(PageRow(q))
        /\ \/ PageRow(q).at = q.at /\ PageRow(q).cells = q.cells
           \/ PageRow(q).at = Top /\ q.at = Size /\ PageRow(q) = PageUp(q)
    BY <1>2, <1>7, <1>8, StraightRow
  <1>10. PageLine(p) = PageRow(q)
    BY DEF PageLine, q
  <1>11. QED
    BY <1>6, <1>9, <1>10 DEF q

\* What is deleted leaves a blank; the row counter stays.
LEMMA ErasedFacts ==
    ASSUME NEW p, Sheet(p), p.at # 0
    PROVE  /\ Sheet(PageErased(p)) /\ p.at \in Nat \ {0}
           /\ PageErased(p).at = p.at - 1 /\ PageErased(p).rows = p.rows
           /\ \A j \in Indices : j < p.at - 1 => PageErased(p).cells[j] = p.cells[j]
  <1> DEFINE q == PageErased(p)
  <1>1. /\ p \in PageRec /\ p.at \in Nat \ {0} /\ p.at < Size
        /\ p.at \div Columns <= p.rows
    BY Sizes DEF Sheet, Indices
  <1>2. /\ q.cells = [j \in Indices |-> IF j = p.at - 1 THEN "blank" ELSE p.cells[j]]
        /\ q.at = p.at - 1 /\ q.rows = p.rows
    BY DEF PageErased
  <1>3. Size \in Nat /\ Columns \in Nat \ {0} /\ "blank" \in Cells
    BY Constants, Sizes
  <1>4. q.cells \in [Indices -> Cells] /\ q.rows \in 0 .. BufferRows - 1
    BY <1>1, <1>2, <1>3, PageTypes
  <1>5. q \in PageRec
    BY <1>1, <1>2, <1>4 DEF PageRec, PageErased
  <1>6. p.at - 1 \in Nat /\ p.at - 1 \in Indices
    BY <1>1, <1>3 DEF Indices
  <1>7. (p.at - 1) \div Columns <= p.rows
    <2>1. (p.at - 1) \div Columns <= p.at \div Columns
      BY <1>1, <1>3, <1>6, DivMonotonic
    <2>2. (p.at - 1) \div Columns \in Nat /\ p.at \div Columns \in Nat /\ p.rows \in Nat
      BY <1>1, <1>3, <1>6, DivBounds, PageTypes
    <2>3. QED
      BY <1>1, <2>1, <2>2
  <1>8. Sheet(q)
    BY <1>2, <1>5, <1>6, <1>7 DEF Sheet
  <1>9. \A j \in Indices : j < p.at - 1 => q.cells[j] = p.cells[j]
    <2>1. \A j \in Indices : j \in Nat
      BY <1>3 DEF Indices
    <2>2. QED
      BY <1>1, <1>2, <2>1
  <1>10. QED
    BY <1>1, <1>2, <1>8, <1>9

LEMMA EmptyFacts == Straight(EmptyPage)
  <1>1. /\ Size \in Nat /\ Top \in Nat /\ Columns \in Nat \ {0} /\ Size = Top + Columns
        /\ "blank" \in Cells /\ BufferRows \in Nat /\ BufferRows # 0
    BY Constants, Sizes
  <1>2. 0 \in Indices
    BY <1>1 DEF Indices
  <1>3. EmptyPage \in PageRec
    BY <1>1 DEF EmptyPage, PageRec
  <1>4. 0 \div Columns = 0
    <2>1. 0 * Columns <= 0 /\ 0 < (0 + 1) * Columns
      BY <1>1
    <2>2. QED
      BY <1>1, <2>1, DivUnique
  <1>5. QED
    BY <1>1, <1>2, <1>3, <1>4 DEF Straight, Sheet, EmptyPage

----------------------------------------------------------------------------
(* The globals of screen.c *)

CellsOfAll == 0 .. ScreenCount * Size - 1
CellsShown == 0 .. Rows * Columns - 1

TTY == [stock : [CellsOfAll -> Cells], cursor_index : Int,
        stock_cursor_index : [Screens -> Nat], screen_index : Screens,
        extra_scroll : [Screens -> 0 .. Short - 1],
        total_row : [Screens -> 0 .. BufferRows - 1],
        caret : 0 .. Rows * Columns, screen_buffer : [CellsShown -> Cells]]

CursorIn(t, s) == IF s = t.screen_index THEN t.cursor_index ELSE t.stock_cursor_index[s]
Page(t, s) == [cells |-> [j \in Indices |-> t.stock[s * Size + j]],
               at |-> CursorIn(t, s), rows |-> t.total_row[s]]
FrontPage(t) == Page(t, t.screen_index)

\* A step from t to u that concerns the screen in front only and makes its
\* page p.
Turns(t, u, p) ==
    /\ u \in TTY
    /\ u.screen_index = t.screen_index /\ u.stock_cursor_index = t.stock_cursor_index
    /\ FrontPage(u) = p
    /\ \A s \in Screens \ {t.screen_index} : Page(u, s) = Page(t, s)

LEMMA TTYTypes ==
    ASSUME NEW t \in TTY
    PROVE  /\ t.stock \in [CellsOfAll -> Cells] /\ t.cursor_index \in Int
           /\ t.stock_cursor_index \in [Screens -> Nat] /\ t.screen_index \in Screens
           /\ t.extra_scroll \in [Screens -> 0 .. Short - 1]
           /\ t.total_row \in [Screens -> 0 .. BufferRows - 1]
           /\ t.caret \in 0 .. Rows * Columns
           /\ t.screen_buffer \in [CellsShown -> Cells]
           /\ Total(t) \in 0 .. BufferRows - 1 /\ Total(t) \in Nat
           /\ Extra(t) \in 0 .. Short - 1 /\ Extra(t) \in Nat
  <1>1. /\ t.stock \in [CellsOfAll -> Cells] /\ t.cursor_index \in Int
        /\ t.stock_cursor_index \in [Screens -> Nat] /\ t.screen_index \in Screens
        /\ t.extra_scroll \in [Screens -> 0 .. Short - 1]
        /\ t.total_row \in [Screens -> 0 .. BufferRows - 1]
        /\ t.caret \in 0 .. Rows * Columns
        /\ t.screen_buffer \in [CellsShown -> Cells]
    BY DEF TTY
  <1>2. Total(t) \in 0 .. BufferRows - 1 /\ Total(t) \in Nat
    <2>1. Total(t) \in 0 .. BufferRows - 1
      BY <1>1 DEF Total
    <2>2. QED
      BY <2>1, Constants
  <1>3. Extra(t) \in 0 .. Short - 1 /\ Extra(t) \in Nat
    <2>1. Extra(t) \in 0 .. Short - 1
      BY <1>1 DEF Extra
    <2>2. QED
      BY <2>1, Constants
  <1>4. QED
    BY <1>1, <1>2, <1>3

\* The cells of different screens are different cells.
LEMMA CellOfScreen ==
    ASSUME NEW s \in Screens, NEW j \in Indices
    PROVE  /\ s \in Nat /\ j \in Nat /\ j < Size
           /\ s * Size \in Nat /\ s * Size + j \in CellsOfAll
           /\ s * Size + j \in Int
  <1>1. /\ Size \in Nat /\ ScreenCount \in Nat \ {0} /\ s \in Nat /\ s <= ScreenCount - 1
        /\ j \in Nat /\ j < Size
    BY Constants, Sizes DEF Indices
  <1>2. s * Size <= (ScreenCount - 1) * Size
    BY <1>1, TimesMonotonic
  <1>3. /\ (ScreenCount - 1) * Size = ScreenCount * Size - Size
        /\ s * Size \in Nat /\ ScreenCount * Size \in Int
    BY <1>1
  <1>4. QED
    BY <1>1, <1>2, <1>3 DEF CellsOfAll

LEMMA ScreensApart ==
    ASSUME NEW s \in Screens, NEW j \in Indices, NEW q \in Screens, NEW k \in Int,
           0 <= k, k < Size, s * Size + j = q * Size + k
    PROVE  s = q /\ j = k
  <1>1. /\ Size \in Nat /\ s \in Nat /\ q \in Nat /\ j \in Nat /\ j < Size
        /\ s * Size \in Nat /\ q * Size \in Nat
    BY Sizes, Constants, CellOfScreen
  <1>2. /\ s + 1 <= q => (s + 1) * Size <= q * Size
        /\ q + 1 <= s => (q + 1) * Size <= s * Size
    BY <1>1, TimesMonotonic
  <1>3. /\ (s + 1) * Size = s * Size + Size
        /\ (q + 1) * Size = q * Size + Size
    BY <1>1
  <1>4. ~ (s + 1 <= q) /\ ~ (q + 1 <= s)
    BY <1>1, <1>2, <1>3
  <1>5. s = q
    BY <1>1, <1>4
  <1>6. QED
    BY <1>1, <1>5

LEMMA SetCellsFacts ==
    ASSUME NEW t \in TTY, NEW lo \in Nat, NEW n \in Nat, lo + n <= Size,
           NEW f \in [0 .. n - 1 -> Cells]
    PROVE  /\ SetCells(t, lo, f) \in TTY
           /\ SetCells(t, lo, f) = [t EXCEPT !.stock = SetCells(t, lo, f).stock]
           /\ \A s \in Screens : \A j \in Indices :
                SetCells(t, lo, f).stock[s * Size + j] =
                  IF s = t.screen_index /\ lo <= j /\ j < lo + n THEN f[j - lo]
                  ELSE t.stock[s * Size + j]
  <1> DEFINE u == SetCells(t, lo, f)
             q == t.screen_index
             new == [i \in CellsOfAll |->
                       IF i - (q * Size + lo) \in 0 .. n - 1
                       THEN f[i - (q * Size + lo)] ELSE t.stock[i]]
  <1>1. q \in Screens /\ t.stock \in [CellsOfAll -> Cells] /\ DOMAIN t.stock = CellsOfAll
    BY TTYTypes
  <1>2. DOMAIN f = 0 .. n - 1
    OBVIOUS
  <1>3. u = [t EXCEPT !.stock = new]
    BY <1>1, <1>2 DEF SetCells, At
  <1>4. new \in [CellsOfAll -> Cells]
    BY <1>1
  <1>7. \A i \in CellsOfAll : new[i] = IF i - (q * Size + lo) \in 0 .. n - 1
                                    THEN f[i - (q * Size + lo)] ELSE t.stock[i]
    OBVIOUS
  <1> HIDE DEF new
  <1>5. u \in TTY /\ u.stock = new
    BY <1>3, <1>4 DEF TTY
  <1>6. ASSUME NEW s \in Screens, NEW j \in Indices
        PROVE  new[s * Size + j] =
                  IF s = q /\ lo <= j /\ j < lo + n THEN f[j - lo]
                  ELSE t.stock[s * Size + j]
    <2>1. s * Size + j \in CellsOfAll /\ j \in Nat /\ s * Size \in Nat
      BY CellOfScreen
    <2>2. Size \in Nat /\ q * Size \in Nat
      <3>1. Size \in Nat /\ q \in Nat
        BY <1>1, Sizes, Constants
      <3>2. QED
        BY <3>1
    <2>3. CASE s = q
      <3>1. (s * Size + j) - (q * Size + lo) = j - lo
        BY <2>1, <2>2, <2>3
      <3>2. new[s * Size + j] = IF j - lo \in 0 .. n - 1 THEN f[j - lo]
                                ELSE t.stock[s * Size + j]
        <4>1. PICK i \in CellsOfAll : i = s * Size + j
          BY <2>1
        <4>2. i - (q * Size + lo) = j - lo
          BY <3>1, <4>1, Zenon
        <4>3. new[i] = IF i - (q * Size + lo) \in 0 .. n - 1
                       THEN f[i - (q * Size + lo)] ELSE t.stock[i]
          BY <1>7
        <4>4. QED
          BY <4>1, <4>2, <4>3
      <3>3. j - lo \in 0 .. n - 1 <=> lo <= j /\ j < lo + n
        BY <2>1
      <3>4. QED
        BY <2>3, <3>2, <3>3
    <2>4. CASE s # q
      <3>1. ~ ((s * Size + j) - (q * Size + lo) \in 0 .. n - 1)
        <4> SUFFICES ASSUME (s * Size + j) - (q * Size + lo) \in 0 .. n - 1 PROVE FALSE
          OBVIOUS
        <4>1. PICK k \in Nat : k < n /\ (s * Size + j) - (q * Size + lo) = k
          OBVIOUS
        <4>2. /\ lo + k \in Int /\ 0 <= lo + k /\ lo + k < Size
              /\ s * Size + j = q * Size + (lo + k)
          BY <2>1, <2>2, <4>1
        <4>3. s = q
          BY <1>1, <4>2, ScreensApart
        <4>4. QED
          BY <2>4, <4>3
      <3>2. new[s * Size + j] = t.stock[s * Size + j]
        <4>1. PICK i \in CellsOfAll : i = s * Size + j
          BY <2>1
        <4>2. ~ (i - (q * Size + lo) \in 0 .. n - 1)
          BY <3>1, <4>1, Zenon
        <4>3. QED
          BY <1>7, <4>1, <4>2
      <3>3. QED
        BY <2>4, <3>2
    <2>5. QED
      BY <2>3, <2>4
  <1>8. QED
    BY <1>3, <1>5, <1>6

LEMMA BlanksFacts ==
    ASSUME NEW t \in TTY, NEW lo \in Nat, NEW n \in Nat, lo + n <= Size
    PROVE  /\ Blanks(t, lo, n) \in TTY
           /\ Blanks(t, lo, n) = [t EXCEPT !.stock = Blanks(t, lo, n).stock]
           /\ \A s \in Screens : \A j \in Indices :
                Blanks(t, lo, n).stock[s * Size + j] =
                  IF s = t.screen_index /\ lo <= j /\ j < lo + n THEN "blank"
                  ELSE t.stock[s * Size + j]
  <1> DEFINE f == [k \in 0 .. n - 1 |-> "blank"]
  <1>1. f \in [0 .. n - 1 -> Cells]
    BY Constants
  <1>2. Blanks(t, lo, n) = SetCells(t, lo, f)
    BY DEF Blanks
  <1>3. ASSUME NEW j \in Indices, lo <= j, j < lo + n PROVE f[j - lo] = "blank"
    <2>1. j \in Nat
      BY Sizes DEF Indices
    <2>2. j - lo \in 0 .. n - 1
      BY <1>3, <2>1
    <2>3. QED
      BY <2>2
  <1> HIDE DEF f
  <1>4. QED
    BY <1>1, <1>2, <1>3, SetCellsFacts

LEMMA PageFields ==
    ASSUME NEW t \in TTY, NEW s \in Screens
    PROVE  /\ Page(t, s).at = CursorIn(t, s) /\ Page(t, s).rows = t.total_row[s]
           /\ \A j \in Indices : Page(t, s).cells[j] = t.stock[s * Size + j]
           /\ CursorIn(t, s) \in Int /\ Page(t, s) \in PageRec
           /\ FrontPage(t).at = t.cursor_index /\ FrontPage(t).rows = Total(t)
  <1>1. /\ t.stock \in [CellsOfAll -> Cells] /\ t.cursor_index \in Int
        /\ t.stock_cursor_index \in [Screens -> Nat] /\ t.screen_index \in Screens
        /\ t.total_row \in [Screens -> 0 .. BufferRows - 1]
    BY TTYTypes
  <1>2. CursorIn(t, s) \in Int
    BY <1>1 DEF CursorIn
  <1>3. \A j \in Indices : t.stock[s * Size + j] \in Cells
    BY <1>1, CellOfScreen
  <1>4. Page(t, s) \in PageRec
    BY <1>1, <1>2, <1>3 DEF Page, PageRec
  <1>5. QED
    BY <1>2, <1>4 DEF Page, FrontPage, CursorIn, Total

\* Two pages with the same cells, cursor and counter are the same.
LEMMA PageEqual ==
    ASSUME NEW p \in PageRec, NEW q \in PageRec, p.at = q.at, p.rows = q.rows,
           \A j \in Indices : p.cells[j] = q.cells[j]
    PROVE  p = q
  <1>1. /\ p.cells \in [Indices -> Cells] /\ q.cells \in [Indices -> Cells]
        /\ p = [cells |-> p.cells, at |-> p.at, rows |-> p.rows]
        /\ q = [cells |-> q.cells, at |-> q.at, rows |-> q.rows]
    BY DEF PageRec
  <1>2. p.cells = q.cells
    BY <1>1
  <1>3. QED
    BY <1>1, <1>2

\* The rows that are shown are rows of the buffer.
LEMMA FirstShownFacts ==
    ASSUME NEW t \in TTY
    PROVE  /\ FirstShown(t) \in Nat /\ FirstShown(t) + Rows <= BufferRows
           /\ Total(t) < Rows => FirstShown(t) = 0
           /\ Total(t) >= Rows /\ Extra(t) = 0 => FirstShown(t) = Total(t) - Rows + 1
  <1>1. /\ Total(t) \in Nat /\ Total(t) <= BufferRows - 1 /\ Extra(t) \in Nat
        /\ Rows \in Nat \ {0} /\ BufferRows \in Nat /\ BufferRows > Rows
    BY TTYTypes, Constants
  <1>2. CASE Total(t) < Rows
    <2>1. FirstShown(t) = 0
      BY <1>1, <1>2 DEF FirstShown
    <2>2. QED
      BY <1>1, <1>2, <2>1
  <1>3. CASE Total(t) >= Rows /\ Extra(t) > Total(t) - Rows + 1
    <2>1. FirstShown(t) = 0
      BY <1>1, <1>3 DEF FirstShown
    <2>2. QED
      BY <1>1, <1>3, <2>1
  <1>4. CASE Total(t) >= Rows /\ ~ (Extra(t) > Total(t) - Rows + 1)
    <2>1. FirstShown(t) = Total(t) - Rows + 1 - Extra(t)
      BY <1>1, <1>4 DEF FirstShown
    <2>2. QED
      BY <1>1, <1>4, <2>1
  <1>5. QED
    BY <1>1, <1>2, <1>3, <1>4

LEMMA ViewFacts ==
    ASSUME NEW t \in TTY
    PROVE  /\ View(t) \in [CellsShown -> Cells]
           /\ FirstShown(t) * Columns \in Nat
           /\ \A i \in CellsShown :
                /\ FirstShown(t) * Columns + i \in Indices
                /\ View(t)[i] = FrontPage(t).cells[FirstShown(t) * Columns + i]
  <1> DEFINE first == FirstShown(t)
  <1>1. /\ first \in Nat /\ first + Rows <= BufferRows /\ Rows \in Nat \ {0}
        /\ BufferRows \in Nat /\ Columns \in Nat \ {0} /\ t.screen_index \in Screens
        /\ t.screen_index \in Nat
    BY FirstShownFacts, Constants, TTYTypes
  <1> HIDE DEF first
  <1>2. /\ (first + Rows) * Columns <= BufferRows * Columns
        /\ (first + Rows) * Columns = first * Columns + Rows * Columns
        /\ first * Columns \in Nat /\ Rows * Columns \in Nat
        /\ BufferRows * Columns \in Nat
    BY <1>1, TimesMonotonic
  <1>3. ASSUME NEW i \in CellsShown
        PROVE  first * Columns + i \in Indices
    BY <1>2 DEF CellsShown, Indices, Size
  <1>4. View(t) = [i \in CellsShown |->
                     t.stock[t.screen_index * Size + (first * Columns + i)]]
    BY DEF View, CellsShown, Cell, At, first
  <1>5. ASSUME NEW i \in CellsShown
        PROVE  /\ View(t)[i] = FrontPage(t).cells[first * Columns + i]
               /\ View(t)[i] \in Cells
    <2>1. View(t)[i] = t.stock[t.screen_index * Size + (first * Columns + i)]
      BY <1>4
    <2>2. FrontPage(t).cells[first * Columns + i]
            = t.stock[t.screen_index * Size + (first * Columns + i)]
      BY <1>1, <1>3, PageFields DEF FrontPage
    <2>3. FrontPage(t) \in PageRec
      BY <1>1, PageFields DEF FrontPage
    <2>4. QED
      BY <1>3, <2>1, <2>2, <2>3, PageTypes
  <1>6. View(t) \in [CellsShown -> Cells]
    BY <1>4, <1>5
  <1>7. QED
    BY <1>2, <1>3, <1>5, <1>6 DEF first

Shown(t) == t.screen_buffer = View(t)

\* What is shown depends on the page in front and how far it is scrolled.
LEMMA ViewSame ==
    ASSUME NEW t \in TTY, NEW u \in TTY, FrontPage(u) = FrontPage(t), Extra(u) = Extra(t)
    PROVE  View(u) = View(t) /\ FirstShown(u) = FirstShown(t)
  <1>1. Total(u) = Total(t)
    <2>1. t.screen_index \in Screens /\ u.screen_index \in Screens
      BY TTYTypes
    <2>2. FrontPage(u).rows = Total(u) /\ FrontPage(t).rows = Total(t)
      BY <2>1, PageFields
    <2>3. QED
      BY <2>2
  <1>2. FirstShown(u) = FirstShown(t)
    BY <1>1 DEF FirstShown
  <1>3. \A i \in CellsShown : View(u)[i] = View(t)[i]
    BY <1>2, ViewFacts
  <1>4. View(u) \in [CellsShown -> Cells] /\ View(t) \in [CellsShown -> Cells]
    BY ViewFacts
  <1>5. QED
    BY <1>2, <1>3, <1>4

\* The caret goes behind the last character that is shown.
LEMMA LastCharFacts ==
    ASSUME NEW view \in [CellsShown -> Cells]
    PROVE  /\ last_char_index(view) \in CellsShown
           /\ last_char_index(view) # 0 => view[last_char_index(view)] # "blank"
           /\ \A i \in CellsShown : view[i] # "blank" => i <= last_char_index(view)
  <1> DEFINE S == {0} \cup {i \in DOMAIN view : view[i] # "blank"}
  <1>1. DOMAIN view = CellsShown /\ Rows * Columns \in Nat /\ 0 \in CellsShown
    BY Sizes, Constants DEF CellsShown
  <1>2. S \in SUBSET Nat /\ S # {} /\ \A i \in S : i <= Rows * Columns
    BY <1>1 DEF CellsShown
  <1>3. Max(S) \in S /\ \A i \in S : i <= Max(S)
    BY <1>1, <1>2, MaxOfNats
  <1>4. last_char_index(view) = Max(S)
    BY DEF last_char_index, Max
  <1>5. QED
    BY <1>1, <1>3, <1>4

LEMMA DisplayFacts ==
    ASSUME NEW t \in TTY
    PROVE  /\ Display(t) \in TTY /\ Shown(Display(t))
           /\ Display(t) = [t EXCEPT !.screen_buffer = View(t),
                                     !.caret = Display(t).caret]
           /\ Display(t).caret = last_char_index(View(t)) + 1
           /\ View(Display(t)) = View(t)
           /\ Turns(t, Display(t), FrontPage(t))
           /\ Display(t).extra_scroll = t.extra_scroll
  <1> DEFINE u == Display(t)
             l == last_char_index(View(t))
  <1>1. View(t) \in [CellsShown -> Cells] /\ l \in CellsShown /\ Rows * Columns \in Nat
    BY ViewFacts, LastCharFacts, Sizes
  <1>2. u = [t EXCEPT !.screen_buffer = View(t), !.caret = l + 1]
    BY DEF Display
  <1>3. l + 1 \in 0 .. Rows * Columns
    BY <1>1 DEF CellsShown
  <1> HIDE DEF l
  <1>4. /\ u \in TTY /\ u.screen_buffer = View(t) /\ u.caret = l + 1
        /\ u.stock = t.stock /\ u.cursor_index = t.cursor_index
        /\ u.stock_cursor_index = t.stock_cursor_index /\ u.screen_index = t.screen_index
        /\ u.extra_scroll = t.extra_scroll /\ u.total_row = t.total_row
    BY <1>1, <1>2, <1>3 DEF TTY
  <1> HIDE DEF u
  <1>5. \A s \in Screens : Page(u, s) = Page(t, s)
    BY <1>4 DEF Page, CursorIn
  <1>6. Turns(t, u, FrontPage(t))
    BY <1>4, <1>5, TTYTypes DEF Turns, FrontPage
  <1>7. Extra(u) = Extra(t) /\ FrontPage(u) = FrontPage(t)
    BY <1>4, <1>6 DEF Extra, Turns
  <1>8. View(u) = View(t)
    BY <1>4, <1>7, ViewSame
  <1>9. QED
    BY <1>2, <1>4, <1>6, <1>8 DEF Shown, u, l

LEMMA TurnsTwice ==
    ASSUME NEW t, NEW u, NEW w, NEW p, NEW q, Turns(t, u, p), Turns(u, w, q)
    PROVE  Turns(t, w, q)
  BY DEF Turns

\* The fields that a step about rows and cells leaves alone.
Undrawn(t, u) ==
    /\ u.screen_buffer = t.screen_buffer /\ u.caret = t.caret
    /\ u.extra_scroll = t.extra_scroll

LEMMA ShiftUpFacts ==
    ASSUME NEW t \in TTY
    PROVE  Turns(t, ShiftUp(t), PageUp(FrontPage(t))) /\ Undrawn(t, ShiftUp(t))
  <1> DEFINE q == t.screen_index
             p == FrontPage(t)
             f == [k \in 0 .. Size - Columns - 1 |-> Cell(t, k + Columns)]
             up == SetCells(t, 0, f)
             bare == Blanks(up, Size - Columns, Columns)
             u == ShiftUp(t)
  <1>1. /\ Size \in Nat /\ Columns \in Nat \ {0} /\ Top \in Nat /\ Size = Top + Columns
        /\ Size - Columns = Top /\ q \in Screens
    BY Sizes, Constants, TTYTypes
  <1>2. /\ p \in PageRec /\ p.at = t.cursor_index /\ p.rows = Total(t)
        /\ \A j \in Indices : p.cells[j] = t.stock[q * Size + j]
        /\ t.cursor_index \in Int
    BY <1>1, PageFields, TTYTypes DEF FrontPage
  <1>3. ASSUME NEW k \in 0 .. Top - 1
        PROVE  /\ k + Columns \in Indices /\ f[k] = p.cells[k + Columns]
               /\ f[k] \in Cells
    <2>1. k + Columns \in Indices
      BY <1>1 DEF Indices
    <2>2. f[k] = Cell(t, k + Columns)
      BY <1>1
    <2>3. f[k] = p.cells[k + Columns]
      BY <1>2, <2>1, <2>2 DEF Cell, At
    <2>4. QED
      BY <1>2, <2>1, <2>3, PageTypes
  <1>4. f \in [0 .. Top - 1 -> Cells]
    BY <1>1, <1>3
  <1> HIDE DEF f
  <1>5. /\ up \in TTY /\ up = [t EXCEPT !.stock = up.stock]
        /\ \A s \in Screens : \A j \in Indices :
             up.stock[s * Size + j] = IF s = q /\ 0 <= j /\ j < 0 + Top THEN f[j - 0]
                                      ELSE t.stock[s * Size + j]
    <2>1. 0 \in Nat /\ 0 + Top <= Size
      BY <1>1
    <2>2. t \in TTY /\ Top \in Nat
      BY <1>1
    <2>3. ASSUME NEW lo \in Nat, lo + Top <= Size
          PROVE  /\ SetCells(t, lo, f) \in TTY
                 /\ SetCells(t, lo, f) = [t EXCEPT !.stock = SetCells(t, lo, f).stock]
                 /\ \A s \in Screens : \A j \in Indices :
                      SetCells(t, lo, f).stock[s * Size + j] =
                        IF s = q /\ lo <= j /\ j < lo + Top THEN f[j - lo]
                        ELSE t.stock[s * Size + j]
      BY <1>4, <2>2, <2>3, SetCellsFacts
    <2>4. QED
      BY <2>1, <2>3, Zenon
  <1>6. up.screen_index = q
    <2>1. DOMAIN t = DOMAIN up
      BY <1>5 DEF TTY
    <2>2. QED
      BY <1>5, <2>1 DEF TTY
  <1> HIDE DEF up
  <1>7. /\ bare \in TTY /\ bare = [up EXCEPT !.stock = bare.stock]
        /\ \A s \in Screens : \A j \in Indices :
             bare.stock[s * Size + j] =
               IF s = q /\ Top <= j /\ j < Top + Columns THEN "blank"
               ELSE up.stock[s * Size + j]
    BY <1>1, <1>5, <1>6, BlanksFacts
  <1>8. u = [bare EXCEPT !.cursor_index = @ - Columns]
    BY DEF ShiftUp, up, bare, f
  <1> HIDE DEF bare
  <1>9. /\ bare.cursor_index = t.cursor_index /\ bare.screen_index = q
        /\ bare.stock_cursor_index = t.stock_cursor_index
        /\ bare.total_row = t.total_row /\ Undrawn(t, bare)
    <2>1. /\ up.cursor_index = t.cursor_index /\ up.screen_index = q
          /\ up.stock_cursor_index = t.stock_cursor_index
          /\ up.total_row = t.total_row /\ Undrawn(t, up)
      BY <1>5 DEF TTY, Undrawn
    <2>2. QED
      BY <1>5, <1>7, <2>1 DEF TTY, Undrawn
  <1>10. /\ u \in TTY /\ u.cursor_index = t.cursor_index - Columns /\ u.stock = bare.stock
         /\ u.screen_index = q /\ u.stock_cursor_index = t.stock_cursor_index
         /\ u.total_row = t.total_row /\ Undrawn(t, u)
    BY <1>1, <1>2, <1>7, <1>8, <1>9 DEF TTY, Undrawn
  <1> HIDE DEF u
  <1>11. ASSUME NEW s \in Screens, NEW j \in Indices
         PROVE  u.stock[s * Size + j] =
                  IF s = q THEN PageUp(p).cells[j] ELSE t.stock[s * Size + j]
    <2>1. j \in Nat /\ j < Top + Columns
      BY <1>1 DEF Indices
    <2>2. CASE s = q /\ Top <= j
      <3>1. PageUp(p).cells[j] = "blank"
        BY <1>1, <2>1, <2>2 DEF PageUp
      <3>2. QED
        BY <1>7, <1>10, <2>1, <2>2, <3>1
    <2>3. CASE s = q /\ ~ (Top <= j)
      <3>1. j < Top /\ j \in 0 .. Top - 1
        BY <1>1, <2>1, <2>3
      <3>2. PageUp(p).cells[j] = p.cells[j + Columns]
        BY <3>1 DEF PageUp
      <3>3. u.stock[s * Size + j] = f[j - 0] /\ j - 0 = j
        BY <1>1, <1>5, <1>7, <1>10, <2>1, <2>3, <3>1
      <3>4. QED
        BY <1>3, <2>3, <3>1, <3>2, <3>3
    <2>4. CASE s # q
      BY <1>5, <1>7, <1>10, <2>4
    <2>5. QED
      BY <2>2, <2>3, <2>4
  <1>12. \A s \in Screens \ {q} : Page(u, s) = Page(t, s)
    <2> SUFFICES ASSUME NEW s \in Screens, s # q PROVE Page(u, s) = Page(t, s)
      OBVIOUS
    <2>1. \A j \in Indices : u.stock[s * Size + j] = t.stock[s * Size + j]
      BY <1>11
    <2>2. QED
      BY <1>10, <2>1 DEF Page, CursorIn
  <1>13. FrontPage(u) = PageUp(p)
    <2>1. /\ PageUp(p).at = p.at - Columns /\ PageUp(p).rows = p.rows
          /\ DOMAIN PageUp(p).cells = Indices
          /\ PageUp(p) = [cells |-> PageUp(p).cells, at |-> PageUp(p).at,
                          rows |-> PageUp(p).rows]
      BY DEF PageUp
    <2>2. /\ FrontPage(u).at = p.at - Columns /\ FrontPage(u).rows = p.rows
          /\ \A j \in Indices : FrontPage(u).cells[j] = PageUp(p).cells[j]
          /\ FrontPage(u) \in PageRec
      BY <1>1, <1>2, <1>10, <1>11, PageFields DEF FrontPage, Total
    <2>3. PageUp(p) \in PageRec
      <3>1. \A j \in Indices : PageUp(p).cells[j] \in Cells
        BY <2>2, PageTypes
      <3>2. PageUp(p).cells \in [Indices -> Cells]
        BY <3>1 DEF PageUp
      <3>3. p.at - Columns \in Int /\ p.rows \in 0 .. BufferRows - 1
        BY <1>1, <1>2, PageTypes
      <3>4. QED
        BY <2>1, <3>2, <3>3 DEF PageRec
    <2>4. QED
      BY <2>1, <2>2, <2>3, PageEqual
  <1>14. QED
    BY <1>10, <1>12, <1>13 DEF Turns, u

LEMMA NewRowFacts ==
    ASSUME NEW t \in TTY
    PROVE  Turns(t, NewRow(t), PageRow(FrontPage(t))) /\ Undrawn(t, NewRow(t))
  <1> DEFINE q == t.screen_index
             p == FrontPage(t)
             u == NewRow(t)
  <1>1. /\ q \in Screens /\ p.rows = Total(t) /\ p.at = t.cursor_index
        /\ Total(t) \in 0 .. BufferRows - 1 /\ BufferRows \in Nat
        /\ t.total_row \in [Screens -> 0 .. BufferRows - 1]
    BY TTYTypes, PageFields, Constants
  <1>2. CASE Total(t) = BufferRows - 1
    BY <1>1, <1>2, ShiftUpFacts DEF NewRow, PageRow
  <1>3. CASE Total(t) # BufferRows - 1
    <2>1. u = [t EXCEPT !.total_row[q] = @ + 1]
      BY <1>3 DEF NewRow
    <2>2. [t.total_row EXCEPT ![q] = @ + 1] \in [Screens -> 0 .. BufferRows - 1]
      BY <1>1, <1>3 DEF Total
    <2>3. /\ u \in TTY /\ u.total_row = [t.total_row EXCEPT ![q] = @ + 1]
          /\ u.stock = t.stock /\ u.cursor_index = t.cursor_index
          /\ u.screen_index = q /\ u.stock_cursor_index = t.stock_cursor_index
          /\ Undrawn(t, u)
      BY <2>1, <2>2 DEF TTY, Undrawn
    <2> HIDE DEF u
    <2>4. \A s \in Screens \ {q} : Page(u, s) = Page(t, s)
      BY <1>1, <2>3 DEF Page, CursorIn
    <2>5. FrontPage(u) = [cells |-> p.cells, at |-> p.at, rows |-> p.rows + 1]
      BY <1>1, <2>3 DEF FrontPage, Page, CursorIn
    <2>6. FrontPage(u) = PageRow(p)
      BY <1>1, <1>3, <2>5 DEF PageRow
    <2>7. QED
      BY <2>3, <2>4, <2>6 DEF Turns, u
  <1>4. QED
    BY <1>2, <1>3

\* All screens are in order, and what is shown is the window of the one in
\* front.
Good(t) ==
    /\ t \in TTY
    /\ \A s \in Screens : Sheet(Page(t, s))
    /\ Shown(t)

LEMMA GoodFront ==
    ASSUME NEW t, Good(t)
    PROVE  /\ t \in TTY /\ t.screen_index \in Screens /\ Shown(t)
           /\ Sheet(FrontPage(t)) /\ FrontPage(t).at = t.cursor_index
           /\ FrontPage(t).rows = Total(t)
           /\ t.cursor_index \in Indices /\ t.cursor_index \in Nat
           /\ t.cursor_index < Size /\ t.cursor_index \div Columns <= Total(t)
  <1>1. t \in TTY /\ t.screen_index \in Screens /\ Shown(t)
    BY TTYTypes DEF Good
  <1>2. Sheet(FrontPage(t))
    BY <1>1 DEF Good, FrontPage
  <1>3. FrontPage(t).at = t.cursor_index /\ FrontPage(t).rows = Total(t)
    BY <1>1, PageFields
  <1>4. QED
    BY <1>1, <1>2, <1>3, Sizes DEF Sheet, Indices

LEMMA TurnsGood ==
    ASSUME NEW t, Good(t), NEW u, NEW p, Turns(t, u, p), Sheet(p), Shown(u)
    PROVE  Good(u)
  <1>1. ASSUME NEW s \in Screens PROVE Sheet(Page(u, s))
    <2>1. CASE s = t.screen_index
      BY <2>1 DEF Turns, FrontPage
    <2>2. CASE s # t.screen_index
      BY <2>2 DEF Turns, Good
    <2>3. QED
      BY <2>1, <2>2
  <1>2. QED
    BY <1>1 DEF Good, Turns

LEMMA WrittenFacts ==
    ASSUME NEW t \in TTY, Sheet(FrontPage(t)), NEW c \in Cells
    PROVE  /\ Turns(t, Written(t, c), Filled(FrontPage(t), c))
           /\ Written(t, c).extra_scroll = t.extra_scroll
           /\ Written(t, c).cursor_index = t.cursor_index + 1
           /\ \A i \in CellsShown : Written(t, c).screen_buffer[i] =
                IF i = t.cursor_index THEN c ELSE t.screen_buffer[i]
  <1> DEFINE q == t.screen_index
             p == FrontPage(t)
             k == t.cursor_index
             new == [t.stock EXCEPT ![q * Size + k] = c]
             shown == IF k < Rows * Columns THEN [t.screen_buffer EXCEPT ![k] = c]
                      ELSE t.screen_buffer
             u == Written(t, c)
  <1>1. /\ q \in Screens /\ p.rows = Total(t) /\ p.at = k /\ p \in PageRec
        /\ t.stock \in [CellsOfAll -> Cells]
        /\ t.screen_buffer \in [CellsShown -> Cells]
        /\ \A j \in Indices : p.cells[j] = t.stock[q * Size + j]
    BY TTYTypes, PageFields DEF FrontPage
  <1>2. k \in Indices /\ k \in Nat /\ k < Size /\ Rows * Columns \in Nat
    BY <1>1, Sizes DEF Sheet, Indices
  <1>3. u = [t EXCEPT !.stock = new, !.cursor_index = k + 1, !.screen_buffer = shown]
    <2>1. CASE k < Rows * Columns
      BY <2>1 DEF Written, At, TTY
    <2>2. CASE ~ (k < Rows * Columns)
      BY <2>2 DEF Written, At, TTY
    <2>3. QED
      BY <2>1, <2>2
  <1>4. new \in [CellsOfAll -> Cells] /\ shown \in [CellsShown -> Cells]
    BY <1>1
  <1>5. \A i \in CellsShown : shown[i] = IF i = k THEN c ELSE t.screen_buffer[i]
    BY <1>1, <1>2 DEF CellsShown
  <1>6. ASSUME NEW s \in Screens, NEW j \in Indices
        PROVE  new[s * Size + j] = IF s = q /\ j = k THEN c ELSE t.stock[s * Size + j]
    <2>1. s * Size + j \in CellsOfAll /\ q * Size + k \in CellsOfAll
      BY <1>1, <1>2, CellOfScreen
    <2>2. s * Size + j = q * Size + k <=> s = q /\ j = k
      <3>1. s * Size + j = q * Size + k => s = q /\ j = k
        BY <1>1, <1>2, ScreensApart
      <3>2. QED
        BY <3>1
    <2>3. QED
      BY <1>1, <2>1, <2>2
  <1> HIDE DEF new, shown, u
  <1>7. /\ u \in TTY /\ u.stock = new /\ u.cursor_index = k + 1
        /\ u.screen_buffer = shown /\ u.caret = t.caret
        /\ u.stock_cursor_index = t.stock_cursor_index /\ u.screen_index = q
        /\ u.extra_scroll = t.extra_scroll /\ u.total_row = t.total_row
    <2>1. k + 1 \in Int
      BY <1>2
    <2>2. u \in TTY
      BY <1>3, <1>4, <2>1 DEF TTY
    <2>3. QED
      BY <1>3, <2>2 DEF TTY
  <1>8. ASSUME NEW s \in Screens, s # q PROVE Page(u, s) = Page(t, s)
    <2>1. \A j \in Indices : u.stock[s * Size + j] = t.stock[s * Size + j]
      BY <1>6, <1>7, <1>8
    <2>2. QED
      BY <1>7, <1>8, <2>1 DEF Page, CursorIn
  <1>9. FrontPage(u) = Filled(p, c)
    <2>1. /\ FrontPage(u).at = k + 1 /\ FrontPage(u).rows = Total(t)
          /\ FrontPage(u) \in PageRec
          /\ \A j \in Indices : FrontPage(u).cells[j] = new[q * Size + j]
      BY <1>1, <1>7, PageFields DEF FrontPage, Total
    <2>2. /\ Filled(p, c).at = p.at + 1 /\ Filled(p, c).rows = p.rows
          /\ Filled(p, c) \in PageRec
      BY FilledFacts
    <2>3. \A j \in Indices : Filled(p, c).cells[j] = IF j = p.at THEN c ELSE p.cells[j]
      BY DEF Filled
    <2>4. \A j \in Indices : FrontPage(u).cells[j] = Filled(p, c).cells[j]
      BY <1>1, <1>6, <2>1, <2>3
    <2>5. QED
      BY <1>1, <2>1, <2>2, <2>4, PageEqual
  <1>10. Turns(t, u, Filled(p, c))
    BY <1>7, <1>8, <1>9 DEF Turns
  <1>11. QED
    BY <1>5, <1>7, <1>10 DEF u

\* While the screen is not full the video memory must be right already.
LEMMA RefreshFacts ==
    ASSUME NEW t \in TTY,
           Total(t) < Rows => t.cursor_index \in 0 .. Rows * Columns /\ Shown(t)
    PROVE  /\ Turns(t, Refresh(t), FrontPage(t)) /\ Shown(Refresh(t))
           /\ Refresh(t).extra_scroll = t.extra_scroll
           /\ Total(t) < Rows => Refresh(t).caret = t.cursor_index
           /\ Total(t) >= Rows => Refresh(t) = Display(t)
  <1>1. Total(t) \in Nat /\ Rows \in Nat
    BY TTYTypes, Constants
  <1>2. CASE Total(t) >= Rows
    <2>1. Refresh(t) = Display(t)
      BY <1>2 DEF Refresh
    <2>2. /\ Turns(t, Display(t), FrontPage(t)) /\ Shown(Display(t))
          /\ Display(t).extra_scroll = t.extra_scroll
      BY DisplayFacts
    <2>3. ~ (Total(t) < Rows)
      BY <1>1, <1>2
    <2>4. QED
      BY <2>1, <2>2, <2>3
  <1>3. CASE Total(t) < Rows
    <2> DEFINE u == Refresh(t)
    <2>1. u = [t EXCEPT !.caret = t.cursor_index]
      BY <1>1, <1>3 DEF Refresh
    <2>2. /\ u \in TTY /\ u.stock = t.stock /\ u.cursor_index = t.cursor_index
          /\ u.stock_cursor_index = t.stock_cursor_index
          /\ u.screen_index = t.screen_index /\ u.extra_scroll = t.extra_scroll
          /\ u.total_row = t.total_row /\ u.screen_buffer = t.screen_buffer
          /\ u.caret = t.cursor_index
      BY <1>3, <2>1 DEF TTY
    <2> HIDE DEF u
    <2>3. \A s \in Screens : Page(u, s) = Page(t, s)
      BY <2>2 DEF Page, CursorIn
    <2>4. Turns(t, u, FrontPage(t)) /\ Extra(u) = Extra(t)
      BY <2>2, <2>3, TTYTypes DEF Turns, FrontPage, Extra
    <2>5. View(u) = View(t)
      BY <2>2, <2>4, ViewSame DEF Turns
    <2>6. QED
      BY <1>1, <1>3, <2>2, <2>4, <2>5 DEF Shown, u
  <1>4. QED
    BY <1>1, <1>2, <1>3

\* Below its first Rows rows a screen is shown from its first cell on.
LEMMA SmallView ==
    ASSUME NEW t \in TTY, Total(t) < Rows
    PROVE  \A i \in CellsShown : i \in Indices /\ View(t)[i] = FrontPage(t).cells[i]
  <1> SUFFICES ASSUME NEW i \in CellsShown
               PROVE  i \in Indices /\ View(t)[i] = FrontPage(t).cells[i]
    OBVIOUS
  <1>1. FirstShown(t) = 0
    BY FirstShownFacts
  <1>2. FirstShown(t) * Columns + i = i
    <2>1. i \in Int /\ Columns \in Nat
      BY Constants DEF CellsShown
    <2>2. QED
      BY <1>1, <2>1
  <1>3. FirstShown(t) * Columns + i \in Indices
        /\ View(t)[i] = FrontPage(t).cells[FirstShown(t) * Columns + i]
    BY ViewFacts
  <1>4. QED
    BY <1>2, <1>3

Live(t) == [t EXCEPT !.extra_scroll[t.screen_index] = 0]

LEMMA LiveFacts ==
    ASSUME NEW t \in TTY
    PROVE  /\ Turns(t, Live(t), FrontPage(t)) /\ Extra(Live(t)) = 0
           /\ Live(t).screen_buffer = t.screen_buffer
           /\ Live(t).cursor_index = t.cursor_index
  <1> DEFINE u == Live(t)
             new == [t.extra_scroll EXCEPT ![t.screen_index] = 0]
  <1>1. t.screen_index \in Screens /\ t.extra_scroll \in [Screens -> 0 .. Short - 1]
        /\ 0 \in 0 .. Short - 1
    BY TTYTypes, Constants
  <1>2. new \in [Screens -> 0 .. Short - 1] /\ new[t.screen_index] = 0
    BY <1>1
  <1>3. u = [t EXCEPT !.extra_scroll = new]
    BY DEF Live, TTY
  <1> HIDE DEF new, u
  <1>4. /\ u \in TTY /\ u.extra_scroll = new
        /\ u.stock = t.stock /\ u.cursor_index = t.cursor_index
        /\ u.stock_cursor_index = t.stock_cursor_index /\ u.screen_index = t.screen_index
        /\ u.total_row = t.total_row /\ u.screen_buffer = t.screen_buffer
    BY <1>2, <1>3 DEF TTY
  <1>5. \A s \in Screens : Page(u, s) = Page(t, s)
    BY <1>4 DEF Page, CursorIn
  <1>6. QED
    BY <1>1, <1>2, <1>4, <1>5 DEF Turns, FrontPage, Extra, u

\* What a character does to a page whose last row is not counted yet.
LEMMA PutBeforeEnd ==
    ASSUME NEW p, Sheet(p), NEW c \in Cells, PagePut(p, c).rows < BufferRows - 1
    PROVE  /\ PagePut(p, c).cells = Filled(p, c).cells /\ PagePut(p, c).at = p.at + 1
           /\ PagePut(p, c).rows \in {p.rows, p.rows + 1}
  <1>1. /\ Filled(p, c).rows = p.rows /\ Filled(p, c).at = p.at + 1
        /\ p.rows \in Nat
    BY FilledFacts, PageTypes DEF Sheet
  <1>2. CASE (p.at + 1) % Columns = 0
    <2>1. PagePut(p, c) = PageRow(Filled(p, c))
      BY <1>2 DEF PagePut
    <2>2. CASE p.rows = BufferRows - 1
      <3>1. PagePut(p, c).rows = p.rows
        BY <1>1, <2>1, <2>2 DEF PageRow, PageUp
      <3>2. QED
        BY <1>1, <2>2, <3>1
    <2>3. CASE p.rows # BufferRows - 1
      BY <1>1, <2>1, <2>3 DEF PageRow
    <2>4. QED
      BY <2>2, <2>3
  <1>3. CASE (p.at + 1) % Columns # 0
    BY <1>1, <1>3 DEF PagePut
  <1>4. QED
    BY <1>2, <1>3

\* The caret is at the cursor or behind the last character shown.
CaretFollows(t) ==
    IF Total(t) < Rows THEN t.caret = t.cursor_index
    ELSE t.caret = last_char_index(View(t)) + 1

LEMMA RefreshSets ==
    ASSUME NEW t \in TTY,
           Total(t) < Rows => t.cursor_index \in 0 .. Rows * Columns /\ Shown(t)
    PROVE  CaretFollows(Refresh(t))
  <1> DEFINE u == Refresh(t)
  <1>1. /\ Turns(t, u, FrontPage(t)) /\ u.extra_scroll = t.extra_scroll
        /\ Total(t) < Rows => u.caret = t.cursor_index
        /\ Total(t) >= Rows => u = Display(t)
        /\ t.screen_index \in Screens /\ Total(t) \in Nat /\ Rows \in Nat
    BY RefreshFacts, TTYTypes, Constants
  <1> HIDE DEF u
  <1>2. u \in TTY /\ u.screen_index = t.screen_index /\ FrontPage(u) = FrontPage(t)
    BY <1>1 DEF Turns
  <1>3. Total(u) = Total(t) /\ u.cursor_index = t.cursor_index
    BY <1>1, <1>2, PageFields
  <1>4. CASE Total(t) < Rows
    BY <1>1, <1>3, <1>4 DEF CaretFollows, u
  <1>5. CASE ~ (Total(t) < Rows)
    <2>1. u = Display(t)
      BY <1>1, <1>5
    <2>2. /\ Display(t).caret = last_char_index(View(t)) + 1
          /\ View(Display(t)) = View(t)
      BY DisplayFacts
    <2>3. u.caret = last_char_index(View(u)) + 1
      BY <2>1, <2>2
    <2>4. QED
      BY <1>3, <1>5, <2>3 DEF CaretFollows, u
  <1>6. QED
    BY <1>4, <1>5

LEMMA PrintCharFacts ==
    ASSUME NEW t, Good(t), NEW c \in Cells
    PROVE  /\ Turns(t, PrintChar(t, c), PagePut(FrontPage(t), c))
           /\ Good(PrintChar(t, c)) /\ Extra(PrintChar(t, c)) = 0
           /\ CaretFollows(PrintChar(t, c))
  <1> DEFINE p == FrontPage(t)
             live == Live(t)
             out == Written(live, c)
             w == IF out.cursor_index % Columns = 0 THEN NewRow(out) ELSE out
             new == PagePut(p, c)
             u == PrintChar(t, c)
  <1>1. /\ t \in TTY /\ t.screen_index \in Screens /\ Shown(t) /\ Sheet(p)
        /\ p.at = t.cursor_index /\ p.rows = Total(t) /\ t.cursor_index \in Nat
    BY GoodFront
  <1>2. u = Refresh(w)
    BY DEF PrintChar, Live
  <1>3. /\ Turns(t, live, p) /\ Extra(live) = 0 /\ live \in TTY /\ FrontPage(live) = p
        /\ live.screen_buffer = t.screen_buffer
        /\ live.cursor_index = t.cursor_index
    BY <1>1, LiveFacts DEF Turns
  <1> HIDE DEF live
  <1>4. /\ Turns(live, out, Filled(p, c)) /\ out.extra_scroll = live.extra_scroll
        /\ out.cursor_index = t.cursor_index + 1
        /\ \A i \in CellsShown : out.screen_buffer[i] =
             IF i = t.cursor_index THEN c ELSE t.screen_buffer[i]
    BY <1>1, <1>3, WrittenFacts
  <1>5. out \in TTY /\ FrontPage(out) = Filled(p, c)
    BY <1>4 DEF Turns
  <1> HIDE DEF out
  <1>6. Turns(out, w, new) /\ Undrawn(out, w)
    <2>1. CASE out.cursor_index % Columns = 0
      <3>1. new = PageRow(Filled(p, c)) /\ w = NewRow(out)
        BY <1>1, <1>4, <2>1 DEF PagePut
      <3>2. QED
        BY <1>5, <3>1, NewRowFacts
    <2>2. CASE out.cursor_index % Columns # 0
      <3>1. new = Filled(p, c) /\ w = out
        BY <1>1, <1>4, <2>2 DEF PagePut
      <3>2. QED
        BY <1>5, <3>1 DEF Turns, Undrawn
    <2>3. QED
      BY <2>1, <2>2
  <1>7. Turns(t, w, new) /\ w \in TTY /\ FrontPage(w) = new /\ Sheet(new)
    <2>1. Turns(t, out, Filled(p, c))
      BY <1>3, <1>4, TurnsTwice
    <2>2. Turns(t, w, new)
      BY <1>6, <2>1, TurnsTwice
    <2>3. Sheet(new)
      BY <1>1, PutOnPage
    <2>4. QED
      BY <2>2, <2>3 DEF Turns
  <1>8. Extra(w) = 0
    BY <1>3, <1>4, <1>6 DEF Extra, Turns, Undrawn
  <1> HIDE DEF w, new
  <1>9. w.cursor_index = new.at /\ Total(w) = new.rows /\ w.screen_index \in Screens
    BY <1>7, PageFields, TTYTypes
  <1>10. ASSUME Total(w) < Rows
         PROVE  w.cursor_index \in 0 .. Rows * Columns /\ Shown(w)
    <2>1. new.rows < Rows /\ new.rows < BufferRows - 1 /\ Rows \in Nat
      <3>1. new.rows < Rows /\ Rows <= BufferRows - 1 /\ Rows \in Nat /\ BufferRows \in Nat
        BY <1>9, <1>10, Constants
      <3>2. new.rows \in Nat
        BY <1>7, PageTypes DEF Sheet
      <3>3. QED
        BY <3>1, <3>2
    <2>2. /\ new.cells = Filled(p, c).cells /\ new.at = p.at + 1
          /\ new.rows \in {p.rows, p.rows + 1}
      BY <1>1, <2>1, PutBeforeEnd DEF new
    <2>3. Total(t) < Rows
      <3>1. Total(t) \in Nat
        BY <1>1, TTYTypes
      <3>2. QED
        BY <1>1, <2>1, <2>2, <3>1
    <2>4. new.at \in Nat /\ new.at \div Columns <= new.rows /\ new.rows \in Nat
      BY <1>7, PageTypes, Sizes DEF Sheet, Indices
    <2>5. new.at \div Columns < Rows
      <3>1. new.at \div Columns \in Nat
        BY <2>4, Constants, DivBounds
      <3>2. QED
        BY <2>1, <2>4, <3>1
    <2>6. new.at < Rows * Columns /\ Rows * Columns \in Nat
      BY <2>4, <2>5, RowOf, Sizes
    <2>7. ASSUME NEW i \in CellsShown
          PROVE  w.screen_buffer[i] = View(w)[i]
      <3>1. i \in Indices /\ View(w)[i] = new.cells[i] /\ View(t)[i] = p.cells[i]
        BY <1>1, <1>7, <1>10, <2>3, SmallView
      <3>2. w.screen_buffer[i] = IF i = t.cursor_index THEN c ELSE View(t)[i]
        BY <1>1, <1>4, <1>6 DEF Undrawn, Shown
      <3>3. Filled(p, c).cells[i] = IF i = p.at THEN c ELSE p.cells[i]
        BY <3>1 DEF Filled
      <3>4. QED
        BY <1>1, <2>2, <3>1, <3>2, <3>3
    <2>8. View(w) \in [CellsShown -> Cells] /\ w.screen_buffer \in [CellsShown -> Cells]
      BY <1>7, ViewFacts, TTYTypes
    <2>9. Shown(w)
      BY <2>7, <2>8 DEF Shown
    <2>10. QED
      BY <1>9, <2>4, <2>6, <2>9
  <1>11. /\ Turns(w, u, FrontPage(w)) /\ Shown(u) /\ u.extra_scroll = w.extra_scroll
         /\ CaretFollows(u)
    BY <1>2, <1>7, <1>10, RefreshFacts, RefreshSets
  <1> HIDE DEF u
  <1>12. Turns(t, u, new)
    BY <1>7, <1>11, TurnsTwice
  <1>13. Good(u)
    BY <1>7, <1>11, <1>12, TurnsGood
  <1>14. Extra(u) = 0
    BY <1>8, <1>11 DEF Extra, Turns
  <1>15. QED
    BY <1>11, <1>12, <1>13, <1>14 DEF u, new

LEMMA NewLineFacts ==
    ASSUME NEW t, Good(t)
    PROVE  /\ Turns(t, PrintNewLine(t), PageLine(FrontPage(t)))
           /\ Good(PrintNewLine(t)) /\ Extra(PrintNewLine(t)) = Extra(t)
           /\ Shown(PrintNewLine(t))
  <1> DEFINE p == FrontPage(t)
             k == t.cursor_index
             q == t.screen_index
             bare == Blanks(t, k, Padding(t))
             padded == [bare EXCEPT !.cursor_index = @ + Padding(t)]
             w == NewRow(padded)
             u == PrintNewLine(t)
  <1>1. /\ t \in TTY /\ q \in Screens /\ Shown(t) /\ Sheet(p)
        /\ p.at = k /\ p.rows = Total(t) /\ k \in Nat
    BY GoodFront
  <1>2. u = Display(w)
    BY DEF PrintNewLine
  <1>3. Padding(t) = Rest(k)
    BY DEF Padding, Rest
  <1>4. /\ Rest(k) \in Nat /\ k + Rest(k) <= Size /\ k + Rest(k) \in Nat
        /\ Ended(Padded(p)) /\ Padded(p) \in PageRec
        /\ Padded(p).at = k + Rest(k) /\ Padded(p).rows = p.rows
    <2>1. /\ Ended(Padded(p)) /\ Padded(p).at = k + Rest(k) /\ Padded(p).rows = p.rows
      BY <1>1, PaddedFacts
    <2>2. Rest(k) \in 1 .. Columns /\ Columns \in Nat
      BY <1>1, NextRow, Constants
    <2>3. QED
      BY <1>1, <2>1, <2>2 DEF Ended
  <1>5. /\ bare \in TTY /\ bare = [t EXCEPT !.stock = bare.stock]
        /\ \A s \in Screens : \A j \in Indices :
             bare.stock[s * Size + j] =
               IF s = q /\ k <= j /\ j < k + Rest(k) THEN "blank"
               ELSE t.stock[s * Size + j]
    BY <1>1, <1>3, <1>4, BlanksFacts
  <1> HIDE DEF bare
  <1>6. /\ bare.cursor_index = k /\ bare.screen_index = q
        /\ bare.stock_cursor_index = t.stock_cursor_index
        /\ bare.total_row = t.total_row /\ bare.extra_scroll = t.extra_scroll
    BY <1>5 DEF TTY
  <1>7. /\ padded \in TTY /\ padded.stock = bare.stock
        /\ padded.cursor_index = k + Rest(k) /\ padded.screen_index = q
        /\ padded.stock_cursor_index = t.stock_cursor_index
        /\ padded.total_row = t.total_row /\ padded.extra_scroll = t.extra_scroll
    BY <1>3, <1>4, <1>5, <1>6 DEF TTY
  <1> HIDE DEF padded
  <1>8. ASSUME NEW s \in Screens, s # q PROVE Page(padded, s) = Page(t, s)
    <2>1. \A j \in Indices : padded.stock[s * Size + j] = t.stock[s * Size + j]
      BY <1>5, <1>7, <1>8
    <2>2. QED
      BY <1>7, <1>8, <2>1 DEF Page, CursorIn
  <1>9. FrontPage(padded) = Padded(p)
    <2>1. /\ FrontPage(padded).at = k + Rest(k) /\ FrontPage(padded).rows = Total(t)
          /\ FrontPage(padded) \in PageRec
          /\ \A j \in Indices : FrontPage(padded).cells[j] = padded.stock[q * Size + j]
      BY <1>1, <1>7, PageFields DEF FrontPage, Total
    <2>2. \A j \in Indices : Padded(p).cells[j] =
            IF k <= j /\ j < k + Rest(k) THEN "blank" ELSE p.cells[j]
      BY <1>1 DEF Padded
    <2>3. \A j \in Indices : p.cells[j] = t.stock[q * Size + j]
      BY <1>1, PageFields DEF FrontPage
    <2>4. \A j \in Indices : FrontPage(padded).cells[j] = Padded(p).cells[j]
      BY <1>1, <1>5, <1>7, <2>1, <2>2, <2>3
    <2>5. QED
      BY <1>1, <1>4, <2>1, <2>4, PageEqual
  <1>10. Turns(t, padded, Padded(p)) /\ Extra(padded) = Extra(t)
    BY <1>7, <1>8, <1>9 DEF Turns, Extra
  <1>11. /\ Turns(padded, w, PageLine(p)) /\ Undrawn(padded, w)
    BY <1>7, <1>9, NewRowFacts DEF PageLine
  <1> HIDE DEF w
  <1>12. Turns(t, w, PageLine(p)) /\ Extra(w) = Extra(t) /\ w \in TTY
         /\ FrontPage(w) = PageLine(p)
    <2>1. Turns(t, w, PageLine(p))
      BY <1>10, <1>11, TurnsTwice
    <2>2. QED
      BY <1>10, <1>11, <2>1 DEF Turns, Undrawn, Extra
  <1>13. /\ Turns(w, u, PageLine(p)) /\ Shown(u) /\ u.extra_scroll = w.extra_scroll
    BY <1>2, <1>12, DisplayFacts
  <1> HIDE DEF u
  <1>14. Turns(t, u, PageLine(p)) /\ Sheet(PageLine(p))
    BY <1>1, <1>12, <1>13, TurnsTwice, LineOnPage
  <1>15. Good(u)
    BY <1>13, <1>14, TurnsGood
  <1>16. Extra(u) = Extra(t)
    BY <1>12, <1>13 DEF Extra, Turns
  <1>17. QED
    BY <1>13, <1>14, <1>15, <1>16 DEF u

\* What redraws the screen in front keeps everything in order.
LEMMA DisplayGood ==
    ASSUME NEW t \in TTY, \A s \in Screens : Sheet(Page(t, s))
    PROVE  /\ Good(Display(t)) /\ \A s \in Screens : Page(Display(t), s) = Page(t, s)
           /\ Extra(Display(t)) = Extra(t)
  <1> DEFINE u == Display(t)
  <1>1. Turns(t, u, FrontPage(t)) /\ Shown(u) /\ u.extra_scroll = t.extra_scroll
        /\ t.screen_index \in Screens
    BY DisplayFacts, TTYTypes
  <1> HIDE DEF u
  <1>2. \A s \in Screens : Page(u, s) = Page(t, s)
    <2>1. \A s \in Screens \ {t.screen_index} : Page(u, s) = Page(t, s)
      BY <1>1 DEF Turns
    <2>2. Page(u, t.screen_index) = Page(t, t.screen_index)
      BY <1>1 DEF Turns, FrontPage
    <2>3. QED
      BY <2>1, <2>2
  <1>3. QED
    BY <1>1, <1>2 DEF Good, Turns, Extra, u

LEMMA ClearFacts ==
    ASSUME NEW t, Good(t)
    PROVE  /\ Turns(t, ClearScreen(t), EmptyPage)
           /\ Good(ClearScreen(t)) /\ Extra(ClearScreen(t)) = 0
  <1> DEFINE q == t.screen_index
             bare == Blanks(t, 0, Size)
             rows == [t.total_row EXCEPT ![q] = 0]
             extra == [t.extra_scroll EXCEPT ![q] = 0]
             dark == [i \in CellsShown |-> "blank"]
             u == ClearScreen(t)
  <1>1. /\ t \in TTY /\ q \in Screens /\ Size \in Nat /\ Rows * Columns \in Nat
        /\ t.total_row \in [Screens -> 0 .. BufferRows - 1]
        /\ t.extra_scroll \in [Screens -> 0 .. Short - 1]
        /\ t.screen_buffer \in [CellsShown -> Cells] /\ "blank" \in Cells
        /\ 0 \in 0 .. Short - 1 /\ 0 \in 0 .. BufferRows - 1
    <2>1. t \in TTY /\ q \in Screens
      BY GoodFront
    <2>2. /\ t.total_row \in [Screens -> 0 .. BufferRows - 1]
          /\ t.extra_scroll \in [Screens -> 0 .. Short - 1]
          /\ t.screen_buffer \in [CellsShown -> Cells]
      BY <2>1, TTYTypes
    <2>3. Size \in Nat /\ Rows * Columns \in Nat /\ "blank" \in Cells
      BY Sizes, Constants
    <2>4. 0 \in 0 .. Short - 1 /\ 0 \in 0 .. BufferRows - 1
      BY Constants
    <2>5. QED
      BY <2>1, <2>2, <2>3, <2>4
  <1>2. /\ bare \in TTY /\ bare = [t EXCEPT !.stock = bare.stock]
        /\ \A s \in Screens : \A j \in Indices :
             bare.stock[s * Size + j] =
               IF s = q /\ 0 <= j /\ j < 0 + Size THEN "blank"
               ELSE t.stock[s * Size + j]
    <2>1. ASSUME NEW lo \in Nat, lo + Size <= Size
          PROVE  /\ Blanks(t, lo, Size) \in TTY
                 /\ Blanks(t, lo, Size) = [t EXCEPT !.stock = Blanks(t, lo, Size).stock]
                 /\ \A s \in Screens : \A j \in Indices :
                      Blanks(t, lo, Size).stock[s * Size + j] =
                        IF s = q /\ lo <= j /\ j < lo + Size THEN "blank"
                        ELSE t.stock[s * Size + j]
      BY <1>1, <2>1, BlanksFacts
    <2>2. 0 \in Nat /\ 0 + Size <= Size
      BY <1>1
    <2>3. QED
      BY <2>1, <2>2, Zenon
  <1> HIDE DEF bare
  <1>3. /\ bare.cursor_index = t.cursor_index /\ bare.screen_index = q
        /\ bare.stock_cursor_index = t.stock_cursor_index
        /\ bare.total_row = t.total_row /\ bare.extra_scroll = t.extra_scroll
        /\ bare.screen_buffer = t.screen_buffer
    BY <1>2 DEF TTY
  <1>4. u = [bare EXCEPT !.cursor_index = 0, !.total_row = rows, !.extra_scroll = extra,
                         !.caret = 0,
                         !.screen_buffer = dark]
    <2>1. DOMAIN bare.screen_buffer = CellsShown
      BY <1>1, <1>3
    <2>2. QED
      BY <1>2, <1>3, <2>1 DEF ClearScreen, bare, TTY
  <1>5. /\ rows \in [Screens -> 0 .. BufferRows - 1]
        /\ extra \in [Screens -> 0 .. Short - 1]
        /\ rows[q] = 0 /\ extra[q] = 0
        /\ \A s \in Screens : s # q => rows[s] = t.total_row[s]
        /\ dark \in [CellsShown -> Cells]
        /\ \A i \in CellsShown : dark[i] = "blank"
    BY <1>1
  <1> HIDE DEF u, rows, extra, dark
  <1>6. /\ u \in TTY /\ u.stock = bare.stock /\ u.cursor_index = 0
        /\ u.screen_index = q /\ u.stock_cursor_index = t.stock_cursor_index
        /\ u.total_row = rows /\ u.extra_scroll = extra
        /\ u.screen_buffer = dark
    <2>1. 0 \in 0 .. Rows * Columns /\ bare \in TTY /\ 0 \in Int
      BY <1>1, <1>2
    <2>2. /\ rows \in [Screens -> 0 .. BufferRows - 1]
          /\ extra \in [Screens -> 0 .. Short - 1] /\ dark \in [CellsShown -> Cells]
      BY <1>5
    <2>3. u \in TTY
      BY <1>4, <2>1, <2>2 DEF TTY
    <2>4. QED
      BY <1>3, <1>4, <2>1, <2>3 DEF TTY
  <1>7. ASSUME NEW s \in Screens, s # q PROVE Page(u, s) = Page(t, s)
    <2>1. \A j \in Indices : u.stock[s * Size + j] = t.stock[s * Size + j]
      BY <1>2, <1>6, <1>7
    <2>2. QED
      BY <1>5, <1>6, <1>7, <2>1 DEF Page, CursorIn
  <1>8. FrontPage(u) = EmptyPage
    <2>1. \A j \in Indices : u.stock[q * Size + j] = "blank"
      <3>1. \A j \in Indices : 0 <= j /\ j < 0 + Size
        BY <1>1 DEF Indices
      <3>2. QED
        BY <1>1, <1>2, <1>6, <3>1
    <2>2. QED
      BY <1>5, <1>6, <2>1 DEF FrontPage, Page, CursorIn, EmptyPage
  <1>9. Turns(t, u, EmptyPage) /\ Extra(u) = 0
    BY <1>5, <1>6, <1>7, <1>8 DEF Turns, Extra
  <1>10. Shown(u)
    <2>1. \A i \in CellsShown : View(u)[i] = "blank"
      BY <1>6, <1>8, ViewFacts DEF EmptyPage
    <2>2. View(u) \in [CellsShown -> Cells]
      BY <1>6, ViewFacts
    <2>3. dark = View(u)
      BY <1>5, <2>1, <2>2
    <2>4. QED
      BY <1>6, <2>3 DEF Shown
  <1>11. Sheet(EmptyPage)
    BY EmptyFacts DEF Straight
  <1>12. QED
    BY <1>9, <1>10, <1>11, TurnsGood DEF u

LEMMA SwitchFacts ==
    ASSUME NEW t, Good(t), NEW s \in Screens
    PROVE  /\ Good(SwitchScreen(t, s)) /\ SwitchScreen(t, s).screen_index = s
           /\ \A q \in Screens : Page(SwitchScreen(t, s), q) = Page(t, q)
           /\ SwitchScreen(t, s).extra_scroll = t.extra_scroll
  <1> DEFINE saved == [t.stock_cursor_index EXCEPT ![t.screen_index] = t.cursor_index]
             w == [t EXCEPT !.stock_cursor_index = saved, !.screen_index = s,
                            !.cursor_index = saved[s]]
             u == SwitchScreen(t, s)
  <1>1. /\ t \in TTY /\ t.screen_index \in Screens /\ t.cursor_index \in Nat
        /\ t.stock_cursor_index \in [Screens -> Nat]
    BY GoodFront, TTYTypes
  <1>2. /\ saved \in [Screens -> Nat]
        /\ \A q \in Screens : saved[q] = CursorIn(t, q)
    BY <1>1 DEF CursorIn
  <1>3. u = Display(w)
    BY DEF SwitchScreen
  <1> HIDE DEF saved, u
  <1>4. saved[s] \in Int
    BY <1>2
  <1>5. /\ w \in TTY /\ w.stock_cursor_index = saved /\ w.screen_index = s
        /\ w.cursor_index = saved[s] /\ w.stock = t.stock /\ w.total_row = t.total_row
        /\ w.extra_scroll = t.extra_scroll
    BY <1>1, <1>2, <1>4 DEF TTY
  <1> HIDE DEF w
  <1>6. \A q \in Screens : Page(w, q) = Page(t, q)
    <2>1. \A q \in Screens : CursorIn(w, q) = CursorIn(t, q)
      BY <1>2, <1>5 DEF CursorIn
    <2>2. QED
      BY <1>5, <2>1 DEF Page
  <1>7. Good(u) /\ \A q \in Screens : Page(u, q) = Page(w, q)
    <2>1. \A q \in Screens : Sheet(Page(w, q))
      BY <1>6 DEF Good
    <2>2. QED
      BY <1>3, <1>5, <2>1, DisplayGood
  <1>8. u.screen_index = s /\ u.extra_scroll = t.extra_scroll
    BY <1>3, <1>5, DisplayFacts DEF Turns
  <1>9. QED
    BY <1>6, <1>7, <1>8 DEF u

\* A control character only counts a row, if the cursor is at the start of one.
PageTab(p) == IF p.at % Columns = 0 THEN PageRow(p) ELSE p

LEMMA TabOnPage ==
    ASSUME NEW p, Sheet(p), p.at # 0 \/ p.rows < BufferRows - 1
    PROVE  /\ Sheet(PageTab(p)) /\ Shifts(p, PageTab(p))
           /\ \/ Moves(p, PageTab(p), 0) /\ PageTab(p).cells = p.cells
              \/ Moves(p, PageTab(p), Columns)
  <1>1. /\ p \in PageRec /\ p.at \in Nat /\ p.at < Size /\ p.at \div Columns <= p.rows
        /\ p.at \div Columns \in Nat /\ p.rows \in Nat /\ p.at - 0 = p.at
        /\ p.rows \in 0 .. BufferRows - 1
    <2>1. /\ p \in PageRec /\ p.at \in Nat /\ p.at < Size /\ p.at \div Columns <= p.rows
      BY Sizes DEF Sheet, Indices
    <2>2. p.at \div Columns \in Nat
      BY <2>1, Constants, DivBounds
    <2>3. p.rows \in Nat /\ p.rows \in 0 .. BufferRows - 1
      BY <2>1, PageTypes
    <2>4. QED
      BY <2>1, <2>2, <2>3
  <1>2. \A j \in Indices : j + 0 = j
    BY Sizes DEF Indices
  <1>3. CASE p.at % Columns # 0
    <2>1. PageTab(p) = p
      BY <1>3 DEF PageTab
    <2>2. Moves(p, p, 0)
      BY <1>1, <1>2 DEF Moves
    <2>3. p.rows <= p.rows
      BY <1>1
    <2>4. QED
      BY <2>1, <2>2, <2>3 DEF Shifts
  <1>4. CASE p.at % Columns = 0 /\ p.at # 0
    <2>1. Columns <= p.at
      <3> DEFINE d == p.at \div Columns
      <3>1. /\ Columns \in Nat \ {0} /\ d \in Nat
            /\ p.at = d * Columns + (p.at % Columns)
        BY <1>1, Constants, DivMod
      <3> HIDE DEF d
      <3>2. p.at = d * Columns + 0 /\ d * Columns \in Nat
        BY <1>4, <3>1
      <3>3. d # 0
        <4>1. 0 * Columns = 0
          BY <3>1
        <4>2. QED
          BY <1>4, <3>2, <4>1
      <3>4. 1 * Columns <= d * Columns
        BY <3>1, <3>3, TimesMonotonic
      <3>5. QED
        BY <1>1, <3>1, <3>2, <3>4
    <2>2. p.at <= Size /\ p.at \div Columns - 1 <= p.rows
      BY <1>1, Sizes
    <2>3. Ended(p)
      BY <1>1, <1>4, <2>1, <2>2 DEF Ended
    <2>4. PageTab(p) = PageRow(p)
      BY <1>4 DEF PageTab
    <2>5. QED
      BY <2>3, <2>4, PageRowFacts
  <1>5. CASE p.at % Columns = 0 /\ p.at = 0
    <2>1. p.rows < BufferRows - 1
      BY <1>5
    <2>2. PageTab(p) = [cells |-> p.cells, at |-> p.at, rows |-> p.rows + 1]
      BY <1>1, <1>5, <2>1 DEF PageTab, PageRow
    <2>3. p.rows + 1 \in 0 .. BufferRows - 1 /\ p.at \div Columns <= p.rows + 1
      BY <1>1, <2>1, Constants
    <2>4. PageTab(p) \in PageRec
      BY <1>1, <2>2, <2>3, PageTypes DEF PageRec
    <2>5. Sheet(PageTab(p))
      BY <2>2, <2>3, <2>4 DEF Sheet
    <2>6. Moves(p, PageTab(p), 0)
      BY <1>1, <1>2, <2>2 DEF Moves
    <2>7. p.rows <= PageTab(p).rows
      BY <1>1, <2>2
    <2>8. QED
      BY <2>2, <2>5, <2>6, <2>7 DEF Shifts
  <1>6. QED
    BY <1>3, <1>4, <1>5

LEMMA TabFacts ==
    ASSUME NEW t, Good(t), t.cursor_index > 0 \/ Total(t) < BufferRows - 1
    PROVE  /\ Turns(t, PrintChar(t, "tab"), PageTab(FrontPage(t)))
           /\ Good(PrintChar(t, "tab"))
  <1> DEFINE p == FrontPage(t)
             live == Live(t)
             w == IF live.cursor_index % Columns = 0 THEN NewRow(live) ELSE live
             new == PageTab(p)
             u == PrintChar(t, "tab")
  <1>1. /\ t \in TTY /\ t.screen_index \in Screens /\ Shown(t) /\ Sheet(p)
        /\ p.at = t.cursor_index /\ p.rows = Total(t) /\ t.cursor_index \in Nat
    BY GoodFront
  <1>2. u = Refresh(w)
    <2>1. "tab" \notin Cells
      BY Constants
    <2>2. QED
      BY <2>1 DEF PrintChar, Live
  <1>3. /\ Turns(t, live, p) /\ live \in TTY /\ FrontPage(live) = p
        /\ live.screen_buffer = t.screen_buffer
        /\ live.cursor_index = t.cursor_index
    BY <1>1, LiveFacts DEF Turns
  <1> HIDE DEF live
  <1>4. Turns(live, w, new) /\ Undrawn(live, w)
    <2>1. CASE live.cursor_index % Columns = 0
      <3>1. new = PageRow(p) /\ w = NewRow(live)
        BY <1>1, <1>3, <2>1 DEF PageTab
      <3>2. QED
        BY <1>3, <3>1, NewRowFacts
    <2>2. CASE live.cursor_index % Columns # 0
      <3>1. new = p /\ w = live
        BY <1>1, <1>3, <2>2 DEF PageTab
      <3>2. QED
        BY <1>3, <3>1 DEF Turns, Undrawn
    <2>3. QED
      BY <2>1, <2>2
  <1>5. Turns(t, w, new) /\ w \in TTY /\ FrontPage(w) = new
    <2>1. Turns(t, w, new)
      BY <1>3, <1>4, TurnsTwice
    <2>2. QED
      BY <2>1 DEF Turns
  <1>6. Sheet(new)
    <2>1. p.at # 0 \/ p.rows < BufferRows - 1
      BY <1>1
    <2>2. QED
      BY <1>1, <2>1, TabOnPage
  <1> HIDE DEF w
  <1>7. w.cursor_index = new.at /\ Total(w) = new.rows /\ w.screen_index \in Screens
    BY <1>5, PageFields, TTYTypes
  <1>8. ASSUME Total(w) < Rows
        PROVE  w.cursor_index \in 0 .. Rows * Columns /\ Shown(w)
    <2>1. /\ Rows \in Nat /\ Rows <= BufferRows - 1 /\ BufferRows \in Nat
          /\ new.rows \in Nat /\ p.rows \in Nat /\ new.rows < Rows
      <3>1. new.rows \in Nat /\ p.rows \in Nat
        BY <1>1, <1>6, PageTypes DEF Sheet
      <3>2. QED
        BY <1>7, <1>8, <3>1, Constants
    <2>2. new.cells = p.cells /\ new.at = p.at /\ new.rows \in {p.rows, p.rows + 1}
      <3>1. CASE p.rows = BufferRows - 1
        <4>1. new.rows = p.rows
          BY <3>1 DEF PageTab, PageRow, PageUp
        <4>2. QED
          BY <2>1, <3>1, <4>1
      <3>2. CASE p.rows # BufferRows - 1
        BY <3>2 DEF PageTab, PageRow
      <3>3. QED
        BY <3>1, <3>2
    <2>3. Total(t) < Rows
      BY <1>1, <2>1, <2>2
    <2>4. new.at \in Nat /\ new.at \div Columns <= new.rows /\ new.rows \in Nat
      BY <1>6, PageTypes, Sizes DEF Sheet, Indices
    <2>5. new.at \div Columns < Rows
      <3>1. new.at \div Columns \in Nat
        BY <2>4, Constants, DivBounds
      <3>2. QED
        BY <2>1, <2>4, <3>1
    <2>6. new.at < Rows * Columns /\ Rows * Columns \in Nat
      BY <2>4, <2>5, RowOf, Sizes
    <2>7. ASSUME NEW i \in CellsShown
          PROVE  w.screen_buffer[i] = View(w)[i]
      <3>1. View(w)[i] = new.cells[i] /\ View(t)[i] = p.cells[i]
        BY <1>1, <1>5, <1>8, <2>3, SmallView
      <3>2. w.screen_buffer[i] = View(t)[i]
        BY <1>1, <1>3, <1>4 DEF Undrawn, Shown
      <3>3. QED
        BY <2>2, <3>1, <3>2
    <2>8. View(w) \in [CellsShown -> Cells] /\ w.screen_buffer \in [CellsShown -> Cells]
      BY <1>5, ViewFacts, TTYTypes
    <2>9. Shown(w)
      BY <2>7, <2>8 DEF Shown
    <2>10. QED
      BY <1>7, <2>4, <2>6, <2>9
  <1>9. Turns(w, u, FrontPage(w)) /\ Shown(u)
    BY <1>2, <1>5, <1>8, RefreshFacts
  <1> HIDE DEF u, new
  <1>10. Turns(t, u, new)
    BY <1>5, <1>9, TurnsTwice
  <1>11. Good(u)
    BY <1>6, <1>9, <1>10, TurnsGood
  <1>12. QED
    BY <1>10, <1>11 DEF u, new

LEMMA DeletedFacts ==
    ASSUME NEW t, Good(t), t.cursor_index # 0
    PROVE  /\ Turns(t, Deleted(t), PageErased(FrontPage(t)))
           /\ \A i \in CellsShown : Deleted(t).screen_buffer[i] =
                IF i = t.cursor_index - 1 THEN "blank" ELSE t.screen_buffer[i]
  <1> DEFINE q == t.screen_index
             p == FrontPage(t)
             k == t.cursor_index - 1
             new == [t.stock EXCEPT ![q * Size + k] = "blank"]
             shown == IF k < Rows * Columns THEN [t.screen_buffer EXCEPT ![k] = "blank"]
                      ELSE t.screen_buffer
             u == Deleted(t)
  <1>1. /\ t \in TTY /\ q \in Screens /\ Sheet(p) /\ p.at = t.cursor_index
        /\ p.rows = Total(t) /\ t.cursor_index \in Nat /\ t.cursor_index < Size
    BY GoodFront
  <1>2. /\ k \in Indices /\ k \in Nat /\ k < Size /\ k \in Int
        /\ Rows * Columns \in Nat /\ "blank" \in Cells
    BY <1>1, Sizes, Constants DEF Indices
  <1>3. /\ t.stock \in [CellsOfAll -> Cells]
        /\ t.screen_buffer \in [CellsShown -> Cells]
        /\ \A j \in Indices : p.cells[j] = t.stock[q * Size + j]
    BY <1>1, TTYTypes, PageFields DEF FrontPage
  <1>4. u = [t EXCEPT !.stock = new, !.cursor_index = k, !.screen_buffer = shown]
    <2>1. CASE k < Rows * Columns
      BY <1>1, <2>1 DEF Deleted, At, TTY
    <2>2. CASE ~ (k < Rows * Columns)
      BY <1>1, <2>2 DEF Deleted, At, TTY
    <2>3. QED
      BY <2>1, <2>2
  <1>5. new \in [CellsOfAll -> Cells] /\ shown \in [CellsShown -> Cells]
    BY <1>2, <1>3
  <1>6. \A i \in CellsShown : shown[i] = IF i = k THEN "blank" ELSE t.screen_buffer[i]
    BY <1>2, <1>3 DEF CellsShown
  <1>7. ASSUME NEW s \in Screens, NEW j \in Indices
        PROVE  new[s * Size + j] = IF s = q /\ j = k THEN "blank"
                                   ELSE t.stock[s * Size + j]
    <2>1. s * Size + j \in CellsOfAll /\ q * Size + k \in CellsOfAll
      BY <1>1, <1>2, CellOfScreen
    <2>2. s * Size + j = q * Size + k <=> s = q /\ j = k
      <3>1. s * Size + j = q * Size + k => s = q /\ j = k
        BY <1>1, <1>2, ScreensApart
      <3>2. QED
        BY <3>1
    <2>3. QED
      BY <1>3, <2>1, <2>2
  <1> HIDE DEF new, shown, u, k
  <1>8. /\ u \in TTY /\ u.stock = new /\ u.cursor_index = k
        /\ u.screen_buffer = shown
        /\ u.stock_cursor_index = t.stock_cursor_index /\ u.screen_index = q
        /\ u.extra_scroll = t.extra_scroll /\ u.total_row = t.total_row
    <2>1. u \in TTY
      BY <1>1, <1>2, <1>4, <1>5 DEF TTY
    <2>2. QED
      BY <1>1, <1>4, <2>1 DEF TTY
  <1>9. ASSUME NEW s \in Screens, s # q PROVE Page(u, s) = Page(t, s)
    <2>1. \A j \in Indices : u.stock[s * Size + j] = t.stock[s * Size + j]
      BY <1>7, <1>8, <1>9
    <2>2. QED
      BY <1>8, <1>9, <2>1 DEF Page, CursorIn
  <1>10. FrontPage(u) = PageErased(p)
    <2>1. /\ FrontPage(u).at = k /\ FrontPage(u).rows = Total(t)
          /\ FrontPage(u) \in PageRec
          /\ \A j \in Indices : FrontPage(u).cells[j] = new[q * Size + j]
      BY <1>1, <1>8, PageFields DEF FrontPage, Total
    <2>2. /\ PageErased(p).at = k /\ PageErased(p).rows = p.rows
          /\ PageErased(p) \in PageRec
      BY <1>1, ErasedFacts DEF Sheet, k
    <2>3. \A j \in Indices : PageErased(p).cells[j] = IF j = k THEN "blank" ELSE p.cells[j]
      BY <1>1 DEF PageErased, k
    <2>4. \A j \in Indices : FrontPage(u).cells[j] = PageErased(p).cells[j]
      BY <1>1, <1>3, <1>7, <2>1, <2>3
    <2>5. QED
      BY <1>1, <2>1, <2>2, <2>4, PageEqual
  <1>11. Turns(t, u, PageErased(p))
    BY <1>8, <1>9, <1>10 DEF Turns
  <1>12. QED
    BY <1>6, <1>8, <1>11 DEF u, k

LEMMA BackspaceFacts ==
    ASSUME NEW t, Good(t), t.cursor_index # 0
    PROVE  /\ Turns(t, Refresh(Deleted(t)), PageErased(FrontPage(t)))
           /\ Good(Refresh(Deleted(t)))
  <1> DEFINE p == FrontPage(t)
             w == Deleted(t)
             new == PageErased(p)
             u == Refresh(w)
  <1>1. /\ t \in TTY /\ Shown(t) /\ Sheet(p) /\ p.at = t.cursor_index
        /\ p.rows = Total(t)
    BY GoodFront
  <1>2. /\ Turns(t, w, new) /\ w \in TTY /\ FrontPage(w) = new
        /\ \A i \in CellsShown : w.screen_buffer[i] =
             IF i = t.cursor_index - 1 THEN "blank" ELSE t.screen_buffer[i]
    BY DeletedFacts DEF Turns
  <1>3. Sheet(new) /\ new.rows = p.rows
    BY <1>1, ErasedFacts
  <1> HIDE DEF w
  <1>4. w.cursor_index = new.at /\ Total(w) = new.rows
    <2>1. w.screen_index \in Screens
      BY <1>2, TTYTypes
    <2>2. QED
      BY <1>2, <2>1, PageFields
  <1>5. ASSUME Total(w) < Rows
        PROVE  w.cursor_index \in 0 .. Rows * Columns /\ Shown(w)
    <2>1. Total(t) < Rows /\ Rows \in Nat
      BY <1>1, <1>3, <1>4, <1>5, Constants
    <2>2. new.at \in Nat /\ new.at \div Columns <= new.rows /\ new.rows \in Nat
      BY <1>3, PageTypes, Sizes DEF Sheet, Indices
    <2>3. new.at \div Columns < Rows
      <3>1. new.at \div Columns \in Nat
        BY <2>2, Constants, DivBounds
      <3>2. new.rows < Rows
        BY <1>4, <1>5
      <3>3. QED
        BY <2>1, <2>2, <3>1, <3>2
    <2>4. new.at < Rows * Columns /\ Rows * Columns \in Nat
      BY <2>2, <2>3, RowOf, Sizes
    <2>5. ASSUME NEW i \in CellsShown
          PROVE  w.screen_buffer[i] = View(w)[i]
      <3>1. i \in Indices /\ View(w)[i] = new.cells[i] /\ View(t)[i] = p.cells[i]
        BY <1>1, <1>2, <1>5, <2>1, SmallView
      <3>2. w.screen_buffer[i] = IF i = t.cursor_index - 1 THEN "blank" ELSE View(t)[i]
        BY <1>1, <1>2 DEF Shown
      <3>3. new.cells[i] = IF i = p.at - 1 THEN "blank" ELSE p.cells[i]
        BY <3>1 DEF PageErased
      <3>4. QED
        BY <1>1, <3>1, <3>2, <3>3
    <2>6. View(w) \in [CellsShown -> Cells] /\ w.screen_buffer \in [CellsShown -> Cells]
      BY <1>2, ViewFacts, TTYTypes
    <2>7. Shown(w)
      BY <2>5, <2>6 DEF Shown
    <2>8. QED
      BY <1>4, <2>2, <2>4, <2>7
  <1>6. Turns(w, u, FrontPage(w)) /\ Shown(u)
    BY <1>2, <1>5, RefreshFacts
  <1> HIDE DEF u, new
  <1>7. Turns(t, u, new)
    BY <1>2, <1>6, TurnsTwice
  <1>8. Good(u)
    BY <1>3, <1>6, <1>7, TurnsGood
  <1>9. QED
    BY <1>7, <1>8 DEF u, w, new

\* The arrow keys change what is shown and nothing else.
LEMMA ScrollFacts ==
    ASSUME NEW t, Good(t), NEW e \in 0 .. Short - 1
    PROVE  LET u == Display([t EXCEPT !.extra_scroll[t.screen_index] = e])
           IN  /\ Good(u) /\ u.screen_index = t.screen_index
               /\ \A s \in Screens : Page(u, s) = Page(t, s)
               /\ Extra(u) = e
  <1> DEFINE new == [t.extra_scroll EXCEPT ![t.screen_index] = e]
             w == [t EXCEPT !.extra_scroll[t.screen_index] = e]
             u == Display(w)
  <1>1. /\ t \in TTY /\ t.screen_index \in Screens
        /\ t.extra_scroll \in [Screens -> 0 .. Short - 1]
    BY GoodFront, TTYTypes
  <1>2. new \in [Screens -> 0 .. Short - 1] /\ new[t.screen_index] = e
    BY <1>1
  <1>3. w = [t EXCEPT !.extra_scroll = new]
    BY <1>1 DEF TTY
  <1> HIDE DEF new, w
  <1>4. /\ w \in TTY /\ w.extra_scroll = new
        /\ w.stock = t.stock /\ w.cursor_index = t.cursor_index
        /\ w.stock_cursor_index = t.stock_cursor_index /\ w.screen_index = t.screen_index
        /\ w.total_row = t.total_row
    BY <1>1, <1>2, <1>3 DEF TTY
  <1>5. \A s \in Screens : Page(w, s) = Page(t, s)
    BY <1>4 DEF Page, CursorIn
  <1>6. \A s \in Screens : Sheet(Page(w, s))
    BY <1>5 DEF Good
  <1>7. /\ Good(u) /\ \A s \in Screens : Page(u, s) = Page(w, s)
    BY <1>4, <1>6, DisplayGood
  <1>8. Extra(u) = Extra(w) /\ u.screen_index = w.screen_index
    BY <1>4, <1>6, DisplayGood, DisplayFacts DEF Turns
  <1>9. Extra(w) = e
    BY <1>2, <1>4 DEF Extra
  <1> HIDE DEF u
  <1>10. QED
    BY <1>4, <1>5, <1>7, <1>8, <1>9 DEF u, w

----------------------------------------------------------------------------
(* Printing a string, one character after the other *)

Printable == Letters \cup {"mark", "newline"}
PrintOne(t, c) == IF c = "newline" THEN PrintNewLine(t) ELSE PrintChar(t, c)

\* Any set of globals that a character does not lead out of is not left while
\* a string is printed.
LEMMA PrintSteps ==
    ASSUME NEW V, NEW t \in V, NEW script \in Seq(Printable),
           \A u \in V : \A c \in Printable : PrintOne(u, c) \in V
    PROVE  \E pre \in [0 .. Len(script) -> V] :
             /\ PrintStr(t, script) = pre[Len(script)] /\ pre[0] = t
             /\ \A k \in 0 .. Len(script) - 1 :
                  pre[k + 1] = PrintOne(pre[k], script[k + 1])
  <1> DEFINE n == Len(script)
             step == [u \in V |-> [i \in 1 .. n |-> PrintOne(u, script[i])]]
             IsPrinting(f) ==
               f = [s \in SUBSET DOMAIN script |->
                      IF s = {} THEN t ELSE PrintOne(f[s \ {Max(s)}], script[Max(s)])]
  <1>1. n \in Nat /\ DOMAIN script = 1 .. n
        /\ \A i \in 1 .. n : script[i] \in Printable
    OBVIOUS
  <1>2. step \in [V -> [1 .. n -> V]]
    BY <1>1
  <1>3. \A u \in V : \A i \in 1 .. n : step[u][i] = PrintOne(u, script[i])
    OBVIOUS
  <1> HIDE DEF step
  <1>4. PICK fold : IsFold(fold, n, V, t, step)
    BY <1>1, <1>2, FoldExists
  <1>5. IsPrinting(fold)
    <2>1. fold \in [SUBSET (1 .. n) -> V]
      BY <1>4 DEF IsFold
    <2>2. ASSUME NEW s \in SUBSET (1 .. n)
          PROVE  fold[s] = IF s = {} THEN t
                           ELSE PrintOne(fold[s \ {Max(s)}], script[Max(s)])
      <3>1. CASE s = {}
        BY <1>4, <3>1 DEF IsFold
      <3>2. CASE s # {}
        <4>1. fold[s] = step[fold[s \ {Max(s)}]][Max(s)]
          BY <1>4, <3>2 DEF IsFold
        <4>2. Max(s) \in 1 .. n
          <5>1. s \in SUBSET Nat /\ \A m \in s : m <= n
            BY <1>1
          <5>2. Max(s) \in s
            BY <1>1, <3>2, <5>1, MaxOfNats
          <5>3. QED
            BY <5>2
        <4>3. fold[s \ {Max(s)}] \in V
          <5>1. s \ {Max(s)} \in SUBSET (1 .. n)
            OBVIOUS
          <5>2. QED
            BY <2>1, <5>1, Zenon
        <4>4. QED
          BY <1>3, <3>2, <4>1, <4>2, <4>3
      <3>3. QED
        BY <3>1, <3>2
    <2>3. fold = [s \in SUBSET (1 .. n) |->
                    IF s = {} THEN t ELSE PrintOne(fold[s \ {Max(s)}], script[Max(s)])]
      <3>1. fold = [s \in SUBSET (1 .. n) |-> fold[s]]
        BY <2>1
      <3>2. QED
        BY <2>2, <3>1, Zenon
    <2>4. QED
      BY <1>1, <2>3
  <1> DEFINE g == CHOOSE f : IsPrinting(f)
  <1>6. IsPrinting(g)
    BY <1>5
  <1>7. PrintStr(t, script) = g[DOMAIN script]
    BY DEF PrintStr, FoldLeft, MapThenFoldSet, PrintOne
  <1> DEFINE pre == [k \in 0 .. n |-> g[1 .. k]]
  <1> HIDE DEF g
  <1>8. \A s \in SUBSET (1 .. n) :
          g[s] = IF s = {} THEN t ELSE PrintOne(g[s \ {Max(s)}], script[Max(s)])
    BY <1>1, <1>6, Zenon
  <1>9. pre[0] = t
    <2>1. 1 .. 0 = {} /\ {} \in SUBSET (1 .. n) /\ 0 \in 0 .. n
      BY <1>1
    <2>2. g[{}] = t
      BY <1>8, <2>1
    <2>3. QED
      BY <2>1, <2>2
  <1>10. ASSUME NEW k \in 0 .. n - 1 PROVE pre[k + 1] = PrintOne(pre[k], script[k + 1])
    <2>1. PICK m \in Nat : m = k + 1 /\ m # 0 /\ m <= n
      BY <1>1
    <2>2. Max(1 .. m) = m /\ (1 .. m) \ {Max(1 .. m)} = 1 .. m - 1
      BY <2>1, MaxOfInterval
    <2>3. 1 .. m \in SUBSET (1 .. n) /\ 1 .. m # {}
      <3>1. n \in Nat
        BY <1>1
      <3>2. 1 \in 1 .. m /\ \A x \in 1 .. m : x \in 1 .. n
        BY <2>1, <3>1
      <3>3. QED
        BY <3>2
    <2>4. g[1 .. m] = PrintOne(g[1 .. m - 1], script[m])
      <3>1. g[1 .. m] = PrintOne(g[(1 .. m) \ {Max(1 .. m)}], script[Max(1 .. m)])
        BY <1>8, <2>3, Zenon
      <3>2. QED
        BY <2>2, <3>1, Zenon
    <2>5. m - 1 = k /\ k \in 0 .. n /\ k + 1 \in 0 .. n
      BY <1>1, <2>1
    <2>6. QED
      BY <2>1, <2>4, <2>5
  <1>11. pre \in [0 .. n -> V]
    <2> DEFINE S == {k \in Nat : k <= n => pre[k] \in V}
    <2>1. 0 \in S
      BY <1>9
    <2>2. ASSUME NEW k \in Nat, k \in S PROVE k + 1 \in S
      <3> SUFFICES ASSUME k + 1 <= n PROVE pre[k + 1] \in V
        OBVIOUS
      <3>1. k \in 0 .. n - 1 /\ pre[k] \in V /\ script[k + 1] \in Printable
        BY <1>1, <2>2
      <3>2. pre[k + 1] = PrintOne(pre[k], script[k + 1])
        BY <1>10, <3>1
      <3>3. QED
        BY <3>1, <3>2
    <2> HIDE DEF S
    <2>3. \A k \in Nat : k \in S
      BY <2>1, <2>2, SetInduction
    <2>4. \A k \in 0 .. n : pre[k] \in V
      <3>1. \A k \in 0 .. n : k \in Nat /\ k <= n
        BY <1>1
      <3>2. \A k \in Nat : k \in S => (k <= n => pre[k] \in V)
        BY DEF S
      <3>3. QED
        BY <2>3, <3>1, <3>2, Zenon
    <2>5. pre = [k \in 0 .. n |-> pre[k]]
      OBVIOUS
    <2> HIDE DEF pre
    <2>6. QED
      BY <2>4, <2>5, Zenon
  <1>12. PrintStr(t, script) = pre[n]
    BY <1>1, <1>7
  <1> HIDE DEF pre
  <1>13. QED
    BY <1>9, <1>10, <1>11, <1>12

LEMMA Printables ==
    /\ Banner \in Seq(Printable) /\ Controls \in Seq(Printable)
    /\ Prompt \in Seq(Printable) /\ \A out \in Outputs : out \in Seq(Printable)
    /\ \A out \in Outputs : Reply(out) \in Seq(Printable)
    /\ Len(Prompt) \in Nat \ {0} /\ Prompt[Len(Prompt)] = "mark"
    /\ \A c \in Printable : c # "newline" => c \in Cells
  <1>1. /\ Banner \in Seq(Printable) /\ Controls \in Seq(Printable)
        /\ Prompt \in Seq(Printable) /\ \A out \in Outputs : out \in Seq(Printable)
        /\ Prompt # <<>> /\ Prompt[Len(Prompt)] = "mark"
    BY ScreensAssumption DEF Printable
  <1>2. \A c \in Printable : c # "newline" => c \in Cells
    BY DEF Printable, Cells
  <1>3. \A out \in Outputs : Reply(out) \in Seq(Printable)
    BY <1>1 DEF Reply, Printable
  <1>4. QED
    BY <1>1, <1>2, <1>3

\* Printing concerns the screen in front.
LEMMA PrintOneFacts ==
    ASSUME NEW t, Good(t), NEW c \in Printable
    PROVE  /\ Good(PrintOne(t, c))
           /\ PrintOne(t, c).screen_index = t.screen_index
           /\ FrontPage(PrintOne(t, c)) =
                IF c = "newline" THEN PageLine(FrontPage(t)) ELSE PagePut(FrontPage(t), c)
           /\ \A s \in Screens \ {t.screen_index} : Page(PrintOne(t, c), s) = Page(t, s)
  <1>1. CASE c = "newline"
    BY <1>1, NewLineFacts DEF PrintOne, Turns
  <1>2. CASE c # "newline"
    BY <1>2, Printables, PrintCharFacts DEF PrintOne, Turns
  <1>3. QED
    BY <1>1, <1>2

\* t and u differ in the page in front only.
Beside(t, u) ==
    /\ u.screen_index = t.screen_index
    /\ \A s \in Screens \ {t.screen_index} : Page(u, s) = Page(t, s)

LEMMA PrintStrGood ==
    ASSUME NEW t, Good(t), NEW script \in Seq(Printable)
    PROVE  Good(PrintStr(t, script)) /\ Beside(t, PrintStr(t, script))
  <1> DEFINE V == {u \in TTY : Good(u) /\ Beside(t, u)}
  <1>1. t \in V
    BY GoodFront DEF Beside
  <1>2. \A u \in V : \A c \in Printable : PrintOne(u, c) \in V
    <2> SUFFICES ASSUME NEW u \in V, NEW c \in Printable PROVE PrintOne(u, c) \in V
      OBVIOUS
    <2>1. Good(u) /\ Beside(t, u)
      OBVIOUS
    <2>2. Good(PrintOne(u, c)) /\ Beside(t, PrintOne(u, c))
      BY <2>1, PrintOneFacts DEF Beside
    <2>3. QED
      BY <2>2 DEF Good
  <1>3. PICK pre \in [0 .. Len(script) -> V] : PrintStr(t, script) = pre[Len(script)]
    <2> HIDE DEF V
    <2>1. QED
      BY <1>1, <1>2, PrintSteps
  <1>4. pre[Len(script)] \in V
    <2>1. Len(script) \in 0 .. Len(script)
      OBVIOUS
    <2>2. QED
      BY <1>3, <2>1
  <1>5. QED
    BY <1>3, <1>4

\* What is true of a page and stays true when a character is printed on it is
\* true of it when a string is printed.
AllStraight(t) == \A s \in Screens : Straight(Page(t, s))

LEMMA PrintStraight ==
    ASSUME NEW t, Good(t), AllStraight(t), NEW script \in Seq(Printable)
    PROVE  AllStraight(PrintStr(t, script))
  <1> DEFINE V == {u \in TTY : Good(u) /\ AllStraight(u) /\ u.screen_index = t.screen_index}
  <1>1. t \in V
    BY GoodFront
  <1>2. \A u \in V : \A c \in Printable : PrintOne(u, c) \in V
    <2> SUFFICES ASSUME NEW u \in V, NEW c \in Printable PROVE PrintOne(u, c) \in V
      OBVIOUS
    <2>1. Good(u) /\ AllStraight(u) /\ u.screen_index = t.screen_index
          /\ u.screen_index \in Screens
      BY GoodFront
    <2>2. /\ Good(PrintOne(u, c)) /\ PrintOne(u, c).screen_index = u.screen_index
          /\ FrontPage(PrintOne(u, c)) =
               IF c = "newline" THEN PageLine(FrontPage(u)) ELSE PagePut(FrontPage(u), c)
          /\ \A s \in Screens \ {u.screen_index} : Page(PrintOne(u, c), s) = Page(u, s)
      BY <2>1, PrintOneFacts
    <2>3. Straight(FrontPage(u))
      BY <2>1 DEF AllStraight, FrontPage
    <2>4. Straight(FrontPage(PrintOne(u, c)))
      BY <2>2, <2>3, Printables, PutStraight, LineStraight
    <2>5. AllStraight(PrintOne(u, c))
      <3> SUFFICES ASSUME NEW s \in Screens PROVE Straight(Page(PrintOne(u, c), s))
        BY DEF AllStraight
      <3>1. CASE s = u.screen_index
        BY <2>2, <2>4, <3>1 DEF FrontPage
      <3>2. CASE s # u.screen_index
        BY <2>1, <2>2, <3>2 DEF AllStraight
      <3>3. QED
        BY <3>1, <3>2
    <2>6. QED
      BY <2>1, <2>2, <2>5 DEF Good
  <1>3. PICK pre \in [0 .. Len(script) -> V] : PrintStr(t, script) = pre[Len(script)]
    <2> HIDE DEF V
    <2>1. QED
      BY <1>1, <1>2, PrintSteps
  <1>4. pre[Len(script)] \in V
    <2>1. Len(script) \in 0 .. Len(script)
      OBVIOUS
    <2>2. QED
      BY <1>3, <2>1
  <1>5. QED
    BY <1>3, <1>4

\* What init_screens does to one screen.
Greet(t, s) == PrintStr(ClearScreen(SwitchScreen(t, s)), Banner)

LEMMA GreetFacts ==
    ASSUME NEW t, Good(t), AllStraight(t), NEW s \in Screens
    PROVE  Good(Greet(t, s)) /\ AllStraight(Greet(t, s))
  <1> DEFINE u == SwitchScreen(t, s)
             w == ClearScreen(u)
  <1>1. Good(u) /\ u.screen_index = s /\ \A q \in Screens : Page(u, q) = Page(t, q)
    BY SwitchFacts
  <1>2. AllStraight(u)
    BY <1>1 DEF AllStraight
  <1> HIDE DEF u
  <1>3. Good(w) /\ Turns(u, w, EmptyPage)
    BY <1>1, ClearFacts
  <1>4. AllStraight(w)
    <2> SUFFICES ASSUME NEW q \in Screens PROVE Straight(Page(w, q))
      BY DEF AllStraight
    <2>1. CASE q = s
      BY <1>1, <1>3, <2>1, EmptyFacts DEF Turns, FrontPage
    <2>2. CASE q # s
      BY <1>1, <1>2, <1>3, <2>2 DEF AllStraight, Turns
    <2>3. QED
      BY <2>1, <2>2
  <1> HIDE DEF w
  <1>5. Banner \in Seq(Printable)
    BY Printables
  <1>6. Good(PrintStr(w, Banner)) /\ AllStraight(PrintStr(w, Banner))
    BY <1>3, <1>4, <1>5, PrintStrGood, PrintStraight
  <1>7. QED
    BY <1>6 DEF Greet, w, u

\* init_screens greets the screens one after the other, and does not leave any
\* set of globals that greeting does not lead out of.
LEMMA GreetSteps ==
    ASSUME NEW V, NEW t \in V, \A u \in V : \A s \in Screens : Greet(u, s) \in V
    PROVE  \E pre \in [0 .. ScreenCount -> V] :
             /\ init_screens(t) = pre[ScreenCount] /\ pre[0] = t
             /\ \A k \in 0 .. ScreenCount - 1 : pre[k + 1] = Greet(pre[k], k)
  <1> DEFINE n == ScreenCount
             order == [i \in 1 .. n |-> i - 1]
             step == [u \in V |-> [i \in 1 .. n |-> Greet(u, order[i])]]
             IsGreeting(f) ==
               f = [s \in SUBSET DOMAIN order |->
                      IF s = {} THEN t ELSE Greet(f[s \ {Max(s)}], order[Max(s)])]
  <1>1. n \in Nat /\ DOMAIN order = 1 .. n
        /\ \A i \in 1 .. n : order[i] \in Screens
    BY Constants
  <1>2. step \in [V -> [1 .. n -> V]]
    BY <1>1
  <1>3. \A u \in V : \A i \in 1 .. n : step[u][i] = Greet(u, order[i])
    OBVIOUS
  <1>4. \A k \in 0 .. n - 1 : order[k + 1] = k
    BY <1>1
  <1> HIDE DEF step, order
  <1>5. PICK fold : IsFold(fold, n, V, t, step)
    BY <1>1, <1>2, FoldExists
  <1>6. IsGreeting(fold)
    <2>1. fold \in [SUBSET (1 .. n) -> V]
      BY <1>5 DEF IsFold
    <2>2. ASSUME NEW s \in SUBSET (1 .. n)
          PROVE  fold[s] = IF s = {} THEN t
                           ELSE Greet(fold[s \ {Max(s)}], order[Max(s)])
      <3>1. CASE s = {}
        BY <1>5, <3>1 DEF IsFold
      <3>2. CASE s # {}
        <4>1. fold[s] = step[fold[s \ {Max(s)}]][Max(s)]
          BY <1>5, <3>2 DEF IsFold
        <4>2. Max(s) \in 1 .. n
          <5>1. s \in SUBSET Nat /\ \A m \in s : m <= n
            BY <1>1
          <5>2. Max(s) \in s
            BY <1>1, <3>2, <5>1, MaxOfNats
          <5>3. QED
            BY <5>2
        <4>3. fold[s \ {Max(s)}] \in V
          <5>1. s \ {Max(s)} \in SUBSET (1 .. n)
            OBVIOUS
          <5>2. QED
            BY <2>1, <5>1, Zenon
        <4>4. QED
          BY <1>3, <3>2, <4>1, <4>2, <4>3
      <3>3. QED
        BY <3>1, <3>2
    <2>3. fold = [s \in SUBSET (1 .. n) |->
                    IF s = {} THEN t ELSE Greet(fold[s \ {Max(s)}], order[Max(s)])]
      <3>1. fold = [s \in SUBSET (1 .. n) |-> fold[s]]
        BY <2>1
      <3>2. QED
        BY <2>2, <3>1, Zenon
    <2>4. QED
      BY <1>1, <2>3
  <1> DEFINE g == CHOOSE f : IsGreeting(f)
  <1>7. IsGreeting(g)
    BY <1>6
  <1>8. init_screens(t) = g[DOMAIN order]
    BY DEF init_screens, FoldLeft, MapThenFoldSet, Greet, order
  <1> DEFINE pre == [k \in 0 .. n |-> g[1 .. k]]
  <1> HIDE DEF g
  <1>9. \A s \in SUBSET (1 .. n) :
          g[s] = IF s = {} THEN t ELSE Greet(g[s \ {Max(s)}], order[Max(s)])
    BY <1>1, <1>7, Zenon
  <1>10. pre[0] = t
    <2>1. 1 .. 0 = {} /\ {} \in SUBSET (1 .. n) /\ 0 \in 0 .. n
      BY <1>1
    <2>2. g[{}] = t
      BY <1>9, <2>1
    <2>3. QED
      BY <2>1, <2>2
  <1>11. ASSUME NEW k \in 0 .. n - 1 PROVE pre[k + 1] = Greet(pre[k], order[k + 1])
    <2>1. PICK m \in Nat : m = k + 1 /\ m # 0 /\ m <= n
      BY <1>1
    <2>2. Max(1 .. m) = m /\ (1 .. m) \ {Max(1 .. m)} = 1 .. m - 1
      BY <2>1, MaxOfInterval
    <2>3. 1 .. m \in SUBSET (1 .. n) /\ 1 .. m # {}
      <3>1. n \in Nat
        BY <1>1
      <3>2. 1 \in 1 .. m /\ \A x \in 1 .. m : x \in 1 .. n
        BY <2>1, <3>1
      <3>3. QED
        BY <3>2
    <2>4. g[1 .. m] = Greet(g[1 .. m - 1], order[m])
      <3>1. g[1 .. m] = Greet(g[(1 .. m) \ {Max(1 .. m)}], order[Max(1 .. m)])
        BY <1>9, <2>3, Zenon
      <3>2. QED
        BY <2>2, <3>1, Zenon
    <2>5. m - 1 = k /\ k \in 0 .. n /\ k + 1 \in 0 .. n
      BY <1>1, <2>1
    <2>6. QED
      BY <2>1, <2>4, <2>5
  <1>12. pre \in [0 .. n -> V]
    <2> DEFINE S == {k \in Nat : k <= n => pre[k] \in V}
    <2>1. 0 \in S
      BY <1>10
    <2>2. ASSUME NEW k \in Nat, k \in S PROVE k + 1 \in S
      <3> SUFFICES ASSUME k + 1 <= n PROVE pre[k + 1] \in V
        OBVIOUS
      <3>1. k \in 0 .. n - 1 /\ pre[k] \in V /\ order[k + 1] \in Screens
        BY <1>1, <2>2
      <3>2. pre[k + 1] = Greet(pre[k], order[k + 1])
        BY <1>11, <3>1
      <3>3. QED
        BY <3>1, <3>2
    <2> HIDE DEF S
    <2>3. \A k \in Nat : k \in S
      BY <2>1, <2>2, SetInduction
    <2>4. \A k \in 0 .. n : pre[k] \in V
      <3>1. \A k \in 0 .. n : k \in Nat /\ k <= n
        BY <1>1
      <3>2. \A k \in Nat : k \in S => (k <= n => pre[k] \in V)
        BY DEF S
      <3>3. QED
        BY <2>3, <3>1, <3>2, Zenon
    <2>5. pre = [k \in 0 .. n |-> pre[k]]
      OBVIOUS
    <2> HIDE DEF pre
    <2>6. QED
      BY <2>4, <2>5, Zenon
  <1>13. init_screens(t) = pre[n]
    BY <1>1, <1>8
  <1> HIDE DEF pre
  <1>14. QED
    BY <1>4, <1>10, <1>11, <1>12, <1>13

LEMMA InitScreensFacts ==
    ASSUME NEW t, Good(t), AllStraight(t)
    PROVE  Good(init_screens(t)) /\ AllStraight(init_screens(t))
  <1> DEFINE V == {u \in TTY : Good(u) /\ AllStraight(u)}
  <1>1. t \in V
    BY GoodFront
  <1>2. \A u \in V : \A s \in Screens : Greet(u, s) \in V
    <2> SUFFICES ASSUME NEW u \in V, NEW s \in Screens PROVE Greet(u, s) \in V
      OBVIOUS
    <2>1. Good(Greet(u, s)) /\ AllStraight(Greet(u, s))
      BY GreetFacts
    <2>2. QED
      BY <2>1 DEF Good
  <1> HIDE DEF V
  <1>3. PICK pre \in [0 .. ScreenCount -> V] : init_screens(t) = pre[ScreenCount]
    BY <1>1, <1>2, GreetSteps
  <1>4. ScreenCount \in 0 .. ScreenCount
    BY Constants
  <1>5. QED
    BY <1>3, <1>4 DEF V

LEMMA ResetFacts ==
    /\ Good(Reset) /\ AllStraight(Reset)
    /\ \A s \in Screens : Page(Reset, s) = EmptyPage
  <1>1. Reset \in TTY
    BY Constants, Sizes DEF Reset, TTY, CellsOfAll, CellsShown
  <1>2. \A s \in Screens : Page(Reset, s) = EmptyPage
    <2> SUFFICES ASSUME NEW s \in Screens PROVE Page(Reset, s) = EmptyPage
      OBVIOUS
    <2>1. \A j \in Indices : Reset.stock[s * Size + j] = "blank"
      BY CellOfScreen DEF Reset, CellsOfAll
    <2>2. CursorIn(Reset, s) = 0 /\ Reset.total_row[s] = 0
      BY DEF CursorIn, Reset
    <2>3. QED
      BY <2>1, <2>2 DEF Page, EmptyPage
  <1>3. AllStraight(Reset)
    BY <1>2, EmptyFacts DEF AllStraight
  <1>4. \A i \in CellsShown : View(Reset)[i] = "blank"
    <2> SUFFICES ASSUME NEW i \in CellsShown PROVE View(Reset)[i] = "blank"
      OBVIOUS
    <2>1. FirstShown(Reset) * Columns + i \in Indices
          /\ View(Reset)[i] = FrontPage(Reset).cells[FirstShown(Reset) * Columns + i]
      BY <1>1, ViewFacts
    <2>2. FrontPage(Reset) = EmptyPage
      BY <1>1, <1>2, TTYTypes DEF FrontPage
    <2>3. QED
      BY <2>1, <2>2 DEF EmptyPage
  <1>5. Shown(Reset)
    <2>1. Reset.screen_buffer = [i \in CellsShown |-> "blank"]
      BY DEF Reset, CellsShown
    <2>2. View(Reset) \in [CellsShown -> Cells]
      BY <1>1, ViewFacts
    <2>3. QED
      BY <1>4, <2>1, <2>2 DEF Shown
  <1>6. QED
    BY <1>1, <1>2, <1>3, <1>5 DEF Good, AllStraight, Straight

\* Where main leaves the screens, a prompt on the first one.
Started == SwitchScreen(init_screens(Reset), 0)

LEMMA StartFacts ==
    /\ Good(Started) /\ AllStraight(Started) /\ Started.screen_index = 0
    /\ Controls \o Prompt \in Seq(Printable)
    /\ AfterMain = PrintStr(Started, Controls \o Prompt)
    /\ Good(AfterMain) /\ AllStraight(AfterMain) /\ AfterMain.screen_index = 0
  <1>1. Good(init_screens(Reset)) /\ AllStraight(init_screens(Reset))
    BY ResetFacts, InitScreensFacts
  <1>2. 0 \in Screens
    BY Constants
  <1>3. /\ Good(Started) /\ Started.screen_index = 0
        /\ \A q \in Screens : Page(Started, q) = Page(init_screens(Reset), q)
    BY <1>1, <1>2, SwitchFacts DEF Started
  <1>4. AllStraight(Started)
    BY <1>1, <1>3 DEF AllStraight
  <1>5. Controls \o Prompt \in Seq(Printable)
    BY Printables
  <1>6. AfterMain = PrintStr(Started, Controls \o Prompt)
    BY DEF AfterMain, Started
  <1>7. QED
    BY <1>3, <1>4, <1>5, <1>6, PrintStrGood, PrintStraight DEF Beside

----------------------------------------------------------------------------
(* What is typed behind a prompt *)

\* The last Len(w) cells in front of the cursor hold w and the one before is the
\* mark of the prompt, as far as the buffer, which is full then, has kept them.
Holds(p, w) ==
    /\ \A i \in 1 .. Len(w) : i <= p.at => p.cells[p.at - i] = w[(Len(w) - i) + 1]
    /\ Len(w) < p.at => p.cells[p.at - (Len(w) + 1)] = "mark"
    /\ p.at <= Len(w) => p.rows = BufferRows - 1

LEMMA ShiftedHolds ==
    ASSUME NEW p \in PageRec, p.at \in Nat, NEW q, Sheet(q), Shifts(p, q),
           NEW A, NEW w \in Seq(A), Holds(p, w)
    PROVE  Holds(q, w)
  <1> DEFINE n == Len(w)
  <1>1. /\ q.at \in Nat /\ q.at < Size /\ Size \in Nat /\ n \in Nat /\ Columns \in Nat
        /\ q.rows \in 0 .. BufferRows - 1 /\ p.rows \in Nat /\ BufferRows \in Nat
    <2>1. q.at \in Nat /\ q.at < Size /\ Size \in Nat /\ n \in Nat
      BY Sizes DEF Sheet, Indices
    <2>2. q.rows \in 0 .. BufferRows - 1 /\ p.rows \in Nat
      BY PageTypes DEF Sheet
    <2>3. QED
      BY <2>1, <2>2, Constants
  <1>3. PICK e \in Nat : Moves(p, q, e) /\ (e = 0 => p.rows <= q.rows)
                           /\ (e # 0 => q.rows = BufferRows - 1)
    <2>1. CASE Moves(p, q, 0) /\ p.rows <= q.rows
      BY <2>1
    <2>2. CASE Moves(p, q, Columns) /\ q.rows = BufferRows - 1
      <3>1. Columns # 0
        BY Constants
      <3>2. QED
        BY <1>1, <2>2, <3>1
    <2>3. QED
      BY <2>1, <2>2 DEF Shifts
  <1>4. /\ q.at = p.at - e
        /\ \A j \in Indices : j < q.at => q.cells[j] = p.cells[j + e]
    BY <1>3 DEF Moves
  <1>5. ASSUME NEW i \in Nat, i # 0, i <= q.at
        PROVE  q.cells[q.at - i] = p.cells[p.at - i] /\ i <= p.at
    <2>1. PICK j \in Int : j = q.at - i
      BY <1>1
    <2>2. j \in Indices /\ j < q.at /\ j + e = p.at - i /\ i <= p.at
      BY <1>1, <1>4, <1>5, <2>1 DEF Indices
    <2>3. q.cells[j] = p.cells[j + e]
      BY <1>4, <2>2
    <2>4. QED
      BY <2>1, <2>2, <2>3
  <1> HIDE DEF n
  <1>6. ASSUME NEW i \in 1 .. n, i <= q.at PROVE q.cells[q.at - i] = w[(n - i) + 1]
    BY <1>1, <1>5, <1>6 DEF Holds, n
  <1>7. ASSUME n < q.at PROVE q.cells[q.at - (n + 1)] = "mark"
    <2>1. n + 1 \in Nat /\ n + 1 # 0 /\ n + 1 <= q.at /\ n < p.at
      BY <1>1, <1>4, <1>7
    <2>2. q.cells[q.at - (n + 1)] = p.cells[p.at - (n + 1)]
      BY <1>5, <2>1
    <2>3. QED
      BY <2>1, <2>2 DEF Holds, n
  <1>8. ASSUME q.at <= n PROVE q.rows = BufferRows - 1
    <2>1. CASE e = 0
      <3>1. p.at <= n
        BY <1>1, <1>4, <1>8, <2>1
      <3>2. p.rows = BufferRows - 1 /\ p.rows <= q.rows
        BY <1>3, <2>1, <3>1 DEF Holds, n
      <3>3. QED
        BY <1>1, <3>2
    <2>2. CASE e # 0
      BY <1>3, <2>2
    <2>3. QED
      BY <2>1, <2>2
  <1>9. QED
    BY <1>6, <1>7, <1>8 DEF Holds, n

LEMMA PutHolds ==
    ASSUME NEW p, Sheet(p), NEW A, NEW w \in Seq(A), Holds(p, w), NEW c \in Cells \cap A
    PROVE  Holds(PagePut(p, c), Append(w, c))
  <1> DEFINE f == Filled(p, c)
             n == Len(w)
             x == Append(w, c)
  <1>1. /\ f \in PageRec /\ f.at = p.at + 1 /\ p.at \in Nat /\ p.at < Size /\ Size \in Nat
        /\ f.rows = p.rows /\ f.cells[p.at] = c
        /\ \A j \in Indices : j # p.at => f.cells[j] = p.cells[j]
    BY FilledFacts, Sizes
  <1>2. Sheet(PagePut(p, c)) /\ Shifts(f, PagePut(p, c))
    BY PutOnPage
  <1>3. /\ n \in Nat /\ x \in Seq(A) /\ Len(x) = n + 1 /\ x[n + 1] = c
        /\ \A i \in 1 .. n : x[i] = w[i]
    OBVIOUS
  <1> HIDE DEF f, n, x
  <1>4. ASSUME NEW i \in 1 .. n + 1, i <= f.at PROVE f.cells[f.at - i] = x[(n + 1 - i) + 1]
    <2>1. CASE i = 1
      <3>1. f.at - i = p.at /\ (n + 1 - i) + 1 = n + 1
        BY <1>1, <1>3, <2>1
      <3>2. QED
        BY <1>1, <1>3, <3>1
    <2>2. CASE i # 1
      <3>1. PICK k \in 1 .. n : k = i - 1
        BY <1>3, <2>2
      <3>2. PICK j \in Int : j = p.at - k
        BY <1>1
      <3>3. j \in Indices /\ j # p.at /\ f.at - i = j /\ k <= p.at
        BY <1>1, <1>3, <1>4, <3>1, <3>2 DEF Indices
      <3>4. p.cells[p.at - k] = w[(n - k) + 1]
        BY <3>3 DEF Holds, n
      <3>5. PICK m \in 1 .. n : m = (n - k) + 1 /\ m = (n + 1 - i) + 1
        BY <1>3, <3>1
      <3>6. QED
        BY <1>1, <1>3, <3>2, <3>3, <3>4, <3>5
    <2>3. QED
      BY <2>1, <2>2
  <1>5. ASSUME n + 1 < f.at PROVE f.cells[f.at - (n + 1 + 1)] = "mark"
    <2>1. PICK j \in Int : j = p.at - (n + 1)
      BY <1>1, <1>3
    <2>2. j \in Indices /\ j # p.at /\ f.at - (n + 1 + 1) = j /\ n < p.at
      BY <1>1, <1>3, <1>5, <2>1 DEF Indices
    <2>3. p.cells[j] = "mark"
      BY <2>1, <2>2 DEF Holds, n
    <2>4. QED
      BY <1>1, <2>2, <2>3
  <1>6. ASSUME f.at <= n + 1 PROVE f.rows = BufferRows - 1
    <2>1. p.at <= n
      BY <1>1, <1>3, <1>6
    <2>2. QED
      BY <1>1, <2>1 DEF Holds, n
  <1>7. Holds(f, x)
    BY <1>3, <1>4, <1>5, <1>6 DEF Holds
  <1>8. f.at \in Nat
    BY <1>1
  <1>9. QED
    BY <1>1, <1>2, <1>3, <1>7, <1>8, ShiftedHolds DEF x

\* A mark that has just been printed is in front of the cursor.
LEMMA MarkHolds ==
    ASSUME NEW p, Sheet(p)
    PROVE  Holds(PagePut(p, "mark"), <<>>)
  <1> DEFINE f == Filled(p, "mark")
  <1>1. "mark" \in Cells
    BY Constants
  <1>2. /\ f \in PageRec /\ f.at = p.at + 1 /\ p.at \in Nat /\ f.cells[p.at] = "mark"
    BY <1>1, FilledFacts
  <1>3. Sheet(PagePut(p, "mark")) /\ Shifts(f, PagePut(p, "mark"))
    BY <1>1, PutOnPage
  <1> HIDE DEF f
  <1>4. Len(<<>>) = 0 /\ <<>> \in Seq(Cells)
    OBVIOUS
  <1>5. f.at - (0 + 1) = p.at /\ ~ (f.at <= 0) /\ f.at \in Nat
    BY <1>2
  <1>6. Holds(f, <<>>)
    BY <1>2, <1>4, <1>5 DEF Holds
  <1>7. QED
    BY <1>2, <1>3, <1>4, <1>5, <1>6, ShiftedHolds

\* Backspace erases a character that was typed, and nothing else.
LEMMA ErasedHolds ==
    ASSUME NEW p, Sheet(p), p.at # 0, p.cells[p.at - 1] # "mark",
           NEW A, NEW w \in Seq(A), Holds(p, w)
    PROVE  w # <<>> /\ Holds(PageErased(p), Front(w))
  <1> DEFINE q == PageErased(p)
             n == Len(w)
             x == Front(w)
  <1>1. /\ p.at \in Nat \ {0} /\ q.at = p.at - 1 /\ p.at < Size /\ Size \in Nat
        /\ \A j \in Indices : j < p.at - 1 => q.cells[j] = p.cells[j]
        /\ p.rows = BufferRows - 1 => q.rows = BufferRows - 1
    BY ErasedFacts, Sizes DEF Sheet, Indices
  <1>2. n \in Nat
    OBVIOUS
  <1>3. n # 0
    <2> SUFFICES ASSUME n = 0 PROVE FALSE
      OBVIOUS
    <2>1. Len(w) < p.at /\ Len(w) + 1 = 1
      BY <1>1
    <2>2. QED
      BY <2>1 DEF Holds
  <1>4. Len(x) = n - 1 /\ \A i \in 1 .. n - 1 : x[i] = w[i]
    <2>1. PICK m \in Nat : m = n - 1 /\ m <= n
      <3> HIDE DEF n
      <3>1. n - 1 \in Nat /\ n - 1 <= n
        BY <1>2, <1>3
      <3>2. QED
        BY <3>1
    <2>2. x = SubSeq(w, 1, m) /\ 1 \in 1 .. m + 1 /\ m \in 0 .. n
      BY <2>1 DEF Front
    <2>3. Len(x) = m /\ \A i \in 1 .. m : x[i] = w[i]
      BY <2>1, <2>2
    <2>4. QED
      BY <2>1, <2>3
  <1> HIDE DEF q, n, x
  <1>5. ASSUME NEW i \in 1 .. n - 1, i <= q.at PROVE q.cells[q.at - i] = x[(n - 1 - i) + 1]
    <2>1. PICK k \in 1 .. n : k = i + 1
      BY <1>2
    <2>2. PICK j \in Int : j = p.at - k
      BY <1>1
    <2>3. j \in Indices /\ j < p.at - 1 /\ q.at - i = j /\ k <= p.at
      BY <1>1, <1>2, <1>5, <2>1, <2>2 DEF Indices
    <2>4. p.cells[p.at - k] = w[(n - k) + 1]
      BY <2>3 DEF Holds, n
    <2>5. PICK m \in 1 .. n - 1 : m = (n - k) + 1 /\ m = (n - 1 - i) + 1
      BY <1>2, <2>1
    <2>6. QED
      BY <1>1, <1>4, <2>2, <2>3, <2>4, <2>5
  <1>6. ASSUME n - 1 < q.at PROVE q.cells[q.at - (n - 1 + 1)] = "mark"
    <2>1. PICK j \in Int : j = p.at - (n + 1)
      BY <1>1, <1>2
    <2>2. j \in Indices /\ j < p.at - 1 /\ q.at - (n - 1 + 1) = j /\ n < p.at
      BY <1>1, <1>2, <1>3, <1>6, <2>1 DEF Indices
    <2>3. p.cells[j] = "mark"
      BY <2>1, <2>2 DEF Holds, n
    <2>4. QED
      BY <1>1, <2>2, <2>3
  <1>7. ASSUME q.at <= n - 1 PROVE q.rows = BufferRows - 1
    <2>1. p.at <= n
      BY <1>1, <1>2, <1>7
    <2>2. QED
      BY <1>1, <2>1 DEF Holds, n
  <1>8. Holds(q, x)
    BY <1>4, <1>5, <1>6, <1>7 DEF Holds
  <1>9. w # <<>>
    BY <1>3 DEF n
  <1>10. QED
    BY <1>8, <1>9 DEF q, x

LEMMA TabHolds ==
    ASSUME NEW p, Sheet(p), p.at # 0 \/ p.rows < BufferRows - 1,
           NEW A, NEW w \in Seq(A), Holds(p, w)
    PROVE  Holds(PageTab(p), w)
  <1>1. p \in PageRec /\ p.at \in Nat
    BY Sizes DEF Sheet, Indices
  <1>2. QED
    BY <1>1, TabOnPage, ShiftedHolds

\* Without deletions a buffer that is full is full to its last row.
LEMMA StraightHolds ==
    ASSUME NEW p, Straight(p), NEW A, NEW w \in Seq(A), Holds(p, w)
    PROVE  /\ p.at \in Nat \ {0}
           /\ p.at > Len(w) \/ p.at >= Top
  <1>1. p.at \in Nat /\ p.at \div Columns = p.rows /\ Len(w) \in Nat
        /\ Top \in Nat /\ Top >= Columns /\ Columns \in Nat \ {0}
        /\ BufferRows \in Nat
    BY Sizes, Constants DEF Straight, Sheet, Indices
  <1>2. ASSUME p.at <= Len(w) PROVE p.at >= Top
    <2>1. p.at \div Columns = BufferRows - 1
      BY <1>1, <1>2 DEF Holds
    <2>2. BufferRows - 1 <= p.at \div Columns
      BY <1>1, <2>1
    <2>3. QED
      BY <1>1, <2>2, RowOf
  <1>3. QED
    BY <1>1, <1>2

\* A string that ends in a mark leaves a prompt.
Asking(script) ==
    script \in Seq(Printable) /\ Len(script) # 0 /\ script[Len(script)] = "mark"

LEMMA Prompts ==
    /\ Asking(Prompt) /\ Asking(Controls \o Prompt)
    /\ \A out \in Outputs : Asking(Reply(out))
  <1>1. Asking(Prompt)
    BY Printables DEF Asking
  <1>2. ASSUME NEW s \in Seq(Printable) PROVE Asking(s \o Prompt)
    <2>1. /\ Prompt \in Seq(Printable) /\ Len(Prompt) \in Nat \ {0} /\ Len(s) \in Nat
          /\ Prompt[Len(Prompt)] = "mark"
      BY Printables
    <2>2. s \o Prompt \in Seq(Printable) /\ Len(s \o Prompt) = Len(s) + Len(Prompt)
      BY <2>1
    <2>3. (s \o Prompt)[Len(s) + Len(Prompt)] = Prompt[Len(Prompt)]
      BY <2>1
    <2>4. QED
      BY <2>1, <2>2, <2>3 DEF Asking
  <1>3. ASSUME NEW out \in Outputs PROVE Asking(Reply(out))
    <2>1. <<"newline">> \o out \in Seq(Printable)
      BY Printables DEF Printable
    <2>2. Asking((<<"newline">> \o out) \o Prompt)
      BY <1>2, <2>1
    <2>3. QED
      BY <2>2 DEF Reply
  <1>4. QED
    BY <1>1, <1>2, <1>3, Printables

LEMMA PromptFacts ==
    ASSUME NEW t, Good(t), NEW script, Asking(script)
    PROVE  LET u == PrintStr(t, script)
           IN  /\ Good(u) /\ Beside(t, u)
               /\ Holds(FrontPage(u), <<>>)
               /\ Extra(u) = 0 /\ CaretFollows(u)
               /\ AllStraight(t) => AllStraight(u)
  <1> DEFINE u == PrintStr(t, script)
             n == Len(script)
             V == {w \in TTY : /\ Good(w) /\ Beside(t, w)
                               /\ AllStraight(t) => AllStraight(w)}
  <1>1. /\ script \in Seq(Printable) /\ n \in Nat /\ n # 0 /\ script[n] = "mark"
        /\ "mark" \in Cells /\ "mark" # "newline"
    BY Constants DEF Asking
  <1>2. t \in V
    BY GoodFront DEF Beside
  <1>3. \A w \in V : \A c \in Printable : PrintOne(w, c) \in V
    <2> SUFFICES ASSUME NEW w \in V, NEW c \in Printable PROVE PrintOne(w, c) \in V
      OBVIOUS
    <2>1. Good(w) /\ Beside(t, w) /\ (AllStraight(t) => AllStraight(w))
      OBVIOUS
    <2>2. /\ Good(PrintOne(w, c)) /\ PrintOne(w, c).screen_index = w.screen_index
          /\ FrontPage(PrintOne(w, c)) =
               IF c = "newline" THEN PageLine(FrontPage(w)) ELSE PagePut(FrontPage(w), c)
          /\ \A s \in Screens \ {w.screen_index} : Page(PrintOne(w, c), s) = Page(w, s)
      BY <2>1, PrintOneFacts
    <2>3. Beside(t, PrintOne(w, c))
      BY <2>1, <2>2 DEF Beside
    <2>4. ASSUME AllStraight(w) PROVE AllStraight(PrintOne(w, c))
      <3>1. Straight(FrontPage(w))
        BY <2>1, <2>4, GoodFront DEF AllStraight, FrontPage
      <3>2. Straight(FrontPage(PrintOne(w, c)))
        BY <2>2, <3>1, Printables, PutStraight, LineStraight
      <3> SUFFICES ASSUME NEW s \in Screens PROVE Straight(Page(PrintOne(w, c), s))
        BY DEF AllStraight
      <3>3. CASE s = w.screen_index
        BY <2>2, <3>2, <3>3 DEF FrontPage
      <3>4. CASE s # w.screen_index
        BY <2>2, <2>4, <3>4 DEF AllStraight
      <3>5. QED
        BY <3>3, <3>4
    <2>5. QED
      BY <2>1, <2>2, <2>3, <2>4 DEF Good
  <1> HIDE DEF V
  <1>4. PICK pre \in [0 .. Len(script) -> V] :
          /\ PrintStr(t, script) = pre[Len(script)] /\ pre[0] = t
          /\ \A k \in 0 .. Len(script) - 1 : pre[k + 1] = PrintOne(pre[k], script[k + 1])
    <2>1. script \in Seq(Printable)
      BY <1>1
    <2>2. QED
      BY <1>2, <1>3, <2>1, PrintSteps, SMTT(30)
  <1>5. PICK w \in V : u = PrintChar(w, "mark") /\ u \in V
    <2>1. n - 1 \in 0 .. n - 1 /\ n - 1 \in 0 .. n /\ n \in 0 .. n /\ n - 1 + 1 = n
      BY <1>1
    <2>2. pre[n] = PrintOne(pre[n - 1], script[n])
      BY <1>4, <2>1
    <2>3. pre[n] \in V /\ pre[n - 1] \in V
      BY <2>1
    <2>4. QED
      BY <1>1, <1>4, <2>2, <2>3 DEF PrintOne
  <1> HIDE DEF u
  <1>6. Good(w) /\ (AllStraight(t) => AllStraight(w)) /\ w.screen_index \in Screens
        /\ Good(u) /\ Beside(t, u) /\ (AllStraight(t) => AllStraight(u))
    BY <1>5, GoodFront DEF V
  <1>7. FrontPage(u) = PagePut(FrontPage(w), "mark") /\ Extra(u) = 0 /\ CaretFollows(u)
    BY <1>1, <1>5, <1>6, PrintCharFacts DEF Turns
  <1>8. Holds(FrontPage(u), <<>>)
    BY <1>6, <1>7, GoodFront, MarkHolds
  <1>9. QED
    BY <1>6, <1>7, <1>8 DEF u

----------------------------------------------------------------------------
(* The actions *)

SamePages(t, u) == \A s \in Screens : Page(u, s) = Page(t, s)

LEMMA TurnsBeside ==
    ASSUME NEW t, NEW u, NEW p, Turns(t, u, p)
    PROVE  Beside(t, u) /\ FrontPage(u) = p
  BY DEF Turns, Beside

LEMMA BesideStraight ==
    ASSUME NEW t, AllStraight(t), NEW u, Beside(t, u), Straight(FrontPage(u))
    PROVE  AllStraight(u)
  <1> SUFFICES ASSUME NEW s \in Screens PROVE Straight(Page(u, s))
    BY DEF AllStraight
  <1>1. CASE s = t.screen_index
    BY <1>1 DEF Beside, FrontPage
  <1>2. CASE s # t.screen_index
    BY <1>2 DEF Beside, AllStraight
  <1>3. QED
    BY <1>1, <1>2

LEMMA LetterStep ==
    ASSUME Good(tty), NEW c \in Letters, TypeLetter(c)
    PROVE  /\ Good(tty') /\ Beside(tty, tty')
           /\ FrontPage(tty)' = PagePut(FrontPage(tty), c)
           /\ Extra(tty)' = 0 /\ CaretFollows(tty)'
           /\ typed' = [typed EXCEPT ![front] = Append(typed[front], c)]
           /\ UNCHANGED <<ctrl_pressed, kernel, prompted, spoiled>>
  <1>1. tty' = PrintChar(tty, c) /\ c \in Cells
    BY Constants DEF TypeLetter
  <1>2. /\ Turns(tty, tty', PagePut(FrontPage(tty), c)) /\ Good(tty')
        /\ Extra(tty') = 0 /\ CaretFollows(tty')
    BY <1>1, PrintCharFacts
  <1>3. Beside(tty, tty') /\ FrontPage(tty') = PagePut(FrontPage(tty), c)
    BY <1>2, TurnsBeside
  <1>4. /\ typed' = [typed EXCEPT ![front] = Append(typed[front], c)]
        /\ UNCHANGED <<ctrl_pressed, kernel, prompted, spoiled>>
    BY DEF TypeLetter
  <1>5. QED
    BY <1>2, <1>3, <1>4 DEF FrontPage, Page, Extra, CaretFollows, CursorIn

LEMMA TabStep ==
    ASSUME Good(tty), TypeControl
    PROVE  /\ Good(tty') /\ Beside(tty, tty')
           /\ FrontPage(tty') = PageTab(FrontPage(tty))
           /\ FrontPage(tty).at # 0 \/ FrontPage(tty).rows < BufferRows - 1
           /\ UNCHANGED <<ctrl_pressed, kernel, typed, prompted, spoiled>>
  <1>1. tty' = PrintChar(tty, "tab")
        /\ (tty.cursor_index > 0 \/ Total(tty) < BufferRows - 1)
        /\ UNCHANGED <<ctrl_pressed, kernel, typed, prompted, spoiled>>
    BY DEF TypeControl
  <1>2. Turns(tty, tty', PageTab(FrontPage(tty))) /\ Good(tty')
    BY <1>1, TabFacts
  <1>3. Beside(tty, tty') /\ FrontPage(tty') = PageTab(FrontPage(tty))
    BY <1>2, TurnsBeside
  <1>4. FrontPage(tty).at = tty.cursor_index /\ FrontPage(tty).rows = Total(tty)
        /\ tty.cursor_index \in Nat
    BY GoodFront
  <1>5. QED
    BY <1>1, <1>2, <1>3, <1>4

LEMMA BackspaceStep ==
    ASSUME Good(tty), Backspace
    PROVE  /\ Good(tty') /\ Beside(tty, tty')
           /\ FrontPage(tty).at # 0
           /\ FrontPage(tty).cells[FrontPage(tty).at - 1] # "mark"
           /\ FrontPage(tty') = PageErased(FrontPage(tty))
           /\ \/ typed[front] = <<>> /\ spoiled' = TRUE /\ typed' = typed
              \/ /\ typed[front] # <<>> /\ spoiled' = spoiled
                 /\ typed' = [typed EXCEPT ![front] = Front(typed[front])]
           /\ UNCHANGED <<ctrl_pressed, kernel, prompted>>
  <1>1. /\ ~DeleteStops(tty) /\ tty' = Refresh(Deleted(tty))
        /\ \/ typed[front] = <<>> /\ spoiled' = TRUE /\ typed' = typed
           \/ /\ typed[front] # <<>> /\ spoiled' = spoiled
              /\ typed' = [typed EXCEPT ![front] = Front(typed[front])]
        /\ UNCHANGED <<ctrl_pressed, kernel, prompted>>
    BY DEF Backspace
  <1>2. tty.cursor_index # 0 /\ Cell(tty, tty.cursor_index - 1) # "mark"
    BY <1>1 DEF DeleteStops
  <1>3. Turns(tty, tty', PageErased(FrontPage(tty))) /\ Good(tty')
    BY <1>1, <1>2, BackspaceFacts
  <1>4. Beside(tty, tty') /\ FrontPage(tty') = PageErased(FrontPage(tty))
    BY <1>3, TurnsBeside
  <1>5. /\ FrontPage(tty).at = tty.cursor_index /\ tty \in TTY
        /\ tty.cursor_index \in Nat /\ tty.cursor_index < Size /\ tty.screen_index \in Screens
    BY GoodFront
  <1>6. FrontPage(tty).cells[tty.cursor_index - 1] = Cell(tty, tty.cursor_index - 1)
    <2>1. tty.cursor_index - 1 \in Indices
      BY <1>2, <1>5, Sizes DEF Indices
    <2>2. FrontPage(tty).cells[tty.cursor_index - 1]
            = tty.stock[tty.screen_index * Size + (tty.cursor_index - 1)]
      BY <1>5, <2>1, PageFields DEF FrontPage
    <2>3. QED
      BY <2>2 DEF Cell, At
  <1>7. QED
    BY <1>1, <1>2, <1>3, <1>4, <1>5, <1>6

\* Every case of Enter that stays in the buffer ends with a prompt.
Entered == EnterNothing \/ EnterClear \/ \E out \in Outputs : EnterCommand(out)

LEMMA EnterStep ==
    ASSUME Good(tty), Entered
    PROVE  /\ Good(tty') /\ Beside(tty, tty') /\ Holds(FrontPage(tty'), <<>>)
           /\ Extra(tty') = 0 /\ CaretFollows(tty')
           /\ AllStraight(tty) => AllStraight(tty')
           /\ typed' = [typed EXCEPT ![front] = <<>>]
           /\ prompted' = prompted \cup {front}
           /\ UNCHANGED <<ctrl_pressed, kernel, spoiled>>
  <1>1. ASSUME NEW t, Good(t), Beside(tty, t), AllStraight(tty) => AllStraight(t),
               NEW script, Asking(script), NewPrompt(PrintStr(t, script))
        PROVE  /\ Good(tty') /\ Beside(tty, tty') /\ Holds(FrontPage(tty'), <<>>)
               /\ Extra(tty') = 0 /\ CaretFollows(tty')
               /\ AllStraight(tty) => AllStraight(tty')
               /\ typed' = [typed EXCEPT ![front] = <<>>]
               /\ prompted' = prompted \cup {front}
               /\ UNCHANGED <<ctrl_pressed, kernel, spoiled>>
    <2>1. /\ tty' = PrintStr(t, script)
          /\ typed' = [typed EXCEPT ![front] = <<>>]
          /\ prompted' = prompted \cup {front}
          /\ UNCHANGED <<ctrl_pressed, kernel, spoiled>>
      BY <1>1 DEF NewPrompt
    <2>2. /\ Good(tty') /\ Beside(t, tty') /\ Holds(FrontPage(tty'), <<>>)
          /\ Extra(tty') = 0 /\ CaretFollows(tty')
          /\ AllStraight(t) => AllStraight(tty')
      BY <1>1, <2>1, PromptFacts
    <2>3. Beside(tty, tty')
      BY <1>1, <2>2 DEF Beside
    <2>4. QED
      BY <1>1, <2>1, <2>2, <2>3
  <1>2. CASE EnterNothing
    BY <1>1, <1>2, Prompts DEF EnterNothing, Beside
  <1>3. CASE \E out \in Outputs : EnterCommand(out)
    BY <1>1, <1>3, Prompts DEF EnterCommand, Beside
  <1>4. CASE EnterClear
    <2> DEFINE n == PrintNewLine(tty)
               t == ClearScreen(n)
    <2>1. Good(n) /\ Beside(tty, n)
      BY NewLineFacts, TurnsBeside
    <2> HIDE DEF n
    <2>2. Good(t) /\ Beside(n, t) /\ FrontPage(t) = EmptyPage
      BY <2>1, ClearFacts, TurnsBeside
    <2> HIDE DEF t
    <2>3. Beside(tty, t)
      BY <2>1, <2>2 DEF Beside
    <2>4. AllStraight(tty) => AllStraight(t)
      BY <2>2, <2>3, EmptyFacts, BesideStraight
    <2>5. NewPrompt(PrintStr(t, Prompt))
      BY <1>4 DEF EnterClear, t, n
    <2>6. QED
      BY <1>1, <2>2, <2>3, <2>4, <2>5, Prompts
  <1>5. QED
    BY <1>2, <1>3, <1>4 DEF Entered

\* Everything else leaves the buffer as it is.
Quiet ==
    \/ CursorUnderflows \/ EnterUnderruns \/ ArrowUp \/ ArrowDown \/ Ctrl
    \/ \E s \in Screens : CtrlDigit(s)
    \/ UNCHANGED vars

LEMMA QuietStep ==
    ASSUME Good(tty), ctrl_pressed \in BOOLEAN, kernel \in {"running", "astray"}, Quiet
    PROVE  /\ Good(tty') /\ SamePages(tty, tty')
           /\ \/ tty' = tty
              \/ tty'.caret = last_char_index(View(tty')) + 1
           /\ tty'.screen_index # tty.screen_index => "ctrl" \in Keys
           /\ ctrl_pressed' \in BOOLEAN /\ kernel' \in {"running", "astray"}
           /\ UNCHANGED <<typed, prompted, spoiled>>
  <1>1. CASE CursorUnderflows \/ EnterUnderruns \/ Ctrl \/ UNCHANGED vars
    BY <1>1 DEF CursorUnderflows, EnterUnderruns, Ctrl, vars, SamePages
  <1>2. ASSUME NEW e \in 0 .. Short - 1,
               tty' = Display([tty EXCEPT !.extra_scroll[tty.screen_index] = e]),
               UNCHANGED <<ctrl_pressed, kernel, typed, prompted, spoiled>>
        PROVE  /\ Good(tty') /\ SamePages(tty, tty')
               /\ tty'.caret = last_char_index(View(tty')) + 1
               /\ tty'.screen_index = tty.screen_index
    <2> DEFINE w == [tty EXCEPT !.extra_scroll[tty.screen_index] = e]
    <2>1. /\ Good(tty') /\ tty'.screen_index = tty.screen_index
          /\ \A s \in Screens : Page(tty', s) = Page(tty, s)
      BY <1>2, ScrollFacts
    <2>2. w \in TTY
      <3>1. tty \in TTY /\ tty.screen_index \in Screens
        BY GoodFront
      <3>2. QED
        BY <3>1 DEF TTY
    <2>3. tty'.caret = last_char_index(View(tty')) + 1
      BY <1>2, <2>2, DisplayFacts
    <2>4. QED
      BY <2>1, <2>3 DEF SamePages
  <1>3. CASE ArrowUp
    <2>1. Extra(tty) \in 0 .. Short - 1 /\ Short \in Nat \ {0}
      BY GoodFront, TTYTypes, Constants
    <2>2. (Extra(tty) + 1) % Short \in 0 .. Short - 1
      BY <2>1
    <2>3. /\ tty' = Display([tty EXCEPT !.extra_scroll[tty.screen_index] = (Extra(tty) + 1) % Short])
          /\ UNCHANGED <<ctrl_pressed, kernel, typed, prompted, spoiled>>
      BY <1>3 DEF ArrowUp, Extra, front
    <2>4. QED
      BY <1>2, <2>2, <2>3
  <1>4. CASE ArrowDown
    <2>1. Extra(tty) \in 0 .. Short - 1 /\ Short \in Nat \ {0} /\ Extra(tty) > 0
      BY <1>4, GoodFront, TTYTypes, Constants DEF ArrowDown
    <2>2. Extra(tty) - 1 \in 0 .. Short - 1
      BY <2>1
    <2>3. /\ tty' = Display([tty EXCEPT !.extra_scroll[tty.screen_index] = Extra(tty) - 1])
          /\ UNCHANGED <<ctrl_pressed, kernel, typed, prompted, spoiled>>
      BY <1>4 DEF ArrowDown, Extra, front
    <2>4. QED
      BY <1>2, <2>2, <2>3
  <1>5. ASSUME NEW s \in Screens, CtrlDigit(s)
        PROVE  /\ Good(tty') /\ SamePages(tty, tty')
               /\ tty'.caret = last_char_index(View(tty')) + 1
               /\ "ctrl" \in Keys
               /\ UNCHANGED <<ctrl_pressed, kernel, typed, prompted, spoiled>>
    <2> DEFINE saved == [tty.stock_cursor_index EXCEPT ![tty.screen_index] = tty.cursor_index]
               w == [tty EXCEPT !.stock_cursor_index = saved, !.screen_index = s,
                                !.cursor_index = saved[s]]
    <2>1. /\ tty' = SwitchScreen(tty, s) /\ "ctrl" \in Keys
          /\ UNCHANGED <<ctrl_pressed, kernel, typed, prompted, spoiled>>
      BY <1>5 DEF CtrlDigit, Pressed
    <2>2. Good(tty') /\ SamePages(tty, tty')
      BY <2>1, SwitchFacts DEF SamePages
    <2>3. /\ tty \in TTY /\ tty.screen_index \in Screens /\ tty.cursor_index \in Nat
          /\ tty.stock_cursor_index \in [Screens -> Nat]
      BY GoodFront, TTYTypes
    <2>4. saved \in [Screens -> Nat] /\ saved[s] \in Int
      BY <2>3
    <2>5. tty' = Display(w)
      BY <2>1 DEF SwitchScreen
    <2> HIDE DEF saved
    <2>6. w \in TTY
      BY <2>3, <2>4 DEF TTY
    <2> HIDE DEF w
    <2>7. tty'.caret = last_char_index(View(tty')) + 1
      BY <2>5, <2>6, DisplayFacts
    <2>8. QED
      BY <2>1, <2>2, <2>7
  <1>6. QED
    BY <1>1, <1>3, <1>4, <1>5 DEF Quiet

LEMMA Steps ==
    ASSUME [Next]_vars
    PROVE  \/ \E c \in Letters : TypeLetter(c)
           \/ TypeControl \/ Backspace \/ Entered \/ Quiet
  BY DEF Next, Entered, Quiet

----------------------------------------------------------------------------
(* The screens are in order, whatever keys are pressed *)

TypeInv ==
    /\ Good(tty)
    /\ ctrl_pressed \in BOOLEAN /\ kernel \in {"running", "astray"}
    /\ typed \in [Screens -> Seq(Letters)]
    /\ prompted \in SUBSET Screens

LEMMA FrontInScreens == ASSUME Good(tty) PROVE front \in Screens
  BY GoodFront DEF front

LEMMA InitTypeInv == Init => TypeInv
  <1> SUFFICES ASSUME Init PROVE TypeInv
    OBVIOUS
  <1>1. Good(tty)
    BY StartFacts DEF Init
  <1>2. typed \in [Screens -> Seq(Letters)]
    BY DEF Init
  <1>3. prompted \in SUBSET Screens
    BY Constants DEF Init
  <1>4. QED
    BY <1>1, <1>2, <1>3 DEF Init, TypeInv

LEMMA NextTypeInv == TypeInv /\ [Next]_vars => TypeInv'
  <1> SUFFICES ASSUME TypeInv, [Next]_vars PROVE TypeInv'
    OBVIOUS
  <1>1. /\ Good(tty) /\ front \in Screens /\ typed \in [Screens -> Seq(Letters)]
        /\ ctrl_pressed \in BOOLEAN /\ kernel \in {"running", "astray"}
        /\ prompted \in SUBSET Screens
    BY FrontInScreens DEF TypeInv
  <1>2. CASE \E c \in Letters : TypeLetter(c)
    <2>1. PICK c \in Letters : TypeLetter(c)
      BY <1>2
    <2>2. /\ Good(tty') /\ typed' = [typed EXCEPT ![front] = Append(typed[front], c)]
          /\ UNCHANGED <<ctrl_pressed, kernel, prompted, spoiled>>
      BY <1>1, <2>1, LetterStep
    <2>3. Append(typed[front], c) \in Seq(Letters)
      BY <1>1
    <2>4. typed' \in [Screens -> Seq(Letters)]
      BY <1>1, <2>2, <2>3
    <2>5. QED
      BY <1>1, <2>2, <2>4 DEF TypeInv
  <1>3. CASE TypeControl
    BY <1>1, <1>3, TabStep DEF TypeInv
  <1>4. CASE Backspace
    <2>1. /\ Good(tty') /\ UNCHANGED <<ctrl_pressed, kernel, prompted>>
          /\ \/ typed' = typed
             \/ /\ typed[front] # <<>>
                /\ typed' = [typed EXCEPT ![front] = Front(typed[front])]
      BY <1>1, <1>4, BackspaceStep
    <2>2. typed[front] # <<>> => Front(typed[front]) \in Seq(Letters)
      <3>1. typed[front] \in Seq(Letters)
        BY <1>1
      <3>2. QED
        BY <3>1 DEF Front
    <2>3. typed' \in [Screens -> Seq(Letters)]
      BY <1>1, <2>1, <2>2
    <2>4. QED
      BY <1>1, <2>1, <2>3 DEF TypeInv
  <1>5. CASE Entered
    <2>1. /\ Good(tty') /\ typed' = [typed EXCEPT ![front] = <<>>]
          /\ prompted' = prompted \cup {front}
          /\ UNCHANGED <<ctrl_pressed, kernel, spoiled>>
      BY <1>1, <1>5, EnterStep
    <2>2. <<>> \in Seq(Letters)
      OBVIOUS
    <2>3. typed' \in [Screens -> Seq(Letters)] /\ prompted' \in SUBSET Screens
      BY <1>1, <2>1, <2>2
    <2>4. QED
      BY <1>1, <2>1, <2>3 DEF TypeInv
  <1>6. CASE Quiet
    BY <1>1, <1>6, QuietStep DEF TypeInv
  <1>7. QED
    BY <1>2, <1>3, <1>4, <1>5, <1>6, Steps

LEMMA TypeInvHolds == Spec => []TypeInv
  BY InitTypeInv, NextTypeInv, PTL DEF Spec

LEMMA TypesFromInv == TypeInv => TypeOK
  <1> SUFFICES ASSUME TypeInv PROVE TypeOK
    OBVIOUS
  <1>1. /\ Good(tty) /\ tty \in TTY
        /\ ctrl_pressed \in BOOLEAN /\ kernel \in {"running", "astray"}
    BY DEF TypeInv, Good
  <1>2. /\ tty.stock \in [CellsOfAll -> Cells] /\ tty.screen_index \in Screens
        /\ tty.screen_buffer \in [CellsShown -> Cells]
        /\ tty.total_row \in [Screens -> 0 .. BufferRows - 1]
        /\ tty.extra_scroll \in [Screens -> 0 .. Short - 1]
        /\ tty.caret \in 0 .. Rows * Columns
    BY <1>1, TTYTypes
  <1>3. ASSUME NEW s \in Screens PROVE CursorOf(s) \in 0 .. Size - 1
    <2>1. Sheet(Page(tty, s)) /\ Page(tty, s).at = CursorIn(tty, s)
      BY <1>1, PageFields DEF Good
    <2>2. QED
      BY <2>1 DEF Sheet, Indices, CursorIn, CursorOf, front
  <1>4. QED
    BY <1>1, <1>2, <1>3 DEF TypeOK, CellsOfAll, CellsShown

\* Cursors, counters and caret stay in their ranges on every screen: nothing is
\* written outside of the buffer or the video memory before the cursor
\* underflows.
THEOREM TypeCorrectness == Spec => []TypeOK
  BY TypeInvHolds, TypesFromInv, PTL

\* The video memory is the window of the buffer at the scroll position, after
\* any history of typing, deleting, scrolling and switching.
THEOREM VideoShowsBuffer == Spec => []ScreenShowsStock
  <1>1. TypeInv => ScreenShowsStock
    BY DEF TypeInv, Good, Shown, ScreenShowsStock
  <1>2. QED
    BY <1>1, TypeInvHolds, PTL

\* What a page says about the fields that OthersUntouched names.
LEMMA SamePage ==
    ASSUME NEW t \in TTY, NEW u \in TTY, NEW s \in Screens, Page(u, s) = Page(t, s)
    PROVE  /\ \A i \in s * Size .. (s + 1) * Size - 1 : u.stock[i] = t.stock[i]
           /\ u.total_row[s] = t.total_row[s]
           /\ CursorIn(u, s) = CursorIn(t, s)
  <1>1. ASSUME NEW i \in s * Size .. (s + 1) * Size - 1 PROVE u.stock[i] = t.stock[i]
    <2>1. s \in Nat /\ Size \in Nat /\ s * Size \in Nat /\ (s + 1) * Size = s * Size + Size
      <3>1. s \in Nat /\ Size \in Nat
        BY Sizes, Constants
      <3>2. QED
        BY <3>1
    <2>2. PICK j \in Int : j = i - s * Size
      BY <2>1
    <2>3. j \in Indices /\ s * Size + j = i
      BY <2>1, <2>2 DEF Indices
    <2>4. Page(u, s).cells[j] = u.stock[s * Size + j] /\ Page(t, s).cells[j] = t.stock[s * Size + j]
      BY <2>3, PageFields
    <2>5. QED
      BY <2>3, <2>4
  <1>2. QED
    BY <1>1, PageFields

\* Each screen keeps its cells, its row counter and its cursor while another one
\* is in front, although all of them share one array and one cursor variable.
THEOREM ScreensDoNotMix == Spec => OthersUntouched
  <1>1. TypeInv /\ TypeInv' /\ [Next]_vars =>
          [\A s \in {q \in Screens : q # front \/ q # front'} :
             /\ \A i \in s * Size .. (s + 1) * Size - 1 : tty'.stock[i] = tty.stock[i]
             /\ tty'.total_row[s] = tty.total_row[s]
             /\ CursorOf(s)' = CursorOf(s)]_vars
    <2> SUFFICES ASSUME TypeInv, TypeInv', [Next]_vars,
                        NEW s \in Screens, s # front \/ s # front'
                 PROVE  /\ \A i \in s * Size .. (s + 1) * Size - 1 :
                             tty'.stock[i] = tty.stock[i]
                        /\ tty'.total_row[s] = tty.total_row[s]
                        /\ CursorOf(s)' = CursorOf(s)
      OBVIOUS
    <2>1. Good(tty) /\ tty \in TTY /\ tty' \in TTY
          /\ ctrl_pressed \in BOOLEAN /\ kernel \in {"running", "astray"}
      BY DEF TypeInv, Good
    <2>2. Beside(tty, tty') \/ SamePages(tty, tty')
      BY <2>1, Steps, LetterStep, TabStep, BackspaceStep, EnterStep, QuietStep
    <2>3. Page(tty', s) = Page(tty, s)
      BY <2>2 DEF Beside, SamePages, front
    <2>4. CursorOf(s)' = CursorIn(tty', s) /\ CursorOf(s) = CursorIn(tty, s)
      BY DEF CursorOf, CursorIn, front
    <2>5. QED
      BY <2>1, <2>3, <2>4, SamePage
  <1>2. Spec => []([Next]_vars)
    BY PTL DEF Spec
  <1>3. QED
    BY <1>1, <1>2, TypeInvHolds, PTL DEF OthersUntouched

----------------------------------------------------------------------------
(* Backspace *)

\* On every screen that has had a prompt, what was typed since stands between
\* the last prompt and the cursor, as far as the buffer has kept it.
HoldInv == \A s \in prompted : Holds(Page(tty, s), typed[s])

LEMMA PagesBeside ==
    ASSUME NEW t, NEW u, Beside(t, u)
    PROVE  /\ FrontPage(u) = Page(u, t.screen_index)
           /\ \A s \in Screens \ {t.screen_index} : Page(u, s) = Page(t, s)
  BY DEF Beside, FrontPage

LEMMA InitHoldInv == Init => HoldInv /\ 0 \in prompted /\ tty.screen_index = 0 /\ ~spoiled
  <1> SUFFICES ASSUME Init
               PROVE  HoldInv /\ 0 \in prompted /\ tty.screen_index = 0 /\ ~spoiled
    OBVIOUS
  <1>1. tty = PrintStr(Started, Controls \o Prompt) /\ tty.screen_index = 0
    BY StartFacts DEF Init
  <1>2. Holds(FrontPage(tty), <<>>)
    BY <1>1, StartFacts, Prompts, PromptFacts
  <1>3. prompted = {0} /\ typed[0] = <<>> /\ spoiled = FALSE
    <2>1. 0 \in Screens
      BY Constants
    <2>2. typed[0] = <<>>
      BY <2>1 DEF Init
    <2>3. QED
      BY <2>2 DEF Init
  <1>4. QED
    BY <1>1, <1>2, <1>3 DEF HoldInv, FrontPage

LEMMA NextHoldInv == TypeInv /\ HoldInv /\ [Next]_vars => HoldInv'
  <1> SUFFICES ASSUME TypeInv, HoldInv, [Next]_vars PROVE HoldInv'
    OBVIOUS
  <1>1. /\ Good(tty) /\ front \in Screens /\ typed \in [Screens -> Seq(Letters)]
        /\ ctrl_pressed \in BOOLEAN /\ kernel \in {"running", "astray"}
        /\ prompted \in SUBSET Screens /\ front = tty.screen_index
        /\ Sheet(FrontPage(tty)) /\ FrontPage(tty) = Page(tty, front)
    BY FrontInScreens, GoodFront DEF TypeInv, front, FrontPage
  \* What has to be shown for a step that concerns the screen in front.
  <1>2. ASSUME Beside(tty, tty'), prompted' \in {prompted, prompted \cup {front}},
               NEW w \in Seq(Letters), typed' = [typed EXCEPT ![front] = w],
               front \in prompted' => Holds(FrontPage(tty'), w)
        PROVE  HoldInv'
    <2> SUFFICES ASSUME NEW s \in prompted' PROVE Holds(Page(tty', s), typed'[s])
      BY DEF HoldInv
    <2>1. s \in Screens
      BY <1>1, <1>2
    <2>2. CASE s = front
      BY <1>1, <1>2, <2>2, PagesBeside
    <2>3. CASE s # front
      BY <1>1, <1>2, <2>1, <2>3, PagesBeside DEF HoldInv
    <2>4. QED
      BY <2>2, <2>3
  <1>3. front \in prompted => Holds(FrontPage(tty), typed[front])
    BY <1>1 DEF HoldInv
  <1>4. typed[front] \in Seq(Letters)
        /\ typed = [typed EXCEPT ![front] = typed[front]]
    BY <1>1
  <1>5. CASE \E c \in Letters : TypeLetter(c)
    <2>1. PICK c \in Letters : TypeLetter(c)
      BY <1>5
    <2>2. /\ Beside(tty, tty') /\ FrontPage(tty') = PagePut(FrontPage(tty), c)
          /\ typed' = [typed EXCEPT ![front] = Append(typed[front], c)]
          /\ prompted' = prompted /\ c \in Cells
      BY <1>1, <2>1, LetterStep, Constants DEF FrontPage
    <2>3. Append(typed[front], c) \in Seq(Letters)
      BY <1>4
    <2>4. front \in prompted' => Holds(FrontPage(tty'), Append(typed[front], c))
      BY <1>1, <1>3, <1>4, <2>2, <2>3, PutHolds
    <2>5. QED
      BY <1>2, <2>2, <2>3, <2>4
  <1>6. CASE TypeControl
    <2>1. /\ Beside(tty, tty') /\ FrontPage(tty') = PageTab(FrontPage(tty))
          /\ FrontPage(tty).at # 0 \/ FrontPage(tty).rows < BufferRows - 1
          /\ typed' = typed /\ prompted' = prompted
      BY <1>1, <1>6, TabStep
    <2>2. front \in prompted' => Holds(FrontPage(tty'), typed[front])
      BY <1>1, <1>3, <1>4, <2>1, TabHolds
    <2>3. QED
      BY <1>2, <1>4, <2>1, <2>2
  <1>7. CASE Backspace
    <2>1. /\ Beside(tty, tty') /\ FrontPage(tty').at = FrontPage(tty').at
          /\ FrontPage(tty).at # 0
          /\ FrontPage(tty).cells[FrontPage(tty).at - 1] # "mark"
          /\ FrontPage(tty') = PageErased(FrontPage(tty))
          /\ \/ typed[front] = <<>> /\ typed' = typed
             \/ /\ typed[front] # <<>>
                /\ typed' = [typed EXCEPT ![front] = Front(typed[front])]
          /\ prompted' = prompted
      BY <1>1, <1>7, BackspaceStep
    <2>2. front \in prompted =>
            typed[front] # <<>> /\ Holds(FrontPage(tty'), Front(typed[front]))
      BY <1>1, <1>3, <1>4, <2>1, ErasedHolds
    <2>3. CASE typed[front] = <<>> /\ typed' = typed
      BY <1>2, <1>4, <2>1, <2>2, <2>3
    <2>4. CASE /\ typed[front] # <<>>
               /\ typed' = [typed EXCEPT ![front] = Front(typed[front])]
      <3>1. Front(typed[front]) \in Seq(Letters)
        BY <1>4, <2>4 DEF Front
      <3>2. QED
        BY <1>2, <2>1, <2>2, <2>4, <3>1
    <2>5. QED
      BY <2>1, <2>3, <2>4
  <1>8. CASE Entered
    <2>1. /\ Beside(tty, tty') /\ Holds(FrontPage(tty'), <<>>)
          /\ typed' = [typed EXCEPT ![front] = <<>>]
          /\ prompted' = prompted \cup {front}
      BY <1>1, <1>8, EnterStep
    <2>2. <<>> \in Seq(Letters)
      OBVIOUS
    <2>3. QED
      BY <1>2, <2>1, <2>2
  <1>9. CASE Quiet
    BY <1>1, <1>9, QuietStep DEF HoldInv, SamePages
  <1>10. QED
    BY <1>5, <1>6, <1>7, <1>8, <1>9, Steps

\* On a screen that has its prompt, nothing but typed characters is erased:
\* backspace with nothing typed finds the mark that ends the prompt.
LEMMA ErasesBehindPrompt ==
    ASSUME TypeInv, HoldInv, [Next]_vars, front \in prompted
    PROVE  spoiled' = spoiled
  <1>1. /\ Good(tty) /\ ctrl_pressed \in BOOLEAN /\ kernel \in {"running", "astray"}
        /\ Sheet(FrontPage(tty)) /\ FrontPage(tty) = Page(tty, front)
    BY GoodFront DEF TypeInv, front, FrontPage
  <1>2. CASE Backspace
    <2>1. Holds(FrontPage(tty), typed[front]) /\ typed[front] \in Seq(Letters)
      BY <1>1, FrontInScreens DEF HoldInv, TypeInv
    <2>2. FrontPage(tty).at # 0 /\ FrontPage(tty).cells[FrontPage(tty).at - 1] # "mark"
      BY <1>1, <1>2, BackspaceStep
    <2>3. typed[front] # <<>>
      BY <1>1, <2>1, <2>2, ErasedHolds
    <2>4. QED
      BY <1>1, <1>2, <2>3, BackspaceStep
  <1>3. CASE ~Backspace
    BY <1>1, <1>3, Steps, LetterStep, TabStep, EnterStep, QuietStep
  <1>4. QED
    BY <1>2, <1>3

LEMMA HoldInvHolds == Spec => [](TypeInv /\ HoldInv)
  <1>1. Init => HoldInv
    BY InitHoldInv
  <1>2. QED
    BY <1>1, InitTypeInv, NextTypeInv, NextHoldInv, PTL DEF Spec

\* What backspace may do wrong it does on a screen that has not had a prompt.
SpoilsUnprompted == [][(front \in prompted) => spoiled' = spoiled]_vars

\* With any number of screens, backspace erases something never typed only on a
\* screen that is still without a prompt.
THEOREM OnlyBannersAreErased == Spec => SpoilsUnprompted
  <1>1. TypeInv /\ HoldInv /\ [Next]_vars => [(front \in prompted) => spoiled' = spoiled]_vars
    BY ErasesBehindPrompt
  <1>2. Spec => []([Next]_vars)
    BY PTL DEF Spec
  <1>3. QED
    BY <1>1, <1>2, HoldInvHolds, PTL DEF SpoilsUnprompted

\* The user stays on the screen that main has given a prompt.
StaysHome == "ctrl" \notin Keys \/ ScreenCount = 1

HomeInv == tty.screen_index = 0 /\ 0 \in prompted /\ ~spoiled

LEMMA NextHomeInv ==
    ASSUME StaysHome, TypeInv, HoldInv, HomeInv, [Next]_vars
    PROVE  HomeInv'
  <1>1. /\ Good(tty) /\ ctrl_pressed \in BOOLEAN /\ kernel \in {"running", "astray"}
        /\ front \in prompted
    BY DEF TypeInv, HomeInv, front
  <1>2. spoiled' = spoiled
    BY <1>1, ErasesBehindPrompt
  <1>3. tty'.screen_index = 0
    <2>1. CASE ScreenCount = 1
      <3>1. TypeInv'
        BY NextTypeInv
      <3>2. tty'.screen_index \in Screens
        BY <3>1, GoodFront DEF TypeInv
      <3>3. QED
        BY <2>1, <3>2 DEF Screens
    <2>2. CASE "ctrl" \notin Keys
      <3>1. Beside(tty, tty') \/ tty'.screen_index = tty.screen_index
        BY <1>1, <2>2, Steps, LetterStep, TabStep, BackspaceStep, EnterStep, QuietStep
      <3>2. QED
        BY <3>1 DEF Beside, HomeInv
    <2>3. QED
      BY <2>1, <2>2 DEF StaysHome
  <1>4. prompted \subseteq prompted'
    BY <1>1, Steps, LetterStep, TabStep, BackspaceStep, EnterStep, QuietStep
  <1>5. QED
    BY <1>2, <1>3, <1>4 DEF HomeInv

\* Backspace erases nothing but what was typed, for every prompt that ends in
\* a mark, every size of the screen, and however deep the buffer has scrolled.
THEOREM BackspaceStopsAtPrompt == ASSUME StaysHome PROVE Spec => []ErasesOnlyTyped
  <1>1. Init => HomeInv
    BY InitHoldInv DEF HomeInv
  <1>2. TypeInv /\ HoldInv /\ HomeInv /\ [Next]_vars => HomeInv'
    BY NextHomeInv
  <1>3. HomeInv => ErasesOnlyTyped
    BY DEF HomeInv, ErasesOnlyTyped
  <1>4. QED
    BY <1>1, <1>2, <1>3, HoldInvHolds, PTL DEF Spec

----------------------------------------------------------------------------
(* Screens on which nothing is deleted *)

\* No key that deletes, and none that moves the row counter alone.
NoEditing == Keys \cap {"backspace", "tab"} = {}

StraightInv == AllStraight(tty)

LEMMA InitStraightInv == Init => StraightInv
  BY StartFacts DEF Init, StraightInv

LEMMA NextStraightInv ==
    ASSUME NoEditing, TypeInv, StraightInv, [Next]_vars
    PROVE  StraightInv'
  <1>1. /\ Good(tty) /\ ctrl_pressed \in BOOLEAN /\ kernel \in {"running", "astray"}
        /\ Straight(FrontPage(tty)) /\ AllStraight(tty)
    BY GoodFront DEF TypeInv, FrontPage, StraightInv, AllStraight
  <1>2. ~TypeControl /\ ~Backspace
    BY DEF NoEditing, TypeControl, Backspace, Pressed
  <1>3. CASE \E c \in Letters : TypeLetter(c)
    <2>1. PICK c \in Letters : TypeLetter(c)
      BY <1>3
    <2>2. Beside(tty, tty') /\ FrontPage(tty') = PagePut(FrontPage(tty), c) /\ c \in Cells
      BY <1>1, <2>1, LetterStep, Constants DEF FrontPage
    <2>3. Straight(FrontPage(tty'))
      BY <1>1, <2>2, PutStraight
    <2>4. QED
      BY <1>1, <2>2, <2>3, BesideStraight DEF StraightInv
  <1>4. CASE Entered
    BY <1>1, <1>4, EnterStep DEF StraightInv
  <1>5. CASE Quiet
    <2>1. SamePages(tty, tty')
      BY <1>1, <1>5, QuietStep
    <2>2. QED
      BY <1>1, <2>1 DEF StraightInv, AllStraight, SamePages
  <1>6. QED
    BY <1>2, <1>3, <1>4, <1>5, Steps

\* What stands in front of the cursor of a screen with a prompt can be seen.
LEMMA HoldsShows ==
    ASSUME NEW p, Straight(p), NEW w \in Seq(Letters), Holds(p, w)
    PROVE  p.at \in Nat \ {0} /\ p.cells[p.at - 1] # "blank"
  <1>1. p.at \in Nat \ {0} /\ Len(w) \in Nat
    BY StraightHolds
  <1>2. CASE Len(w) = 0
    <2>1. Len(w) < p.at /\ Len(w) + 1 = 1
      BY <1>1, <1>2
    <2>2. p.cells[p.at - 1] = "mark"
      BY <2>1 DEF Holds
    <2>3. QED
      BY <1>1, <2>2
  <1>3. CASE Len(w) # 0
    <2>1. 1 \in 1 .. Len(w) /\ 1 <= p.at /\ (Len(w) - 1) + 1 = Len(w)
          /\ Len(w) \in 1 .. Len(w)
      BY <1>1, <1>3
    <2>2. p.cells[p.at - 1] = w[Len(w)]
      BY <2>1 DEF Holds
    <2>3. w[Len(w)] \in Letters
      BY <2>1
    <2>4. QED
      BY <1>1, <2>2, <2>3, Constants
  <1>4. QED
    BY <1>1, <1>2, <1>3

\* The cell in front of the cursor is on the screen, unless that is one row high.
LEMMA CaretAtEnd ==
    ASSUME Rows >= 2, NEW t, Good(t), Straight(FrontPage(t)), Extra(t) = 0,
           t.cursor_index # 0, FrontPage(t).cells[t.cursor_index - 1] # "blank",
           t.caret = last_char_index(View(t)) + 1
    PROVE  t.caret = t.cursor_index - FirstShown(t) * Columns
  <1> DEFINE p == FrontPage(t)
             at == t.cursor_index
             first == FirstShown(t) * Columns
             k == at - 1 - first
             view == View(t)
  <1>1. /\ t \in TTY /\ p.at = at /\ p.rows = Total(t) /\ at \in Nat /\ at < Size
        /\ at \div Columns = Total(t) /\ Total(t) \in Nat
        /\ \A j \in Indices : at <= j => p.cells[j] = "blank"
    BY GoodFront, TTYTypes DEF Straight
  <1>2. /\ view \in [CellsShown -> Cells] /\ first \in Nat
        /\ \A i \in CellsShown : first + i \in Indices /\ view[i] = p.cells[first + i]
    BY <1>1, ViewFacts
  <1>3. FirstShown(t) \in Nat /\ Columns \in Nat \ {0} /\ Rows \in Nat
        /\ Rows * Columns \in Nat
    BY <1>1, FirstShownFacts, Constants, Sizes
  <1>4. k >= 0 /\ k < Rows * Columns
    <2>1. CASE Total(t) < Rows
      <3>1. FirstShown(t) = 0
        BY <1>1, <2>1, FirstShownFacts
      <3>2. first = 0
        BY <1>3, <3>1
      <3>3. at < Rows * Columns
        BY <1>1, <2>1, RowOf
      <3>4. QED
        BY <1>1, <1>3, <3>2, <3>3
    <2>2. CASE Total(t) >= Rows
      <3>1. FirstShown(t) = Total(t) - Rows + 1
        BY <1>1, <2>2, FirstShownFacts
      <3>2. PICK r \in Nat \ {0} : Rows = r + 1
        <4>1. Rows - 1 \in Nat \ {0}
          BY <1>3
        <4>2. QED
          BY <1>3, <4>1
      <3>3. PICK f \in Nat : f = FirstShown(t) /\ Total(t) = f + r
        BY <1>1, <1>3, <3>1, <3>2
      <3>4. Total(t) * Columns <= at /\ at < Total(t) * Columns + Columns
        BY <1>1, RowOf
      <3>5. (f + r) * Columns = f * Columns + r * Columns
            /\ (r + 1) * Columns = r * Columns + Columns
            /\ f * Columns \in Nat /\ r * Columns \in Nat
        BY <1>3, <3>2, <3>3
      <3>6. r * Columns >= Columns
        BY <1>3, <3>2
      <3>7. QED
        <4> DEFINE fc == f * Columns
                   rc == r * Columns
        <4>1. first = fc /\ Rows * Columns = rc + Columns /\ fc \in Nat /\ rc \in Nat
              /\ fc + rc <= at /\ at < fc + rc + Columns /\ rc >= Columns
          BY <3>2, <3>3, <3>4, <3>5, <3>6
        <4> HIDE DEF fc, rc, first
        <4>2. QED
          BY <1>1, <1>3, <4>1
    <2>3. QED
      BY <1>1, <1>3, <2>1, <2>2
  <1> HIDE DEF first, p, view
  <1>5. k \in CellsShown /\ first + k = at - 1
    BY <1>1, <1>2, <1>3, <1>4, SMTT(30) DEF CellsShown
  <1>6. view[k] # "blank"
    BY <1>2, <1>5 DEF p
  <1>7. ASSUME NEW i \in CellsShown, i > k PROVE view[i] = "blank"
    <2>1. first + i \in Indices /\ view[i] = p.cells[first + i]
      BY <1>2
    <2>2. at <= first + i
      BY <1>1, <1>2, <1>3, <1>7 DEF CellsShown
    <2>3. QED
      BY <1>1, <2>1, <2>2
  <1>8. last_char_index(view) = k
    <2>1. /\ last_char_index(view) \in CellsShown
          /\ last_char_index(view) # 0 => view[last_char_index(view)] # "blank"
          /\ k <= last_char_index(view)
      BY <1>2, <1>5, <1>6, LastCharFacts
    <2>2. CASE last_char_index(view) > k
      <3>1. last_char_index(view) # 0
        BY <1>4, <1>1, <1>2, <2>1, <2>2 DEF CellsShown
      <3>2. QED
        BY <1>7, <2>1, <2>2, <3>1
    <2>3. last_char_index(view) \in Nat /\ k \in Nat
      BY <1>5, <2>1 DEF CellsShown
    <2> HIDE DEF k
    <2>4. QED
      BY <2>1, <2>2, <2>3
  <1>9. t.caret = k + 1
    BY <1>8 DEF view
  <1>10. QED
    BY <1>1, <1>2, <1>9 DEF first

LEMMA CaretFromFollows ==
    ASSUME Rows >= 2, NEW t, Good(t), Straight(FrontPage(t)), Extra(t) = 0,
           t.cursor_index # 0, FrontPage(t).cells[t.cursor_index - 1] # "blank",
           CaretFollows(t)
    PROVE  t.caret = t.cursor_index - FirstShown(t) * Columns
  <1>1. CASE Total(t) < Rows
    <2>1. t \in TTY /\ t.cursor_index \in Nat
      BY GoodFront
    <2>2. FirstShown(t) = 0 /\ t.caret = t.cursor_index
      BY <1>1, <2>1, FirstShownFacts DEF CaretFollows
    <2>3. Columns \in Nat
      BY Constants
    <2>4. QED
      BY <2>1, <2>2, <2>3
  <1>2. CASE ~(Total(t) < Rows)
    BY <1>2, CaretAtEnd DEF CaretFollows
  <1>3. QED
    BY <1>1, <1>2

LEMMA NextCaret ==
    ASSUME NoEditing, Rows >= 2, TypeInv, TypeInv', HoldInv', StraightInv',
           CaretAtCursor, [Next]_vars
    PROVE  CaretAtCursor'
  <1> SUFFICES ASSUME front' \in prompted', Extra(tty') = 0
               PROVE  tty'.caret = tty'.cursor_index - FirstShown(tty') * Columns
    BY DEF CaretAtCursor, Extra, FirstShown, Total
  <1>1. /\ Good(tty) /\ Good(tty')
        /\ ctrl_pressed \in BOOLEAN /\ kernel \in {"running", "astray"}
        /\ typed' \in [Screens -> Seq(Letters)] /\ front' = tty'.screen_index
        /\ front' \in Screens
    BY GoodFront DEF TypeInv, front
  <1>2. /\ Straight(FrontPage(tty')) /\ Holds(FrontPage(tty'), typed'[front'])
        /\ typed'[front'] \in Seq(Letters)
    <2>1. FrontPage(tty') = Page(tty', front')
      BY <1>1 DEF FrontPage
    <2>2. QED
      BY <1>1, <2>1 DEF HoldInv, StraightInv, AllStraight
  <1>3. FrontPage(tty').at = tty'.cursor_index /\ tty'.cursor_index # 0
        /\ FrontPage(tty').cells[tty'.cursor_index - 1] # "blank"
    BY <1>1, <1>2, HoldsShows, GoodFront
  <1>4. ~TypeControl /\ ~Backspace
    BY DEF NoEditing, TypeControl, Backspace, Pressed
  <1>5. CASE (\E c \in Letters : TypeLetter(c)) \/ Entered
    <2>1. CaretFollows(tty')
      BY <1>1, <1>5, LetterStep, EnterStep DEF CaretFollows, Total, View, Cell, At, FirstShown, Extra
    <2>2. QED
      BY <1>1, <1>2, <1>3, <2>1, CaretFromFollows
  <1>6. CASE Quiet
    <2>1. \/ tty' = tty
          \/ tty'.caret = last_char_index(View(tty')) + 1
      BY <1>1, <1>6, QuietStep
    <2>2. CASE tty' = tty
      <3>1. prompted' = prompted
        BY <1>1, <1>6, QuietStep
      <3>2. QED
        BY <2>2, <3>1 DEF CaretAtCursor, Extra, FirstShown, Total, front
    <2>3. CASE tty'.caret = last_char_index(View(tty')) + 1
      BY <1>1, <1>2, <1>3, <2>3, CaretAtEnd
    <2>4. QED
      BY <2>1, <2>2, <2>3
  <1>7. QED
    BY <1>4, <1>5, <1>6, Steps

LEMMA InitCaret == ASSUME Rows >= 2 PROVE Init => CaretAtCursor
  <1> SUFFICES ASSUME Init, Extra(tty) = 0
               PROVE  tty.caret = tty.cursor_index - FirstShown(tty) * Columns
    BY DEF CaretAtCursor
  <1>1. TypeInv
    BY InitTypeInv
  <1>2. /\ tty = PrintStr(Started, Controls \o Prompt) /\ tty.screen_index = 0
        /\ Good(tty) /\ 0 \in Screens
    BY StartFacts, Constants DEF Init
  <1>3. CaretFollows(tty) /\ Holds(FrontPage(tty), <<>>) /\ AllStraight(tty)
    BY <1>2, StartFacts, Prompts, PromptFacts
  <1>4. Straight(FrontPage(tty))
    BY <1>2, <1>3 DEF AllStraight, FrontPage
  <1>5. <<>> \in Seq(Letters)
    OBVIOUS
  <1>6. FrontPage(tty).at = tty.cursor_index /\ tty.cursor_index # 0
        /\ FrontPage(tty).cells[tty.cursor_index - 1] # "blank"
    BY <1>2, <1>3, <1>4, <1>5, HoldsShows, GoodFront
  <1>7. QED
    BY <1>2, <1>3, <1>4, <1>6, CaretFromFollows

\* get_command reads back what Holds says is there.
LEMMA CommandRead ==
    ASSUME NEW t, Good(t), NEW w \in Seq(Letters), Holds(FrontPage(t), w), ~Underruns(t)
    PROVE  get_command(t) = LastOf(w, CommandSize)
  <1> DEFINE p == FrontPage(t)
             at == t.cursor_index
             len == Len(w)
             limit == CommandSize
             n == Min({len, limit})
             marks == {k \in 1 .. limit : k <= at /\ Cell(t, at - k) = "mark"}
             found == marks \cup {limit + 1}
  <1>1. /\ t \in TTY /\ t.screen_index \in Screens /\ p.at = at /\ at \in Nat /\ at < Size
        /\ len \in Nat /\ limit \in Nat /\ Size \in Nat
        /\ \A i \in 1 .. len : w[i] \in Letters
    BY GoodFront, Constants, Sizes
  <1>2. ASSUME NEW k \in 1 .. at PROVE Cell(t, at - k) = p.cells[at - k]
    <2>1. PICK j \in Int : j = at - k
      BY <1>1
    <2>2. j \in Indices
      BY <1>1, <2>1 DEF Indices
    <2>3. p.cells[j] = t.stock[t.screen_index * Size + j]
      BY <1>1, <2>2, PageFields DEF FrontPage
    <2>4. QED
      BY <2>1, <2>3 DEF Cell, At
  <1> HIDE DEF p
  \* The cell k back is the last but k - 1 of what was typed.
  <1>3. ASSUME NEW k \in 1 .. at, k <= len
        PROVE  Cell(t, at - k) = w[(len - k) + 1] /\ Cell(t, at - k) # "mark"
    <2>1. k \in 1 .. len /\ (len - k) + 1 \in 1 .. len /\ k <= at
      BY <1>1, <1>3
    <2>2. p.cells[at - k] = w[(len - k) + 1]
      BY <1>1, <2>1 DEF Holds, p
    <2>3. w[(len - k) + 1] \in Letters
      BY <1>1, <2>1
    <2>4. QED
      BY <1>2, <2>2, <2>3, Constants
  <1>4. ASSUME len < at PROVE Cell(t, at - (len + 1)) = "mark"
    <2>1. p.cells[at - (len + 1)] = "mark"
      BY <1>1, <1>4 DEF Holds, p
    <2>2. len + 1 \in 1 .. at
      BY <1>1, <1>4
    <2>3. QED
      BY <1>2, <2>1, <2>2
  <1>5. /\ Stop(t) \in found /\ Stop(t) \in Nat /\ Stop(t) - 1 <= at
        /\ \A x \in found : x \in Nat /\ Stop(t) <= x
    <2>1. Stop(t) = Min(found)
      BY DEF Stop
    <2>2. found \in SUBSET Nat /\ found # {}
      BY <1>1
    <2> HIDE DEF found
    <2>3. Min(found) \in found /\ \A x \in found : Min(found) <= x
      BY <2>2, MinOfNats
    <2>4. Stop(t) \in Nat
      BY <2>1, <2>2, <2>3
    <2>5. Stop(t) - 1 <= at
      BY <1>1, <2>4 DEF Underruns
    <2>6. QED
      BY <2>1, <2>2, <2>3, <2>4, <2>5
  <1>6. /\ n \in Nat /\ n <= len /\ n <= limit
        /\ n = len \/ n = limit
    <2>1. {len, limit} \in SUBSET Nat /\ {len, limit} # {}
      BY <1>1
    <2>2. n \in {len, limit} /\ \A x \in {len, limit} : n <= x
      BY <2>1, MinOfNats
    <2>3. QED
      BY <1>1, <2>2
  <1> HIDE DEF n
  <1>7. n + 1 <= Stop(t)
    <2>1. CASE Stop(t) \in marks
      <3>1. Stop(t) \in 1 .. at /\ Cell(t, at - Stop(t)) = "mark"
        BY <1>1, <2>1
      <3>2. ~ (Stop(t) <= len)
        BY <1>3, <3>1
      <3>3. QED
        BY <1>1, <1>5, <1>6, <3>2
    <2>2. CASE Stop(t) = limit + 1
      BY <1>1, <1>6, <2>2
    <2>3. QED
      BY <1>5, <2>1, <2>2
  <1>8. Stop(t) <= n + 1
    <2>1. CASE n = limit
      BY <1>5, <2>1
    <2>2. CASE n # limit
      <3>1. n = len /\ len < limit
        BY <1>1, <1>6, <2>2
      <3>2. len < at
        BY <1>1, <1>5, <1>6, <1>7, <3>1, <2>2
      <3>3. len + 1 \in marks
        <4>1. len + 1 \in 1 .. limit /\ len + 1 <= at
          BY <1>1, <3>1, <3>2
        <4>2. QED
          BY <1>4, <3>2, <4>1
      <3>4. QED
        BY <1>5, <3>1, <3>3
    <2>3. QED
      BY <2>1, <2>2
  <1> HIDE DEF marks, found
  <1>9. Stop(t) - 1 = n /\ n <= at
    BY <1>1, <1>5, <1>6, <1>7, <1>8
  <1>10. get_command(t) = [i \in 1 .. n |-> Cell(t, at - n + i - 1)]
    BY <1>9 DEF get_command
  <1>11. ASSUME NEW i \in 1 .. n
         PROVE  Cell(t, at - n + i - 1) = w[i + (len - n + 1) - 1]
    <2>1. PICK k \in Int : k = n - i + 1
      BY <1>6
    <2>2. k \in 1 .. at /\ k <= len /\ at - k = at - n + i - 1
          /\ (len - k) + 1 = i + (len - n + 1) - 1
      BY <1>1, <1>6, <1>9, <2>1
    <2>3. Cell(t, at - k) = w[(len - k) + 1]
      BY <1>3, <2>2
    <2>4. QED
      BY <2>2, <2>3
  <1>12. SubSeq(w, len - n + 1, len) = [i \in 1 .. n |-> w[i + (len - n + 1) - 1]]
    <2>0. len - n + 1 \in Int
      BY <1>1, <1>6
    <2>1. PICK a \in Int : a = len - n + 1
      BY <2>0, Zenon
    <2> DEFINE q == SubSeq(w, a, len)
    <2>2. /\ len \in Int /\ 1 .. len - a + 1 = 1 .. n /\ a .. len \subseteq 1 .. len
          /\ (a <= len) => len - a + 1 = n
          /\ ~(a <= len) => n = 0
          /\ \A i \in 1 .. n : a + i - 1 = i + (len - n + 1) - 1
      BY <1>1, <1>6, <2>1
    <2>3. \A i \in a .. len : w[i] \in Letters
      BY <1>1, <2>2
    <2>4. /\ q \in Seq(Letters)
          /\ Len(q) = IF a <= len THEN len - a + 1 ELSE 0
          /\ \A i \in 1 .. len - a + 1 : q[i] = w[a + i - 1]
      BY <2>2, <2>3, SubSeqProperties
    <2> HIDE DEF q
    <2>5. Len(q) = n /\ \A i \in 1 .. n : q[i] = w[i + (len - n + 1) - 1]
      BY <2>2, <2>4
    <2>6. q = [i \in 1 .. n |-> q[i]]
      BY <2>4, <2>5
    <2>7. QED
      BY <2>1, <2>5, <2>6 DEF q
  <1>13. get_command(t) = SubSeq(w, len - n + 1, len)
    BY <1>10, <1>11, <1>12
  <1>14. QED
    BY <1>13 DEF LastOf, n

\* Without deletions the reader finds the mark, or CommandSize characters, before
\* it comes to the first cell.
LEMMA StaysInside ==
    ASSUME CommandSize <= Top, NEW t, Good(t), Straight(FrontPage(t)),
           NEW w \in Seq(Letters), Holds(FrontPage(t), w)
    PROVE  ~Underruns(t)
  <1> DEFINE p == FrontPage(t)
             at == t.cursor_index
             len == Len(w)
             found == {k \in 1 .. CommandSize : k <= at /\ Cell(t, at - k) = "mark"}
                        \cup {CommandSize + 1}
  <1>1. /\ t \in TTY /\ t.screen_index \in Screens /\ p.at = at /\ at \in Nat /\ at < Size
        /\ len \in Nat /\ CommandSize \in Nat /\ Top \in Nat /\ Size \in Nat
    BY GoodFront, Constants, Sizes
  <1>2. at > len \/ at >= Top
    BY <1>1, StraightHolds
  <1>3. Stop(t) \in Nat /\ \A x \in found : Stop(t) <= x
    <2>1. Stop(t) = Min(found)
      BY DEF Stop
    <2>2. found \in SUBSET Nat /\ found # {}
      BY <1>1
    <2> HIDE DEF found
    <2>3. Min(found) \in found /\ \A x \in found : Min(found) <= x
      BY <2>2, MinOfNats
    <2>4. QED
      BY <2>1, <2>2, <2>3
  <1>4. Stop(t) <= CommandSize + 1
    BY <1>3
  <1>5. CASE CommandSize <= at
    BY <1>1, <1>3, <1>4, <1>5 DEF Underruns
  <1>6. CASE at < CommandSize
    <2>1. len < at /\ len + 1 \in 1 .. CommandSize /\ len + 1 <= at
      BY <1>1, <1>2, <1>6
    <2>2. PICK j \in Indices : j = at - (len + 1)
      BY <1>1, <2>1 DEF Indices
    <2>3. p.cells[j] = "mark"
      BY <1>1, <2>1, <2>2 DEF Holds
    <2>4. Cell(t, j) = "mark"
      BY <1>1, <2>2, <2>3, PageFields DEF FrontPage, Cell, At
    <2>5. len + 1 \in found
      BY <2>1, <2>2, <2>4
    <2>6. Stop(t) <= len + 1
      BY <1>3, <2>5
    <2>7. QED
      BY <1>1, <1>3, <2>1, <2>6 DEF Underruns
  <1>7. QED
    BY <1>1, <1>5, <1>6

LEMMA StraightInvHolds == ASSUME NoEditing PROVE Spec => [](TypeInv /\ StraightInv)
  <1>1. TypeInv /\ StraightInv /\ [Next]_vars => StraightInv'
    BY NextStraightInv
  <1>2. QED
    BY <1>1, InitStraightInv, InitTypeInv, NextTypeInv, PTL DEF Spec

\* On a screen with its prompt.
LEMMA FrontHolds ==
    ASSUME TypeInv, HoldInv, front \in prompted
    PROVE  /\ Good(tty) /\ typed[front] \in Seq(Letters)
           /\ Holds(FrontPage(tty), typed[front])
  <1>1. Good(tty) /\ front \in Screens /\ FrontPage(tty) = Page(tty, front)
    BY FrontInScreens DEF TypeInv, FrontPage, front
  <1>2. QED
    BY <1>1 DEF TypeInv, HoldInv

\* Without deletions the row counter is the row of the cursor, and the caret is
\* where the next character goes, on a screen of at least two rows: a row that
\* has just been filled is then still to be seen.
THEOREM ScreensAreSound ==
    ASSUME NoEditing, Rows >= 2 PROVE Spec => []ScreenSound
  <1>1. TypeInv /\ StraightInv => TypeOK /\ ScreenShowsStock /\ RowsMatchCursor
    <2> SUFFICES ASSUME TypeInv, StraightInv PROVE TypeOK /\ ScreenShowsStock /\ RowsMatchCursor
      OBVIOUS
    <2>1. TypeOK
      BY TypesFromInv
    <2>2. ScreenShowsStock
      BY DEF TypeInv, Good, Shown, ScreenShowsStock
    <2>3. RowsMatchCursor
      <3> SUFFICES ASSUME NEW s \in Screens
                   PROVE  tty.total_row[s] = CursorOf(s) \div Columns
        BY DEF RowsMatchCursor
      <3>1. tty \in TTY
        BY DEF TypeInv, Good
      <3>2. Page(tty, s).at = CursorOf(s) /\ Page(tty, s).rows = tty.total_row[s]
        BY <3>1, PageFields DEF CursorIn, CursorOf, front
      <3>3. Straight(Page(tty, s))
        BY DEF StraightInv, AllStraight
      <3>4. QED
        BY <3>2, <3>3 DEF Straight
    <2>4. QED
      BY <2>1, <2>2, <2>3
  <1>2. Init => CaretAtCursor
    BY InitCaret
  <1>3. TypeInv /\ TypeInv' /\ HoldInv' /\ StraightInv' /\ CaretAtCursor /\ [Next]_vars
          => CaretAtCursor'
    BY NextCaret
  <1>4. Spec => []CaretAtCursor
    BY <1>2, <1>3, HoldInvHolds, StraightInvHolds, PTL DEF Spec
  <1>5. TypeInv /\ StraightInv /\ CaretAtCursor => ScreenSound
    BY <1>1 DEF ScreenSound
  <1>6. QED
    BY <1>4, <1>5, StraightInvHolds, PTL

\* What Enter runs, if it stays in the buffer, is what was typed since the prompt
\* and not deleted, or the last CommandSize characters of it: after any deletions
\* and control characters, with the buffer scrolled under the command or not.
THEOREM EditedCommandsAreTyped == Spec => []EditedCommandIsTyped
  <1>1. TypeInv /\ HoldInv => EditedCommandIsTyped
    BY FrontHolds, CommandRead DEF EditedCommandIsTyped
  <1>2. QED
    BY <1>1, HoldInvHolds, PTL

\* On the screen with the prompt both hold together, for all keys but ctrl.
THEOREM PromptIsKept == ASSUME StaysHome PROVE Spec => []PromptKept
  <1>1. ErasesOnlyTyped /\ EditedCommandIsTyped => PromptKept
    BY DEF PromptKept
  <1>2. QED
    BY <1>1, BackspaceStopsAtPrompt, EditedCommandsAreTyped, PTL

\* On a screen with its prompt, where nothing is deleted, a command is not read
\* from outside of the buffer: the buffer keeps all of a command that fits it.
LEMMA PromptedInBuffer ==
    ASSUME CommandSize <= Top, TypeInv, HoldInv, StraightInv, front \in prompted
    PROVE  ~Underruns(tty)
  <1>1. /\ Good(tty) /\ typed[front] \in Seq(Letters)
        /\ Holds(FrontPage(tty), typed[front])
    BY FrontHolds
  <1>2. Straight(FrontPage(tty))
    BY <1>1, GoodFront DEF StraightInv, AllStraight, FrontPage
  <1>3. QED
    BY <1>1, <1>2, StaysInside

\* Without deletions Enter always runs what was typed since the prompt, or the
\* last CommandSize characters of it.
THEOREM CommandsAreTyped ==
    ASSUME NoEditing, CommandSize <= Top PROVE Spec => []CommandIsTyped
  <1>1. TypeInv /\ HoldInv /\ StraightInv => CommandIsTyped
    BY FrontHolds, CommandRead, PromptedInBuffer DEF CommandIsTyped
  <1>2. QED
    BY <1>1, HoldInvHolds, StraightInvHolds, PTL

\* On the screen with the prompt, where nothing is deleted, a command is never
\* read from outside of the buffer.
THEOREM CommandsStayInBuffer ==
    ASSUME NoEditing, StaysHome, CommandSize <= Top PROVE Spec => []CommandInBuffer
  <1>1. TypeInv /\ HoldInv /\ StraightInv /\ HomeInv => CommandInBuffer
    BY PromptedInBuffer DEF HomeInv, front, CommandInBuffer
  <1>2. Init => HomeInv
    BY InitHoldInv DEF HomeInv
  <1>3. TypeInv /\ HoldInv /\ HomeInv /\ [Next]_vars => HomeInv'
    BY NextHomeInv
  <1>4. QED
    BY <1>1, <1>2, <1>3, HoldInvHolds, StraightInvHolds, PTL DEF Spec

----------------------------------------------------------------------------
(* The text of a page: its rows up to the one of the cursor, each without  *)
(* the blanks at its end                                                   *)

Offsets == 0 .. Columns - 1
CellsOfRow(p, r) == [c \in Offsets |-> p.cells[r * Columns + c]]
Trim(row) ==
    LET used == {c \in Offsets : row[c] # "blank"}
    IN  [i \in 1 .. Max({0} \cup {c + 1 : c \in used}) |-> row[i - 1]]
RowsOf(p, k) == [r \in 1 .. k |-> Trim(CellsOfRow(p, r - 1))]
PageText(p) == RowsOf(p, p.at \div Columns + 1)

\* There is no gap in front of the cursor either.
Neat(p) ==
    /\ Straight(p)
    /\ \A j \in Indices : (p.at \div Columns) * Columns <= j /\ j < p.at
                            => p.cells[j] # "blank"

LEMMA CellInRow ==
    ASSUME NEW r \in 0 .. BufferRows - 1, NEW c \in Offsets
    PROVE  /\ r \in Nat /\ c \in Nat /\ c < Columns /\ r * Columns \in Nat
           /\ r * Columns + c \in Indices
           /\ r < BufferRows - 1 => /\ r + 1 \in 0 .. BufferRows - 1
                                    /\ r * Columns + c < Top
                                    /\ (r * Columns + c) + Columns = (r + 1) * Columns + c
  <1>1. /\ Columns \in Nat \ {0} /\ BufferRows \in Nat \ {0} /\ r \in Nat /\ c \in Nat
        /\ c < Columns /\ r <= BufferRows - 1
    BY Constants DEF Offsets
  <1>2. Size \in Nat /\ Top \in Nat /\ Size = Top + Columns
    BY Sizes
  <1>3. /\ r * Columns \in Nat /\ r * Columns <= Top
        /\ (r + 1) * Columns = r * Columns + Columns
        /\ r < BufferRows - 1 => (r + 1) * Columns <= Top
    BY <1>1, TimesMonotonic DEF Top
  <1>4. r * Columns + c \in Indices
    BY <1>1, <1>2, <1>3 DEF Indices
  <1>5. r < BufferRows - 1 => /\ r + 1 \in 0 .. BufferRows - 1
                              /\ r * Columns + c < Top
                              /\ (r * Columns + c) + Columns = (r + 1) * Columns + c
    BY <1>1, <1>2, <1>3
  <1>6. QED
    BY <1>1, <1>3, <1>4, <1>5

LEMMA TrimType ==
    ASSUME NEW row \in [Offsets -> Cells]
    PROVE  Trim(row) \in Seq(Cells)
  <1> DEFINE used == {c \in Offsets : row[c] # "blank"}
             S == {0} \cup {c + 1 : c \in used}
  <1>1. Columns \in Nat
    BY Constants
  <1>2. S \in SUBSET Nat /\ S # {} /\ \A m \in S : m <= Columns
    BY <1>1 DEF Offsets
  <1> HIDE DEF S
  <1>3. Max(S) \in Nat /\ Max(S) <= Columns
    BY <1>1, <1>2, MaxOfNats
  <1>4. PICK n \in Nat : n = Max(S) /\ n <= Columns
    BY <1>3
  <1>5. \A i \in 1 .. n : row[i - 1] \in Cells
    BY <1>1, <1>4 DEF Offsets
  <1>6. [i \in 1 .. n |-> row[i - 1]] \in Seq(Cells)
    BY <1>5
  <1>7. Trim(row) = [i \in 1 .. Max(S) |-> row[i - 1]]
    BY DEF Trim, S
  <1>8. QED
    BY <1>4, <1>6, <1>7

LEMMA TrimOf ==
    ASSUME NEW row, NEW n \in 0 .. Columns, \A c \in Offsets : c < n <=> row[c] # "blank"
    PROVE  Trim(row) = [i \in 1 .. n |-> row[i - 1]]
  <1> DEFINE used == {c \in Offsets : row[c] # "blank"}
             S == {0} \cup {c + 1 : c \in used}
  <1>1. Columns \in Nat /\ n \in Nat /\ n <= Columns
    BY Constants
  <1>2. S \in SUBSET Nat /\ S # {} /\ \A m \in S : m <= n
    BY <1>1 DEF Offsets
  <1>3. n \in S
    <2>1. CASE n = 0
      BY <2>1
    <2>2. CASE n # 0
      <3>1. n - 1 \in Offsets /\ n - 1 < n /\ n - 1 + 1 = n
        BY <1>1, <2>2 DEF Offsets
      <3>2. n - 1 \in used
        BY <3>1
      <3>3. QED
        BY <3>1, <3>2
    <2>3. QED
      BY <2>1, <2>2
  <1> HIDE DEF S
  <1>4. Max(S) \in S /\ \A m \in S : m <= Max(S)
    BY <1>1, <1>2, MaxOfNats
  <1>5. Max(S) = n
    <2>1. Max(S) \in Nat /\ Max(S) <= n /\ n <= Max(S)
      BY <1>2, <1>3, <1>4, Zenon
    <2>2. QED
      BY <1>1, <2>1
  <1>6. QED
    BY <1>5 DEF Trim, S

LEMMA RowsType ==
    ASSUME NEW p \in PageRec, NEW k \in 0 .. BufferRows
    PROVE  /\ RowsOf(p, k) \in Seq(Seq(Cells)) /\ Len(RowsOf(p, k)) = k
           /\ \A r \in 1 .. k : RowsOf(p, k)[r] = Trim(CellsOfRow(p, r - 1))
  <1>1. BufferRows \in Nat /\ k \in Nat
    BY Constants
  <1>2. ASSUME NEW r \in 1 .. k PROVE Trim(CellsOfRow(p, r - 1)) \in Seq(Cells)
    <2>1. PICK q \in 0 .. BufferRows - 1 : q = r - 1
      BY <1>1
    <2>2. CellsOfRow(p, q) \in [Offsets -> Cells]
      BY CellInRow, PageTypes DEF CellsOfRow
    <2>3. QED
      BY <2>1, <2>2, TrimType
  <1> DEFINE row(r) == Trim(CellsOfRow(p, r - 1))
  <1>3. \A r \in 1 .. k : row(r) \in Seq(Cells)
    BY <1>2
  <1>4. RowsOf(p, k) = [r \in 1 .. k |-> row(r)]
    BY DEF RowsOf
  <1> HIDE DEF row
  <1>5. /\ RowsOf(p, k) \in Seq(Seq(Cells)) /\ Len(RowsOf(p, k)) = k
        /\ \A r \in 1 .. k : RowsOf(p, k)[r] = row(r)
    BY <1>1, <1>3, <1>4
  <1>6. QED
    BY <1>5 DEF row

\* Rows with the same cells have the same text.
LEMMA RowsSame ==
    ASSUME NEW p, NEW q, NEW k \in 0 .. BufferRows, NEW d \in Nat,
           \A r \in 0 .. k - 1 : \A c \in Offsets :
             q.cells[r * Columns + c] = p.cells[(r + d) * Columns + c]
    PROVE  \A r \in 1 .. k : Trim(CellsOfRow(q, r - 1)) = Trim(CellsOfRow(p, r - 1 + d))
  <1> SUFFICES ASSUME NEW r \in 1 .. k
               PROVE  CellsOfRow(q, r - 1) = CellsOfRow(p, r - 1 + d)
    OBVIOUS
  <1>1. PICK e \in 0 .. k - 1 : e = r - 1
    BY Constants
  <1>2. CellsOfRow(q, e) = CellsOfRow(p, e + d)
    BY DEF CellsOfRow
  <1>3. QED
    BY <1>1, <1>2

LEMMA RowBlank ==
    ASSUME NEW p, NEW r, \A c \in Offsets : p.cells[r * Columns + c] = "blank"
    PROVE  Trim(CellsOfRow(p, r)) = <<>>
  <1> DEFINE row == CellsOfRow(p, r)
  <1>1. PICK z \in Nat : z = 0
    OBVIOUS
  <1>2. z \in 0 .. Columns /\ \A c \in Offsets : ~ (c < z)
    BY <1>1, Constants DEF Offsets
  <1>3. \A c \in Offsets : row[c] = "blank"
    BY DEF CellsOfRow
  <1> HIDE DEF row
  <1>4. Trim(row) = [i \in 1 .. z |-> row[i - 1]]
    BY <1>2, <1>3, TrimOf
  <1>5. QED
    BY <1>1, <1>4 DEF row

\* A row has ended: the text gains an empty row, and loses its oldest one if
\* the buffer is full.
LEMMA RowEnded ==
    ASSUME NEW p, Ended(p), p.at \div Columns - 1 = p.rows,
           \A j \in Indices : p.at <= j => p.cells[j] = "blank"
    PROVE  /\ p.at \div Columns \in 1 .. BufferRows
           /\ PageText(PageRow(p)) = Abstract!Keep(Append(RowsOf(p, p.at \div Columns), <<>>))
  <1> DEFINE k == p.at \div Columns
             q == PageRow(p)
             rows == RowsOf(p, k)
             more == Append(rows, <<>>)
  <1>1. /\ p \in PageRec /\ p.at \in Nat /\ p.at <= Size /\ Columns <= p.at
        /\ p.at % Columns = 0 /\ Columns \in Nat \ {0} /\ BufferRows \in Nat \ {0}
        /\ p.rows \in 0 .. BufferRows - 1
    BY Constants, PageTypes DEF Ended
  <1>2. k \in Nat /\ p.at = k * Columns + (p.at % Columns) /\ k * Columns \in Nat
    <2>1. k \in Nat /\ p.at = k * Columns + (p.at % Columns)
      BY <1>1, DivMod
    <2> HIDE DEF k
    <2>2. QED
      BY <1>1, <2>1
  <1>3. k * Columns = p.at /\ k - 1 = p.rows
    BY <1>1, <1>2
  <1> HIDE DEF k
  <1>4. k \in 1 .. BufferRows /\ k \in 0 .. BufferRows
    <2>1. PICK n \in 0 .. BufferRows - 1 : n = p.rows
      BY <1>1
    <2>2. k = n + 1 /\ BufferRows \in Nat
      BY <1>1, <1>2, <1>3, <2>1
    <2>3. QED
      BY <2>1, <2>2
  <1>5. /\ rows \in Seq(Seq(Cells)) /\ Len(rows) = k
        /\ \A r \in 1 .. k : rows[r] = Trim(CellsOfRow(p, r - 1))
    BY <1>1, <1>4, RowsType
  <1> HIDE DEF rows
  <1>6. /\ more \in Seq(Seq(Cells)) /\ Len(more) = k + 1 /\ more[k + 1] = <<>>
        /\ \A r \in 1 .. k : more[r] = rows[r]
    BY <1>2, <1>5
  <1> HIDE DEF more
  <1>7. Sheet(q) /\ q \in PageRec
    BY PageRowFacts DEF Sheet
  <1>8. CASE p.rows # BufferRows - 1
    <2>1. q.at = p.at /\ q.cells = p.cells
      BY <1>8 DEF PageRow
    <2>2. k + 1 \in 0 .. BufferRows /\ k \in 0 .. BufferRows - 1
      BY <1>1, <1>2, <1>3, <1>8
    <2>3. PageText(q) = RowsOf(q, k + 1)
      BY <2>1 DEF PageText, k
    <2>4. /\ RowsOf(q, k + 1) \in Seq(Seq(Cells)) /\ Len(RowsOf(q, k + 1)) = k + 1
          /\ \A r \in 1 .. k + 1 : RowsOf(q, k + 1)[r] = Trim(CellsOfRow(q, r - 1))
      BY <1>7, <2>2, RowsType
    <2>5. Trim(CellsOfRow(p, k)) = <<>>
      <3>1. \A c \in Offsets : k * Columns + c \in Indices /\ p.at <= k * Columns + c
        BY <1>1, <1>3, <2>2, CellInRow
      <3>2. \A c \in Offsets : p.cells[k * Columns + c] = "blank"
        BY <3>1
      <3>3. QED
        BY <3>2, RowBlank
    <2>6. \A r : CellsOfRow(q, r) = CellsOfRow(p, r)
      BY <2>1 DEF CellsOfRow
    <2>7. ASSUME NEW r \in 1 .. k + 1 PROVE RowsOf(q, k + 1)[r] = more[r]
      <3>1. CASE r = k + 1
        <4>1. r - 1 = k
          BY <1>2, <3>1
        <4>2. QED
          BY <1>6, <2>4, <2>5, <2>6, <3>1, <4>1
      <3>2. CASE r # k + 1
        <4>1. r \in 1 .. k
          BY <1>2, <3>2
        <4>2. QED
          BY <1>5, <1>6, <2>4, <2>6, <4>1
      <3>3. QED
        BY <3>1, <3>2
    <2>8. RowsOf(q, k + 1) = more
      BY <1>2, <1>6, <2>4, <2>7
    <2>9. ~ (Len(more) > BufferRows)
      BY <1>1, <1>6, <2>2
    <2>10. QED
      BY <1>4, <2>3, <2>8, <2>9 DEF Abstract!Keep, more, rows, k
  <1>9. CASE p.rows = BufferRows - 1
    <2>1. q = PageUp(p) /\ k = BufferRows
      BY <1>1, <1>2, <1>3, <1>9 DEF PageRow
    <2>2. q.at \div Columns = k - 1
      <3>1. q.at = p.at - Columns /\ (p.at - Columns) \div Columns = p.at \div Columns - 1
        BY <1>1, <2>1, RowAbove DEF PageUp
      <3>2. QED
        BY <3>1 DEF k
    <2>3. PageText(q) = RowsOf(q, k)
      <3>1. k - 1 + 1 = k
        BY <1>2
      <3>2. QED
        BY <2>2, <3>1 DEF PageText
    <2>4. /\ RowsOf(q, k) \in Seq(Seq(Cells)) /\ Len(RowsOf(q, k)) = k
          /\ \A r \in 1 .. k : RowsOf(q, k)[r] = Trim(CellsOfRow(q, r - 1))
      BY <1>4, <1>7, RowsType
    <2>5. /\ \A j \in Indices : Top <= j => q.cells[j] = "blank"
          /\ \A j \in Indices : j < Top => q.cells[j] = p.cells[j + Columns]
      BY <1>9, <2>1, PageUpFacts
    <2>6. ASSUME NEW r \in 1 .. k PROVE RowsOf(q, k)[r] = more[r + 1]
      <3>1. PICK e \in 0 .. BufferRows - 1 : e = r - 1
        BY <1>1, <2>1
      <3>2. CASE r = k
        <4>1. e * Columns = Top
          BY <2>1, <3>1, <3>2 DEF Top
        <4>2. \A c \in Offsets : e * Columns + c \in Indices /\ Top <= e * Columns + c
          BY <4>1, CellInRow
        <4>3. \A c \in Offsets : q.cells[e * Columns + c] = "blank"
          BY <2>5, <4>2
        <4>4. QED
          BY <1>6, <2>4, <3>1, <3>2, <4>3, RowBlank
      <3>3. CASE r # k
        <4>1. e < BufferRows - 1 /\ r + 1 \in 1 .. k /\ e + 1 = r + 1 - 1
          BY <1>1, <2>1, <3>1, <3>3
        <4>2. ASSUME NEW c \in Offsets
              PROVE  q.cells[e * Columns + c] = p.cells[(e + 1) * Columns + c]
          <5>1. /\ e * Columns + c \in Indices /\ e * Columns + c < Top
                /\ (e * Columns + c) + Columns = (e + 1) * Columns + c
            BY <4>1, CellInRow
          <5>2. q.cells[e * Columns + c] = p.cells[(e * Columns + c) + Columns]
            BY <2>5, <5>1
          <5>3. QED
            BY <5>1, <5>2
        <4>3. CellsOfRow(q, e) = CellsOfRow(p, e + 1)
          BY <4>2 DEF CellsOfRow
        <4>4. more[r + 1] = Trim(CellsOfRow(p, r + 1 - 1))
          BY <1>5, <1>6, <4>1
        <4>5. QED
          BY <2>4, <3>1, <4>1, <4>3, <4>4
      <3>4. QED
        BY <3>2, <3>3
    <2>7. /\ Tail(more) \in Seq(Seq(Cells)) /\ Len(Tail(more)) = k
          /\ \A r \in 1 .. k : Tail(more)[r] = more[r + 1]
      BY <1>2, <1>6
    <2>8. RowsOf(q, k) = Tail(more)
      <3> DEFINE new == RowsOf(q, k)
                 old == Tail(more)
      <3>1. \A r \in 1 .. k : new[r] = old[r]
        BY <2>6, <2>7
      <3>2. new = [r \in 1 .. k |-> new[r]]
        BY <2>4
      <3> HIDE DEF new
      <3>3. old = [r \in 1 .. k |-> old[r]]
        <4>1. old \in Seq(Seq(Cells)) /\ Len(old) = k
          BY <2>7
        <4> HIDE DEF old
        <4>2. QED
          BY <4>1
      <3> HIDE DEF old
      <3>4. new = old
        BY <3>1, <3>2, <3>3
      <3>5. QED
        BY <3>4 DEF new, old
    <2>9. Len(more) > BufferRows
      BY <1>1, <1>6, <2>1
    <2>10. QED
      BY <1>4, <2>3, <2>8, <2>9 DEF Abstract!Keep, more, rows, k
  <1>10. QED
    BY <1>8, <1>9

\* The row of the cursor.
LEMMA CursorRow ==
    ASSUME NEW p, Neat(p)
    PROVE  LET q == p.at \div Columns
               m == p.at % Columns
           IN  /\ p \in PageRec /\ p.at \in Nat /\ p.at < Size
               /\ q \in 0 .. BufferRows - 1 /\ q + 1 \in 0 .. BufferRows
               /\ m \in Nat /\ m < Columns /\ p.at = q * Columns + m /\ q * Columns \in Nat
               /\ Trim(CellsOfRow(p, q)) = [i \in 1 .. m |-> p.cells[q * Columns + (i - 1)]]
  <1> DEFINE q == p.at \div Columns
             m == p.at % Columns
             row == CellsOfRow(p, q)
  <1>1. Straight(p) /\ Sheet(p) /\ p \in PageRec /\ p.at \in Indices
    BY DEF Neat, Straight, Sheet
  <1>2. /\ p.at \in Nat /\ p.at < Size /\ Columns \in Nat \ {0} /\ BufferRows \in Nat \ {0}
    BY <1>1, Constants, Sizes DEF Indices
  <1>3. q \in Nat /\ m \in Nat /\ m < Columns /\ p.at = q * Columns + m
    BY <1>2, DivMod
  <1>4. q <= BufferRows - 1
    BY <1>2, RowOf
  <1>5. \A j \in Indices : p.at <= j => p.cells[j] = "blank"
    BY <1>1 DEF Straight
  <1>6. \A j \in Indices : q * Columns <= j /\ j < p.at => p.cells[j] # "blank"
    BY DEF Neat
  <1> HIDE DEF q, m
  <1>7. q \in 0 .. BufferRows - 1 /\ q + 1 \in 0 .. BufferRows /\ q * Columns \in Nat
    BY <1>2, <1>3, <1>4
  <1>8. ASSUME NEW c \in Offsets PROVE c < m <=> row[c] # "blank"
    <2>1. q * Columns + c \in Indices /\ c \in Nat
      BY <1>7, CellInRow
    <2>2. row[c] = p.cells[q * Columns + c]
      BY DEF CellsOfRow
    <2>3. c < m => q * Columns <= q * Columns + c /\ q * Columns + c < p.at
      BY <1>3, <1>7, <2>1
    <2>4. ~ (c < m) => p.at <= q * Columns + c
      BY <1>3, <1>7, <2>1
    <2>5. QED
      BY <1>5, <1>6, <2>1, <2>2, <2>3, <2>4
  <1>9. Trim(row) = [i \in 1 .. m |-> row[i - 1]]
    <2>1. m \in 0 .. Columns
      BY <1>2, <1>3
    <2> HIDE DEF row
    <2>2. QED
      BY <1>8, <2>1, TrimOf
  <1>10. \A i \in 1 .. m : row[i - 1] = p.cells[q * Columns + (i - 1)]
    <2>1. \A i \in 1 .. m : i - 1 \in Offsets
      BY <1>2, <1>3 DEF Offsets
    <2>2. QED
      BY <2>1 DEF CellsOfRow
  <1>11. Trim(row) = [i \in 1 .. m |-> p.cells[q * Columns + (i - 1)]]
    BY <1>9, <1>10
  <1>12. QED
    BY <1>1, <1>2, <1>3, <1>7, <1>11 DEF q, m

\* A character is added to the row of the cursor.
LEMMA RowFilled ==
    ASSUME NEW p, Neat(p), NEW c \in Cells, c # "blank"
    PROVE  LET k == p.at \div Columns + 1
               rows == PageText(p)
           IN  /\ k \in 1 .. BufferRows
               /\ rows \in Seq(Seq(Cells)) /\ Len(rows) = k
               /\ Len(rows[k]) = p.at % Columns
               /\ RowsOf(Filled(p, c), k) = [rows EXCEPT ![k] = Append(rows[k], c)]
  <1> DEFINE q == p.at \div Columns
             k == q + 1
             m == p.at % Columns
             f == Filled(p, c)
             rows == PageText(p)
             row == [i \in 1 .. m |-> p.cells[q * Columns + (i - 1)]]
             long == [i \in 1 .. m + 1 |-> f.cells[q * Columns + (i - 1)]]
  <1>1. /\ p \in PageRec /\ p.at \in Nat /\ p.at < Size
        /\ q \in 0 .. BufferRows - 1 /\ k \in 0 .. BufferRows
        /\ m \in Nat /\ m < Columns /\ p.at = q * Columns + m /\ q * Columns \in Nat
        /\ Trim(CellsOfRow(p, q)) = row
    BY CursorRow
  <1>2. /\ Columns \in Nat \ {0} /\ BufferRows \in Nat \ {0} /\ Straight(p) /\ Sheet(p)
        /\ \A j \in Indices : p.at <= j => p.cells[j] = "blank"
        /\ \A j \in Indices : q * Columns <= j /\ j < p.at => p.cells[j] # "blank"
    BY Constants DEF Neat, Straight
  <1>3. /\ f \in PageRec /\ f.cells[p.at] = c
        /\ \A j \in Indices : j # p.at => f.cells[j] = p.cells[j]
    BY <1>2, FilledFacts
  <1> HIDE DEF f, q, m
  <1>4. q \in Nat /\ k \in Nat /\ k \in 1 .. BufferRows /\ q < k /\ k - 1 = q /\ k = q + 1
    <2>1. PICK e \in 0 .. BufferRows - 1 : e = q
      BY <1>1
    <2>2. BufferRows \in Nat
      BY <1>2
    <2>3. QED
      BY <2>1, <2>2
  <1> HIDE DEF k
  <1>5. /\ rows \in Seq(Seq(Cells)) /\ Len(rows) = k
        /\ \A r \in 1 .. k : rows[r] = Trim(CellsOfRow(p, r - 1))
    BY <1>1, RowsType DEF PageText, q, k
  <1>6. /\ RowsOf(f, k) \in Seq(Seq(Cells)) /\ Len(RowsOf(f, k)) = k
        /\ \A r \in 1 .. k : RowsOf(f, k)[r] = Trim(CellsOfRow(f, r - 1))
    BY <1>1, <1>3, RowsType
  <1> HIDE DEF rows
  <1>7. ASSUME NEW x \in Offsets PROVE x < m + 1 <=> CellsOfRow(f, q)[x] # "blank"
    <2>1. q * Columns + x \in Indices /\ x \in Nat
      BY <1>1, CellInRow
    <2>2. CellsOfRow(f, q)[x] = f.cells[q * Columns + x]
      BY DEF CellsOfRow
    <2>3. CASE x = m
      BY <1>1, <1>3, <2>2, <2>3
    <2>4. CASE x # m
      <3>1. q * Columns + x # p.at
        BY <1>1, <2>1, <2>4
      <3>2. CellsOfRow(f, q)[x] = p.cells[q * Columns + x]
        BY <1>3, <2>1, <2>2, <3>1
      <3>3. x < m => q * Columns <= q * Columns + x /\ q * Columns + x < p.at
        BY <1>1, <2>1
      <3>4. ~ (x < m) => p.at <= q * Columns + x
        BY <1>1, <2>1
      <3>5. x < m + 1 <=> x < m
        BY <1>1, <2>1, <2>4
      <3>6. QED
        BY <1>2, <2>1, <3>2, <3>3, <3>4, <3>5
    <2>5. QED
      BY <2>3, <2>4
  <1>8. Trim(CellsOfRow(f, q)) = long
    <2> DEFINE cells == CellsOfRow(f, q)
    <2>1. m + 1 \in 0 .. Columns
      BY <1>1, <1>2
    <2>2. \A i \in 1 .. m + 1 : cells[i - 1] = f.cells[q * Columns + (i - 1)]
      <3>1. \A i \in 1 .. m + 1 : i - 1 \in Offsets
        BY <1>1, <1>2 DEF Offsets
      <3>2. QED
        BY <3>1 DEF CellsOfRow
    <2> HIDE DEF cells
    <2>3. PICK n \in 0 .. Columns : n = m + 1
      BY <2>1
    <2>4. \A x \in Offsets : x < n <=> cells[x] # "blank"
      BY <1>7, <2>3 DEF cells
    <2>5. Trim(cells) = [i \in 1 .. n |-> cells[i - 1]]
      BY <2>4, TrimOf
    <2>6. QED
      BY <2>2, <2>3, <2>5 DEF cells
  <1>9. row \in Seq(Cells) /\ Len(row) = m /\ row = rows[k]
    <2>1. row = rows[k]
      <3>1. k \in 1 .. k /\ k - 1 = q
        BY <1>4
      <3>2. rows[k] = Trim(CellsOfRow(p, k - 1))
        BY <1>5, <3>1
      <3>3. QED
        BY <1>1, <3>1, <3>2
    <2>2. rows[k] \in Seq(Cells)
      BY <1>4, <1>5
    <2>3. DOMAIN row = 1 .. m
      OBVIOUS
    <2> HIDE DEF row
    <2>4. QED
      BY <1>1, <2>1, <2>2, <2>3
  <1>10. long = Append(row, c)
    <2>1. \A i \in 1 .. m : row[i] = p.cells[q * Columns + (i - 1)]
      OBVIOUS
    <2>2. \A i \in 1 .. m + 1 : long[i] = f.cells[q * Columns + (i - 1)]
      OBVIOUS
    <2>3. long[m + 1] = c
      <3>1. PICK i \in 1 .. m + 1 : i = m + 1 /\ i - 1 = m
        BY <1>1
      <3>2. long[i] = f.cells[q * Columns + m]
        BY <2>2, <3>1
      <3>3. QED
        BY <1>1, <1>3, <3>1, <3>2
    <2>4. \A i \in 1 .. m : long[i] = row[i]
      <3> SUFFICES ASSUME NEW i \in 1 .. m PROVE long[i] = row[i]
        OBVIOUS
      <3>1. PICK x \in Offsets : x = i - 1
        BY <1>1, <1>2 DEF Offsets
      <3>2. q * Columns + x \in Indices
        BY <1>1, CellInRow
      <3>3. q * Columns + x # p.at /\ i \in 1 .. m + 1
        BY <1>1, <3>1
      <3>4. QED
        BY <1>3, <2>1, <2>2, <3>1, <3>2, <3>3
    <2>5. long = [i \in 1 .. m + 1 |-> long[i]]
      OBVIOUS
    <2> HIDE DEF row, long
    <2> DEFINE app == Append(row, c)
    <2>6. /\ app \in Seq(Cells) /\ Len(app) = m + 1 /\ app[m + 1] = c
          /\ \A i \in 1 .. m : app[i] = row[i]
      BY <1>1, <1>9
    <2> HIDE DEF app
    <2>7. ASSUME NEW i \in 1 .. m + 1 PROVE long[i] = app[i]
      <3>1. i = m + 1 \/ i \in 1 .. m
        BY <1>1
      <3>2. QED
        BY <2>3, <2>4, <2>6, <3>1
    <2>8. app = [i \in 1 .. m + 1 |-> app[i]]
      BY <2>6
    <2>9. long = app
      BY <2>5, <2>7, <2>8
    <2>10. QED
      BY <2>9 DEF app
  <1> HIDE DEF row, long
  <1>11. ASSUME NEW r \in 1 .. k, r # k PROVE RowsOf(f, k)[r] = rows[r]
    <2>1. PICK e \in 0 .. BufferRows - 1 : e = r - 1 /\ e < q
      BY <1>1, <1>2, <1>4, <1>11
    <2>2. (e + 1) * Columns <= q * Columns /\ (e + 1) * Columns = e * Columns + Columns
      BY <1>2, <1>4, <2>1, TimesMonotonic
    <2>3. ASSUME NEW x \in Offsets
          PROVE  f.cells[e * Columns + x] = p.cells[e * Columns + x]
      <3>1. e * Columns + x \in Indices /\ x < Columns /\ x \in Nat /\ e * Columns \in Nat
        BY CellInRow
      <3>2. e * Columns + x # p.at
        BY <1>1, <1>2, <2>2, <3>1
      <3>3. QED
        BY <1>3, <3>1, <3>2
    <2>4. CellsOfRow(f, e) = CellsOfRow(p, e)
      BY <2>3 DEF CellsOfRow
    <2>5. QED
      BY <1>5, <1>6, <2>1, <2>4
  <1>12. RowsOf(f, k)[k] = Append(row, c)
    BY <1>4, <1>6, <1>8, <1>10
  <1> DEFINE new == [rows EXCEPT ![k] = Append(rows[k], c)]
  <1>13. DOMAIN new = 1 .. k /\ new = [r \in 1 .. k |-> new[r]]
    <2>1. DOMAIN rows = 1 .. k
      BY <1>4, <1>5
    <2>2. DOMAIN new = DOMAIN rows /\ new = [r \in DOMAIN rows |-> new[r]]
      OBVIOUS
    <2> HIDE DEF new
    <2>3. QED
      BY <2>1, <2>2
  <1>14. ASSUME NEW r \in 1 .. k PROVE RowsOf(f, k)[r] = new[r]
    <2>1. CASE r = k
      BY <1>4, <1>5, <1>9, <1>12, <2>1
    <2>2. CASE r # k
      <3>1. new[r] = rows[r]
        BY <1>5, <2>2
      <3>2. QED
        BY <1>11, <2>2, <3>1
    <2>3. QED
      BY <2>1, <2>2
  <1>15. RowsOf(f, k) = new
    <2>1. RowsOf(f, k) = [r \in 1 .. k |-> RowsOf(f, k)[r]]
      BY <1>6
    <2> HIDE DEF new
    <2>2. QED
      BY <1>13, <1>14, <2>1
  <1>16. QED
    BY <1>4, <1>5, <1>9, <1>15 DEF rows, q, m, f, k

\* With the cursor at the start of a row there is nothing in front of it that
\* could be a gap.
LEMMA NeatAtStart ==
    ASSUME NEW p, Straight(p), p.at % Columns = 0
    PROVE  Neat(p)
  <1>1. p.at \in Nat /\ Columns \in Nat \ {0}
    BY Constants, Sizes DEF Straight, Sheet, Indices
  <1>2. p.at = (p.at \div Columns) * Columns + (p.at % Columns) /\ p.at \div Columns \in Nat
    BY <1>1, DivMod
  <1>3. p.at = (p.at \div Columns) * Columns
    <2> DEFINE z == (p.at \div Columns) * Columns
    <2>1. z \in Nat
      BY <1>1, <1>2
    <2> HIDE DEF z
    <2>2. QED
      BY <1>1, <1>2, <2>1 DEF z
  <1>4. \A j \in Indices : ~ (p.at <= j /\ j < p.at)
    BY <1>1, Sizes DEF Indices
  <1>5. QED
    BY <1>3, <1>4 DEF Neat

\* The start of a row once the buffer has moved, or not.
LEMMA StartOfRow ==
    ASSUME NEW p, Ended(p)
    PROVE  PageRow(p).at % Columns = 0
  <1>1. p.at \in Nat /\ Columns <= p.at /\ p.at % Columns = 0
    BY DEF Ended
  <1>2. (p.at - Columns) % Columns = p.at % Columns
    BY <1>1, RowAbove
  <1>3. PageRow(p).at = p.at \/ PageRow(p).at = p.at - Columns
    BY DEF PageRow, PageUp
  <1>4. QED
    BY <1>1, <1>2, <1>3

\* A character is put into the text.
LEMMA PutText ==
    ASSUME NEW p, Neat(p), NEW c \in Cells, c # "blank"
    PROVE  /\ Neat(PagePut(p, c))
           /\ PageText(PagePut(p, c)) = Abstract!Put(PageText(p), c)
  <1> DEFINE k == p.at \div Columns + 1
             rows == PageText(p)
             f == Filled(p, c)
             row == Append(rows[k], c)
             written == [rows EXCEPT ![k] = row]
  <1>1. /\ k \in 1 .. BufferRows /\ rows \in Seq(Seq(Cells)) /\ Len(rows) = k
        /\ Len(rows[k]) = p.at % Columns /\ RowsOf(f, k) = written
    BY RowFilled
  <1>2. /\ Straight(p) /\ Sheet(p) /\ p.at \in Nat /\ p.at % Columns \in Nat
        /\ Columns \in Nat \ {0} /\ c # "newline"
        /\ \A j \in Indices : p.at <= j => p.cells[j] = "blank"
    BY CursorRow, Constants DEF Neat, Straight
  <1>3. /\ f.at = p.at + 1 /\ f.rows = p.rows /\ f.cells[p.at] = c
        /\ \A j \in Indices : j # p.at => f.cells[j] = p.cells[j]
        /\ (p.at + 1) % Columns = 0 => Ended(f)
    BY <1>2, FilledFacts
  <1>4. Len(row) = (p.at % Columns) + 1
    <2>1. rows[k] \in Seq(Cells)
      BY <1>1
    <2> HIDE DEF rows, k
    <2>2. Len(row) = Len(rows[k]) + 1
      BY <2>1
    <2>3. QED
      BY <1>1, <2>2
  <1>5. Len(row) = Columns <=> (p.at + 1) % Columns = 0
    <2>1. (p.at + 1) % Columns = 0 <=> Columns - (p.at % Columns) = 1
      BY <1>2, NextCell DEF Rest
    <2> DEFINE m == p.at % Columns
    <2>2. m \in Nat /\ Len(row) = m + 1 /\ ((p.at + 1) % Columns = 0 <=> Columns - m = 1)
      BY <1>2, <1>4, <2>1
    <2> HIDE DEF m
    <2>3. m + 1 = Columns <=> Columns - m = 1
      BY <1>2, <2>2
    <2>4. QED
      BY <2>2, <2>3
  <1>6. Straight(PagePut(p, c))
    BY <1>2, PutStraight
  <1>7. Abstract!Put(rows, c) =
          IF Len(row) = Columns THEN Abstract!Keep(Append(written, <<>>)) ELSE written
    <2>1. Abstract!Last(rows) = rows[k] /\ Abstract!ReplaceAt(rows, Len(rows), row) = written
      BY <1>1 DEF Abstract!Last, Abstract!ReplaceAt
    <2> HIDE DEF rows, k
    <2>2. QED
      BY <1>1, <1>2, <2>1 DEF Abstract!Put
  <1> HIDE DEF rows, row, f
  <1>8. CASE (p.at + 1) % Columns = 0
    <2>1. PagePut(p, c) = PageRow(f) /\ Ended(f) /\ f.at \div Columns = k
      BY <1>2, <1>3, <1>8, NextCell DEF PagePut, f
    <2>2. \A j \in Indices : f.at <= j => f.cells[j] = "blank"
      <3>1. \A j \in Indices : j \in Nat
        BY Sizes DEF Indices
      <3>2. QED
        BY <1>2, <1>3, <3>1
    <2>3. f.at \div Columns - 1 = f.rows
      <3>1. p.at \div Columns = p.rows /\ p.rows \in Nat
        BY <1>2, PageTypes DEF Straight, Sheet
      <3>2. QED
        BY <1>3, <2>1, <3>1
    <2>4. PageText(PageRow(f)) = Abstract!Keep(Append(RowsOf(f, f.at \div Columns), <<>>))
      BY <2>1, <2>2, <2>3, RowEnded
    <2>5. Neat(PagePut(p, c))
      BY <1>6, <2>1, StartOfRow, NeatAtStart
    <2>6. QED
      BY <1>1, <1>5, <1>7, <1>8, <2>1, <2>4, <2>5 DEF rows, f
  <1>9. CASE (p.at + 1) % Columns # 0
    <2>1. PagePut(p, c) = f /\ f.at \div Columns = p.at \div Columns
      BY <1>2, <1>3, <1>9, NextCell DEF PagePut, f
    <2>2. PageText(f) = RowsOf(f, k)
      BY <2>1 DEF PageText
    <2>3. Neat(f)
      <3> SUFFICES ASSUME NEW j \in Indices, (f.at \div Columns) * Columns <= j, j < f.at
                   PROVE  f.cells[j] # "blank"
        BY <1>6, <2>1 DEF Neat
      <3>1. CASE j = p.at
        BY <1>3, <3>1
      <3>2. CASE j # p.at
        <4>1. j \in Nat
          BY Sizes DEF Indices
        <4>2. j < p.at /\ (p.at \div Columns) * Columns <= j
          BY <1>2, <1>3, <2>1, <3>2, <4>1
        <4>3. p.cells[j] # "blank"
          BY <4>2 DEF Neat
        <4>4. QED
          BY <1>3, <3>2, <4>3
      <3>3. QED
        BY <3>1, <3>2
    <2>4. QED
      BY <1>1, <1>5, <1>7, <1>9, <2>1, <2>2, <2>3 DEF rows, f
  <1>10. QED
    BY <1>8, <1>9

\* A new line ends the row, and the padding is not part of the text.
LEMMA LineText ==
    ASSUME NEW p, Neat(p)
    PROVE  /\ Neat(PageLine(p))
           /\ PageText(PageLine(p)) = Abstract!Put(PageText(p), "newline")
  <1> DEFINE f == Padded(p)
  <1>1. Straight(p) /\ Sheet(p) /\ \A j \in Indices : p.at <= j => p.cells[j] = "blank"
    BY DEF Neat, Straight
  <1>2. /\ Ended(f) /\ f.rows = p.rows /\ f.cells = p.cells /\ p.at \in Nat
        /\ f.at \div Columns = p.at \div Columns + 1 /\ f.at = p.at + Rest(p.at)
    BY <1>1, PaddedFacts, LineStraight
  <1>3. Straight(PageLine(p)) /\ PageLine(p) = PageRow(f)
    BY <1>1, LineStraight DEF PageLine
  <1> HIDE DEF f
  <1>4. Neat(PageLine(p))
    BY <1>2, <1>3, StartOfRow, NeatAtStart
  <1>5. \A j \in Indices : f.at <= j => f.cells[j] = "blank"
    <2>1. Rest(p.at) \in 1 .. Columns /\ Columns \in Nat
      BY <1>2, NextRow, Constants
    <2>2. \A j \in Indices : j \in Nat
      BY Sizes DEF Indices
    <2>3. \A j \in Indices : f.at <= j => p.at <= j
      BY <1>2, <2>1, <2>2
    <2>4. QED
      BY <1>1, <1>2, <2>3
  <1>6. f.at \div Columns - 1 = f.rows
    <2>1. p.at \div Columns = p.rows /\ p.rows \in Nat
      BY <1>1, PageTypes DEF Straight, Sheet
    <2>2. QED
      BY <1>2, <2>1
  <1>7. PageText(PageRow(f)) = Abstract!Keep(Append(RowsOf(f, f.at \div Columns), <<>>))
    BY <1>2, <1>5, <1>6, RowEnded
  <1>8. RowsOf(f, f.at \div Columns) = PageText(p)
    BY <1>2 DEF RowsOf, PageText, CellsOfRow
  <1>9. Abstract!Put(PageText(p), "newline") = Abstract!Keep(Append(PageText(p), <<>>))
    BY DEF Abstract!Put
  <1>10. QED
    BY <1>3, <1>4, <1>7, <1>8, <1>9

LEMMA EmptyText == Neat(EmptyPage) /\ PageText(EmptyPage) = << <<>> >>
  <1>1. Columns \in Nat \ {0} /\ BufferRows \in Nat \ {0}
    BY Constants
  <1>2. PICK z \in Nat : z = 0
    OBVIOUS
  <1>3. EmptyPage.at = z /\ z \div Columns = z /\ z % Columns = z
    <2>1. MadeOf(z, Columns, z, z)
      BY <1>1, <1>2 DEF MadeOf
    <2>2. QED
      BY <1>1, <1>2, <2>1, DivModUnique DEF EmptyPage
  <1>4. Neat(EmptyPage)
    BY <1>2, <1>3, EmptyFacts, NeatAtStart
  <1>5. Trim(CellsOfRow(EmptyPage, z)) = <<>>
    <2>1. z \in 0 .. BufferRows - 1
      BY <1>1, <1>2
    <2>2. \A c \in Offsets : z * Columns + c \in Indices
      BY <2>1, CellInRow
    <2>3. \A c \in Offsets : EmptyPage.cells[z * Columns + c] = "blank"
      BY <2>2 DEF EmptyPage
    <2>4. QED
      BY <2>3, RowBlank
  <1>6. PageText(EmptyPage) = [r \in 1 .. z + 1 |-> Trim(CellsOfRow(EmptyPage, r - 1))]
    BY <1>3 DEF PageText, RowsOf
  <1>7. \A r \in 1 .. z + 1 : Trim(CellsOfRow(EmptyPage, r - 1)) = <<>>
    <2>1. \A r \in 1 .. z + 1 : r - 1 = z
      BY <1>2
    <2>2. QED
      BY <1>5, <2>1
  <1>8. PageText(EmptyPage) = [r \in 1 .. 1 |-> <<>>]
    BY <1>2, <1>6, <1>7
  <1>9. QED
    BY <1>4, <1>8

Texts == Seq(Seq(Cells)) \ {<<>>}

LEMMA PutType ==
    ASSUME NEW rows \in Texts, NEW c \in Printable
    PROVE  Abstract!Put(rows, c) \in Texts
  <1> DEFINE n == Len(rows)
             row == Append(rows[n], c)
             written == [rows EXCEPT ![n] = row]
  <1>1. rows \in Seq(Seq(Cells)) /\ n \in Nat \ {0} /\ rows[n] \in Seq(Cells)
    BY DEF Texts
  <1>2. /\ <<>> \in Seq(Cells) /\ (c # "newline" => row \in Seq(Cells))
        /\ BufferRows \in Nat \ {0}
    BY <1>1, Printables, Constants
  <1>3. Abstract!Last(rows) = rows[n] /\ Abstract!ReplaceAt(rows, Len(rows), row) = written
    BY <1>1 DEF Abstract!Last, Abstract!ReplaceAt
  <1>4. ASSUME NEW u \in Texts PROVE Abstract!Keep(Append(u, <<>>)) \in Texts
    <2> DEFINE v == Append(u, <<>>)
    <2>1. u \in Seq(Seq(Cells)) /\ Len(u) \in Nat \ {0}
      BY DEF Texts
    <2>2. v \in Seq(Seq(Cells)) /\ Len(v) = Len(u) + 1
      BY <1>2, <2>1
    <2> HIDE DEF v
    <2>3. Tail(v) \in Seq(Seq(Cells)) /\ Len(Tail(v)) = Len(u)
      BY <2>1, <2>2
    <2>4. Len(<<>>) = 0
      OBVIOUS
    <2>5. v # <<>> /\ Tail(v) # <<>>
      <3>1. PICK m \in Nat \ {0} : Len(v) = m + 1 /\ Len(Tail(v)) = m
        BY <2>1, <2>2, <2>3, Zenon
      <3>2. m # 0 /\ m + 1 # 0
        OBVIOUS
      <3>3. QED
        BY <2>4, <3>1, <3>2, Zenon
    <2>6. QED
      BY <2>2, <2>3, <2>5 DEF Abstract!Keep, Texts, v
  <1>5. c # "newline" => written \in Texts
    <2> HAVE c # "newline"
    <2>1. DOMAIN rows = 1 .. n /\ \A i \in 1 .. n : rows[i] \in Seq(Cells)
      BY <1>1
    <2> HIDE DEF row, n
    <2>2. written \in [1 .. n -> Seq(Cells)]
      BY <1>1, <1>2, <2>1
    <2> HIDE DEF written
    <2>3. written \in Seq(Seq(Cells)) /\ Len(written) = n
      BY <1>1, <2>2
    <2>4. Len(<<>>) = 0
      OBVIOUS
    <2>5. QED
      BY <1>1, <2>3, <2>4 DEF Texts
  <1>6. CASE c = "newline"
    <2>1. Abstract!Put(rows, c) = Abstract!Keep(Append(rows, <<>>))
      BY <1>6 DEF Abstract!Put
    <2>2. QED
      BY <1>4, <2>1
  <1>7. CASE c # "newline"
    <2>1. Abstract!Put(rows, c) =
            IF Len(row) = Columns THEN Abstract!Keep(Append(written, <<>>)) ELSE written
      <3> HIDE DEF written, n
      <3>1. QED
        BY <1>3, <1>7 DEF Abstract!Put
    <2>2. QED
      BY <1>4, <1>5, <1>7, <2>1
  <1>8. QED
    BY <1>6, <1>7

\* A script is said one character after the other.
LEMMA SaySteps ==
    ASSUME NEW rows \in Texts, NEW script \in Seq(Printable)
    PROVE  \E pre \in [0 .. Len(script) -> Texts] :
             /\ Abstract!Say(rows, script) = pre[Len(script)] /\ pre[0] = rows
             /\ \A k \in 0 .. Len(script) - 1 :
                  pre[k + 1] = Abstract!Put(pre[k], script[k + 1])
  <1> DEFINE n == Len(script)
             step == [u \in Texts |-> [i \in 1 .. n |-> Abstract!Put(u, script[i])]]
             IsSaying(f) ==
               f = [s \in SUBSET DOMAIN script |->
                      IF s = {} THEN rows ELSE Abstract!Put(f[s \ {Max(s)}], script[Max(s)])]
  <1>1. n \in Nat /\ DOMAIN script = 1 .. n
        /\ \A i \in 1 .. n : script[i] \in Printable
    OBVIOUS
  <1>2. step \in [Texts -> [1 .. n -> Texts]]
    BY <1>1, PutType
  <1>3. \A u \in Texts : \A i \in 1 .. n : step[u][i] = Abstract!Put(u, script[i])
    OBVIOUS
  <1> HIDE DEF step
  <1>4. PICK fold : IsFold(fold, n, Texts, rows, step)
    BY <1>1, <1>2, FoldExists
  <1>5. IsSaying(fold)
    <2>1. fold \in [SUBSET (1 .. n) -> Texts]
      BY <1>4 DEF IsFold
    <2>2. ASSUME NEW s \in SUBSET (1 .. n)
          PROVE  fold[s] = IF s = {} THEN rows
                           ELSE Abstract!Put(fold[s \ {Max(s)}], script[Max(s)])
      <3>1. CASE s = {}
        BY <1>4, <3>1 DEF IsFold
      <3>2. CASE s # {}
        <4>1. fold[s] = step[fold[s \ {Max(s)}]][Max(s)]
          BY <1>4, <3>2 DEF IsFold
        <4>2. Max(s) \in 1 .. n
          <5>1. s \in SUBSET Nat /\ \A m \in s : m <= n
            BY <1>1
          <5>2. Max(s) \in s
            BY <1>1, <3>2, <5>1, MaxOfNats
          <5>3. QED
            BY <5>2
        <4>3. fold[s \ {Max(s)}] \in Texts
          <5>1. s \ {Max(s)} \in SUBSET (1 .. n)
            OBVIOUS
          <5>2. QED
            BY <2>1, <5>1, Zenon
        <4>4. QED
          BY <1>3, <3>2, <4>1, <4>2, <4>3
      <3>3. QED
        BY <3>1, <3>2
    <2>3. fold = [s \in SUBSET (1 .. n) |->
                    IF s = {} THEN rows ELSE Abstract!Put(fold[s \ {Max(s)}], script[Max(s)])]
      <3>1. fold = [s \in SUBSET (1 .. n) |-> fold[s]]
        BY <2>1
      <3>2. QED
        BY <2>2, <3>1, Zenon
    <2>4. QED
      BY <1>1, <2>3
  <1> DEFINE g == CHOOSE f : IsSaying(f)
  <1>6. IsSaying(g)
    BY <1>5
  <1>7. Abstract!Say(rows, script) = g[DOMAIN script]
    BY DEF Abstract!Say, Abstract!FoldLeft, Abstract!MapThenFoldSet,
           Abstract!Max, Max
  <1> DEFINE pre == [k \in 0 .. n |-> g[1 .. k]]
  <1> HIDE DEF g
  <1>8. \A s \in SUBSET (1 .. n) :
          g[s] = IF s = {} THEN rows ELSE Abstract!Put(g[s \ {Max(s)}], script[Max(s)])
    BY <1>1, <1>6, Zenon
  <1>9. pre[0] = rows
    <2>1. 1 .. 0 = {} /\ {} \in SUBSET (1 .. n) /\ 0 \in 0 .. n
      BY <1>1
    <2>2. g[{}] = rows
      BY <1>8, <2>1
    <2>3. QED
      BY <2>1, <2>2
  <1>10. ASSUME NEW k \in 0 .. n - 1 PROVE pre[k + 1] = Abstract!Put(pre[k], script[k + 1])
    <2>1. PICK m \in Nat : m = k + 1 /\ m # 0 /\ m <= n
      BY <1>1
    <2>2. Max(1 .. m) = m /\ (1 .. m) \ {Max(1 .. m)} = 1 .. m - 1
      BY <2>1, MaxOfInterval
    <2>3. 1 .. m \in SUBSET (1 .. n) /\ 1 .. m # {}
      <3>1. n \in Nat
        BY <1>1
      <3>2. 1 \in 1 .. m /\ \A x \in 1 .. m : x \in 1 .. n
        BY <2>1, <3>1
      <3>3. QED
        BY <3>2
    <2>4. g[1 .. m] = Abstract!Put(g[1 .. m - 1], script[m])
      <3>1. g[1 .. m] = Abstract!Put(g[(1 .. m) \ {Max(1 .. m)}], script[Max(1 .. m)])
        BY <1>8, <2>3, Zenon
      <3>2. QED
        BY <2>2, <3>1, Zenon
    <2>5. m - 1 = k /\ k \in 0 .. n /\ k + 1 \in 0 .. n
      BY <1>1, <2>1
    <2>6. QED
      BY <2>1, <2>4, <2>5
  <1>11. pre \in [0 .. n -> Texts]
    <2> DEFINE S == {k \in Nat : k <= n => pre[k] \in Texts}
    <2>1. 0 \in S
      BY <1>9
    <2>2. ASSUME NEW k \in Nat, k \in S PROVE k + 1 \in S
      <3> SUFFICES ASSUME k + 1 <= n PROVE pre[k + 1] \in Texts
        OBVIOUS
      <3>1. k \in 0 .. n - 1 /\ pre[k] \in Texts /\ script[k + 1] \in Printable
        BY <1>1, <2>2
      <3>2. pre[k + 1] = Abstract!Put(pre[k], script[k + 1])
        BY <1>10, <3>1
      <3>3. QED
        BY <3>1, <3>2, PutType
    <2> HIDE DEF S
    <2>3. \A k \in Nat : k \in S
      BY <2>1, <2>2, SetInduction
    <2>4. \A k \in 0 .. n : pre[k] \in Texts
      <3>1. \A k \in 0 .. n : k \in Nat /\ k <= n
        BY <1>1
      <3>2. \A k \in Nat : k \in S => (k <= n => pre[k] \in Texts)
        BY DEF S
      <3>3. QED
        BY <2>3, <3>1, <3>2, Zenon
    <2>5. pre = [k \in 0 .. n |-> pre[k]]
      OBVIOUS
    <2> HIDE DEF pre
    <2>6. QED
      BY <2>4, <2>5, Zenon
  <1>12. Abstract!Say(rows, script) = pre[n]
    BY <1>1, <1>7
  <1> HIDE DEF pre
  <1>13. QED
    BY <1>9, <1>10, <1>11, <1>12

\* One script after the other.
LEMMA SayTwice ==
    ASSUME NEW rows \in Texts, NEW a \in Seq(Printable), NEW b \in Seq(Printable)
    PROVE  /\ Abstract!Say(rows, a) \in Texts
           /\ Abstract!Say(rows, a \o b) = Abstract!Say(Abstract!Say(rows, a), b)
  <1> DEFINE m == Len(a)
             n == Len(b)
             c == a \o b
             said == Abstract!Say(rows, a)
  <1>1. /\ m \in Nat /\ n \in Nat /\ c \in Seq(Printable) /\ Len(c) = m + n
        /\ \A k \in 1 .. m : c[k] = a[k]
        /\ \A k \in 1 .. n : c[m + k] = b[k]
    OBVIOUS
  <1> HIDE DEF c
  <1>2. PICK A \in [0 .. m -> Texts] :
          /\ said = A[m] /\ A[0] = rows
          /\ \A k \in 0 .. m - 1 : A[k + 1] = Abstract!Put(A[k], a[k + 1])
    BY SaySteps
  <1>3. said \in Texts
    <2>1. m \in 0 .. m
      BY <1>1
    <2> HIDE DEF said, m
    <2>2. QED
      BY <1>2, <2>1, Zenon
  <1> HIDE DEF said
  <1>4. PICK B \in [0 .. n -> Texts] :
          /\ Abstract!Say(said, b) = B[n] /\ B[0] = said
          /\ \A k \in 0 .. n - 1 : B[k + 1] = Abstract!Put(B[k], b[k + 1])
    BY <1>3, SaySteps
  <1>5. PICK C :
          /\ Abstract!Say(rows, c) = C[m + n] /\ C[0] = rows
          /\ \A k \in 0 .. (m + n) - 1 : C[k + 1] = Abstract!Put(C[k], c[k + 1])
    <2>1. \E C \in [0 .. Len(c) -> Texts] :
            /\ Abstract!Say(rows, c) = C[Len(c)] /\ C[0] = rows
            /\ \A k \in 0 .. Len(c) - 1 : C[k + 1] = Abstract!Put(C[k], c[k + 1])
      BY <1>1, SaySteps
    <2>2. Len(c) = m + n
      BY <1>1
    <2> HIDE DEF m, n
    <2>3. QED
      BY <2>1, <2>2
  <1> HIDE DEF m, n
  <1> DEFINE S == {k \in Nat : k <= m => C[k] = A[k]}
             T == {k \in Nat : k <= n => C[m + k] = B[k]}
  <1>6. \A k \in Nat : k \in S
    <2>1. 0 \in S
      BY <1>2, <1>5
    <2>2. ASSUME NEW k \in Nat, k \in S PROVE k + 1 \in S
      <3> SUFFICES ASSUME k + 1 <= m PROVE C[k + 1] = A[k + 1]
        OBVIOUS
      <3>1. k \in 0 .. m - 1 /\ k \in 0 .. (m + n) - 1 /\ k + 1 \in 1 .. m /\ C[k] = A[k]
        BY <1>1, <2>2
      <3>2. QED
        BY <1>1, <1>2, <1>5, <3>1
    <2> HIDE DEF S
    <2>3. QED
      BY <2>1, <2>2, SetInduction
  <1>7. C[m] = B[0]
    BY <1>1, <1>2, <1>4, <1>6
  <1>8. \A k \in Nat : k \in T
    <2>1. 0 \in T
      BY <1>1, <1>7
    <2>2. ASSUME NEW k \in Nat, k \in T PROVE k + 1 \in T
      <3> SUFFICES ASSUME k + 1 <= n PROVE C[m + (k + 1)] = B[k + 1]
        OBVIOUS
      <3>1. k \in 0 .. n - 1 /\ k + 1 \in 1 .. n /\ C[m + k] = B[k]
        BY <1>1, <2>2
      <3>2. PICK i \in 0 .. (m + n) - 1 : i = m + k /\ i + 1 = m + (k + 1)
        <4>1. PICK i \in Nat : i = m + k
          BY <1>1
        <4>2. i \in 0 .. (m + n) - 1 /\ i + 1 = m + (k + 1)
          BY <1>1, <3>1, <4>1
        <4>3. QED
          BY <4>1, <4>2
      <3>3. C[i + 1] = Abstract!Put(C[i], c[i + 1])
        BY <1>5, <3>2
      <3>4. c[m + (k + 1)] = b[k + 1] /\ B[k + 1] = Abstract!Put(B[k], b[k + 1])
        BY <1>1, <1>4, <3>1
      <3>5. QED
        BY <3>1, <3>2, <3>3, <3>4
    <2> HIDE DEF T
    <2>3. QED
      BY <2>1, <2>2, SetInduction
  <1>9. C[m + n] = B[n]
    BY <1>1, <1>8
  <1>10. QED
    BY <1>3, <1>4, <1>5, <1>9 DEF said, c

LEMMA TextType ==
    ASSUME NEW p, Neat(p)
    PROVE  PageText(p) \in Texts
  <1> DEFINE k == p.at \div Columns + 1
  <1>1. p \in PageRec /\ p.at \div Columns \in 0 .. BufferRows - 1 /\ k \in 0 .. BufferRows
    BY CursorRow
  <1>2. PageText(p) \in Seq(Seq(Cells)) /\ Len(PageText(p)) = k
    BY <1>1, RowsType DEF PageText
  <1>3. k # 0
    BY <1>1
  <1>4. Len(<<>>) = 0
    OBVIOUS
  <1>5. PageText(p) # <<>>
    BY <1>2, <1>3, <1>4, Zenon
  <1>6. QED
    BY <1>2, <1>5 DEF Texts

AllNeat(t) == \A s \in Screens : Neat(Page(t, s))

LEMMA PrintOneText ==
    ASSUME NEW t, Good(t), AllNeat(t), NEW c \in Printable
    PROVE  /\ AllNeat(PrintOne(t, c))
           /\ PageText(FrontPage(PrintOne(t, c))) = Abstract!Put(PageText(FrontPage(t)), c)
  <1> DEFINE u == PrintOne(t, c)
             p == FrontPage(t)
  <1>1. /\ u.screen_index = t.screen_index /\ t.screen_index \in Screens
        /\ FrontPage(u) = IF c = "newline" THEN PageLine(p) ELSE PagePut(p, c)
        /\ \A s \in Screens \ {t.screen_index} : Page(u, s) = Page(t, s)
    BY PrintOneFacts, GoodFront
  <1> HIDE DEF u
  <1>2. Neat(p)
    BY <1>1 DEF AllNeat, FrontPage
  <1>3. c # "newline" => c \in Cells /\ c # "blank"
    BY Constants DEF Printable, Cells
  <1> HIDE DEF p
  <1>4. Neat(FrontPage(u)) /\ PageText(FrontPage(u)) = Abstract!Put(PageText(p), c)
    <2>1. CASE c = "newline"
      BY <1>1, <1>2, <2>1, LineText
    <2>2. CASE c # "newline"
      BY <1>1, <1>2, <1>3, <2>2, PutText
    <2>3. QED
      BY <2>1, <2>2
  <1>5. AllNeat(u)
    <2> SUFFICES ASSUME NEW s \in Screens PROVE Neat(Page(u, s))
      BY DEF AllNeat
    <2>1. CASE s = t.screen_index
      BY <1>1, <1>4, <2>1 DEF FrontPage
    <2>2. CASE s # t.screen_index
      BY <1>1, <2>2 DEF AllNeat
    <2>3. QED
      BY <2>1, <2>2
  <1>6. QED
    BY <1>4, <1>5 DEF u, p

\* Printing a script on a screen says it to its text.
LEMMA PrintSays ==
    ASSUME NEW t, Good(t), AllNeat(t), NEW script \in Seq(Printable)
    PROVE  /\ AllNeat(PrintStr(t, script))
           /\ PageText(FrontPage(PrintStr(t, script)))
                = Abstract!Say(PageText(FrontPage(t)), script)
  <1> DEFINE V == {u \in TTY : Good(u) /\ AllNeat(u)}
             n == Len(script)
  <1>1. t \in V /\ n \in Nat /\ t.screen_index \in Screens
    BY GoodFront
  <1>2. \A u \in V : \A c \in Printable : PrintOne(u, c) \in V
    <2> SUFFICES ASSUME NEW u \in V, NEW c \in Printable PROVE PrintOne(u, c) \in V
      OBVIOUS
    <2>1. Good(PrintOne(u, c)) /\ AllNeat(PrintOne(u, c))
      BY PrintOneFacts, PrintOneText
    <2>2. QED
      BY <2>1 DEF Good
  <1>3. \A u \in V : Good(u) /\ AllNeat(u)
    OBVIOUS
  <1> HIDE DEF V
  <1>4. PICK pre \in [0 .. n -> V] :
          /\ PrintStr(t, script) = pre[n] /\ pre[0] = t
          /\ \A k \in 0 .. n - 1 : pre[k + 1] = PrintOne(pre[k], script[k + 1])
    BY <1>1, <1>2, PrintSteps
  <1>5. PageText(FrontPage(t)) \in Texts
    BY <1>1, TextType DEF AllNeat, FrontPage
  <1>6. PICK said :
          /\ Abstract!Say(PageText(FrontPage(t)), script) = said[n]
          /\ said[0] = PageText(FrontPage(t))
          /\ \A k \in 0 .. n - 1 : said[k + 1] = Abstract!Put(said[k], script[k + 1])
    BY <1>5, SaySteps
  <1>7. \A k \in 1 .. n : script[k] \in Printable
    OBVIOUS
  <1> HIDE DEF n
  <1> DEFINE S == {k \in Nat : k <= n => PageText(FrontPage(pre[k])) = said[k]}
  <1>8. 0 \in S
    BY <1>4, <1>6
  <1>9. ASSUME NEW k \in Nat, k \in S PROVE k + 1 \in S
    <2> SUFFICES ASSUME k + 1 <= n PROVE PageText(FrontPage(pre[k + 1])) = said[k + 1]
      OBVIOUS
    <2>1. /\ k \in 0 .. n - 1 /\ k \in 0 .. n /\ k + 1 \in 1 .. n
          /\ PageText(FrontPage(pre[k])) = said[k]
      BY <1>1, <1>9
    <2>2. Good(pre[k]) /\ AllNeat(pre[k])
      BY <1>3, <2>1
    <2>3. pre[k + 1] = PrintOne(pre[k], script[k + 1]) /\ script[k + 1] \in Printable
      BY <1>4, <1>7, <2>1
    <2>4. PageText(FrontPage(pre[k + 1])) = Abstract!Put(said[k], script[k + 1])
      BY <2>1, <2>2, <2>3, PrintOneText
    <2>5. QED
      BY <1>6, <2>1, <2>4
  <1> HIDE DEF S
  <1>10. \A k \in Nat : k \in S
    BY <1>8, <1>9, SetInduction
  <1>11. PageText(FrontPage(pre[n])) = said[n]
    BY <1>1, <1>10 DEF S
  <1>12. AllNeat(pre[n])
    BY <1>1, <1>3
  <1>13. QED
    BY <1>4, <1>6, <1>11, <1>12 DEF n

----------------------------------------------------------------------------
(* Screens implement texts of rows *)

Fresh == << <<>> >>

LEMMA FreshFacts == Fresh \in Texts /\ Fresh = PageText(EmptyPage) /\ Neat(EmptyPage)
  BY EmptyText, TextType DEF Fresh

LEMMA GreetText ==
    ASSUME NEW t, Good(t), AllNeat(t), NEW s \in Screens
    PROVE  /\ Good(Greet(t, s)) /\ AllNeat(Greet(t, s))
           /\ PageText(Page(Greet(t, s), s)) = Abstract!Say(Fresh, Banner)
           /\ \A q \in Screens \ {s} : Page(Greet(t, s), q) = Page(t, q)
  <1> DEFINE u == SwitchScreen(t, s)
             w == ClearScreen(u)
             v == PrintStr(w, Banner)
  <1>1. Good(u) /\ u.screen_index = s /\ \A q \in Screens : Page(u, q) = Page(t, q)
    BY SwitchFacts
  <1> HIDE DEF u
  <1>2. /\ Good(w) /\ w.screen_index = s /\ FrontPage(w) = EmptyPage
        /\ \A q \in Screens \ {s} : Page(w, q) = Page(t, q)
    BY <1>1, ClearFacts DEF Turns
  <1> HIDE DEF w
  <1>3. AllNeat(w)
    <2> SUFFICES ASSUME NEW q \in Screens PROVE Neat(Page(w, q))
      BY DEF AllNeat
    <2>1. CASE q = s
      BY <1>2, <2>1, FreshFacts DEF FrontPage
    <2>2. CASE q # s
      BY <1>2, <2>2 DEF AllNeat
    <2>3. QED
      BY <2>1, <2>2
  <1>4. Banner \in Seq(Printable)
    BY Printables
  <1>5. /\ Good(v) /\ v.screen_index = s
        /\ \A q \in Screens \ {s} : Page(v, q) = Page(w, q)
    BY <1>2, <1>4, PrintStrGood DEF Beside
  <1>6. AllNeat(v) /\ PageText(FrontPage(v)) = Abstract!Say(PageText(FrontPage(w)), Banner)
    BY <1>2, <1>3, <1>4, PrintSays
  <1>7. Greet(t, s) = v
    BY DEF Greet, v, w, u
  <1> HIDE DEF v
  <1>8. PageText(Page(v, s)) = Abstract!Say(Fresh, Banner)
    BY <1>2, <1>5, <1>6, FreshFacts DEF FrontPage
  <1>9. QED
    BY <1>2, <1>5, <1>6, <1>7, <1>8

LEMMA GreetedText ==
    /\ Good(init_screens(Reset)) /\ AllNeat(init_screens(Reset))
    /\ \A s \in Screens :
         PageText(Page(init_screens(Reset), s)) = Abstract!Say(Fresh, Banner)
  <1> DEFINE V == {u \in TTY : Good(u) /\ AllNeat(u)}
             n == ScreenCount
  <1>1. Reset \in V
    BY ResetFacts, GoodFront, FreshFacts DEF AllNeat
  <1>2. \A u \in V : Good(u) /\ AllNeat(u)
    OBVIOUS
  <1>3. \A u \in V : \A s \in Screens : Greet(u, s) \in V
    <2> SUFFICES ASSUME NEW u \in V, NEW s \in Screens PROVE Greet(u, s) \in V
      OBVIOUS
    <2>1. Good(Greet(u, s)) /\ AllNeat(Greet(u, s))
      BY GreetText
    <2>2. QED
      BY <2>1 DEF Good
  <1> HIDE DEF V
  <1>4. PICK pre \in [0 .. n -> V] :
          /\ init_screens(Reset) = pre[n]
          /\ \A k \in 0 .. n - 1 : pre[k + 1] = Greet(pre[k], k)
    BY <1>1, <1>3, GreetSteps
  <1>5. n \in Nat /\ Screens = 0 .. n - 1
    BY Constants
  <1> HIDE DEF n
  <1> DEFINE Done(k) == \A s \in Screens :
                          s < k => PageText(Page(pre[k], s)) = Abstract!Say(Fresh, Banner)
             S == {k \in Nat : k <= n => Done(k)}
  <1>6. 0 \in S
    <2>1. \A s \in Screens : ~ (s < 0)
      BY <1>5
    <2>2. QED
      BY <2>1
  <1>7. ASSUME NEW k \in Nat, k \in S PROVE k + 1 \in S
    <2> SUFFICES ASSUME k + 1 <= n, NEW s \in Screens, s < k + 1
                 PROVE  PageText(Page(pre[k + 1], s)) = Abstract!Say(Fresh, Banner)
      OBVIOUS
    <2>1. k \in 0 .. n - 1 /\ k \in 0 .. n /\ k \in Screens /\ Done(k)
      BY <1>5, <1>7
    <2>2. Good(pre[k]) /\ AllNeat(pre[k]) /\ pre[k + 1] = Greet(pre[k], k)
      BY <1>2, <1>4, <2>1
    <2>3. CASE s = k
      BY <2>1, <2>2, <2>3, GreetText
    <2>4. CASE s # k
      <3>1. s < k
        BY <1>5, <2>4
      <3>2. Page(pre[k + 1], s) = Page(pre[k], s)
        BY <2>1, <2>2, <2>4, GreetText
      <3>3. QED
        BY <2>1, <3>1, <3>2
    <2>5. QED
      BY <2>3, <2>4
  <1> HIDE DEF S
  <1>8. n \in S
    BY <1>5, <1>6, <1>7, SetInduction
  <1>9. Done(n)
    BY <1>5, <1>8 DEF S
  <1>10. \A s \in Screens : s < n
    BY <1>5
  <1>11. Good(pre[n]) /\ AllNeat(pre[n])
    <2>1. n \in 0 .. n
      BY <1>5
    <2>2. QED
      BY <1>2, <2>1
  <1>12. QED
    BY <1>4, <1>9, <1>10, <1>11

\* What main leaves on the screens.
LEMMA MainText ==
    /\ AllNeat(AfterMain)
    /\ \A s \in Screens : PageText(Page(AfterMain, s)) = Abstract!Say(Fresh, Greeted[s])
  <1> DEFINE t == init_screens(Reset)
             p == FrontPage(Started)
             more == Controls \o Prompt
  <1>1. Good(t) /\ AllNeat(t) /\ 0 \in Screens
        /\ \A s \in Screens : PageText(Page(t, s)) = Abstract!Say(Fresh, Banner)
    BY GreetedText, Constants
  <1>2. /\ Good(Started) /\ Started.screen_index = 0 /\ more \in Seq(Printable)
        /\ AfterMain = PrintStr(Started, more) /\ AfterMain.screen_index = 0
    BY StartFacts
  <1> HIDE DEF t, more
  <1>3. \A s \in Screens : Page(Started, s) = Page(t, s)
    BY <1>1, SwitchFacts DEF Started, t
  <1>4. AllNeat(Started)
    BY <1>1, <1>3 DEF AllNeat
  <1>5. /\ AllNeat(AfterMain)
        /\ PageText(FrontPage(AfterMain)) = Abstract!Say(PageText(FrontPage(Started)), more)
    BY <1>2, <1>4, PrintSays
  <1>6. \A s \in Screens \ {0} : Page(AfterMain, s) = Page(Started, s)
    BY <1>2, PrintStrGood DEF Beside
  <1>7. PageText(Page(AfterMain, 0)) = Abstract!Say(Fresh, Greeted[0])
    <2>1. Banner \in Seq(Printable) /\ Controls \in Seq(Printable) /\ Prompt \in Seq(Printable)
      BY Printables
    <2>2. Abstract!Say(Fresh, Banner \o more) = Abstract!Say(Abstract!Say(Fresh, Banner), more)
      BY <1>2, <2>1, FreshFacts, SayTwice
    <2>3. PageText(Page(AfterMain, 0)) = Abstract!Say(Abstract!Say(Fresh, Banner), more)
      BY <1>1, <1>2, <1>3, <1>5 DEF FrontPage
    <2>4. Banner \o more = Banner \o Controls \o Prompt
      BY <2>1 DEF more
    <2>5. Greeted[0] = Banner \o Controls \o Prompt
      BY <1>1 DEF Greeted
    <2>6. QED
      BY <2>2, <2>3, <2>4, <2>5
  <1>8. ASSUME NEW s \in Screens
        PROVE  PageText(Page(AfterMain, s)) = Abstract!Say(Fresh, Greeted[s])
    <2>1. CASE s = 0
      BY <1>7, <2>1
    <2>2. CASE s # 0
      <3>1. Greeted[s] = Banner
        BY <2>2 DEF Greeted
      <3>2. QED
        BY <1>1, <1>3, <1>6, <2>2, <3>1
    <2>3. QED
      BY <2>1, <2>2
  <1>9. QED
    BY <1>5, <1>8

\* The rows of a screen are the text of its page.
TextOf(t) ==
    [s \in Screens |-> [r \in 1 .. (CursorIn(t, s) \div Columns) + 1 |->
       Trim([c \in Offsets |-> t.stock[s * Size + (r - 1) * Columns + c]])]]

LEMMA TextIsTextOf == Text = TextOf(tty) /\ Text' = TextOf(tty')
  BY DEF Text, TextOf, RowText, Trim, Offsets, CursorOf, CursorIn, front

LEMMA TextOfPages ==
    ASSUME NEW t, Good(t), AllNeat(t)
    PROVE  TextOf(t) = [s \in Screens |-> PageText(Page(t, s))]
  <1> SUFFICES ASSUME NEW s \in Screens PROVE TextOf(t)[s] = PageText(Page(t, s))
    BY DEF TextOf
  <1> DEFINE p == Page(t, s)
             k == p.at \div Columns + 1
  <1>1. /\ p.at = CursorIn(t, s)
        /\ \A j \in Indices : p.cells[j] = t.stock[s * Size + j]
    BY PageFields DEF Good
  <1>2. k \in 0 .. BufferRows /\ BufferRows \in Nat
    BY CursorRow, Constants DEF AllNeat
  <1> HIDE DEF p
  <1>3. ASSUME NEW r \in 1 .. k, NEW c \in Offsets
        PROVE  t.stock[s * Size + (r - 1) * Columns + c] = p.cells[(r - 1) * Columns + c]
    <2>1. PICK e \in 0 .. BufferRows - 1 : e = r - 1
      BY <1>2
    <2>2. e * Columns + c \in Indices /\ e * Columns \in Nat /\ c \in Nat
      BY CellInRow
    <2>3. s * Size \in Nat
      BY <2>2, CellOfScreen
    <2>4. s * Size + e * Columns + c = s * Size + (e * Columns + c)
      BY <2>2, <2>3
    <2>5. QED
      BY <1>1, <2>1, <2>2, <2>4
  <1>4. TextOf(t)[s] = [r \in 1 .. k |->
          Trim([c \in Offsets |-> t.stock[s * Size + (r - 1) * Columns + c]])]
    BY <1>1 DEF TextOf
  <1>5. \A r \in 1 .. k :
          [c \in Offsets |-> t.stock[s * Size + (r - 1) * Columns + c]] = CellsOfRow(p, r - 1)
    BY <1>3 DEF CellsOfRow
  <1>6. TextOf(t)[s] = [r \in 1 .. k |-> Trim(CellsOfRow(p, r - 1))]
    BY <1>4, <1>5
  <1>7. QED
    BY <1>6 DEF PageText, RowsOf, p

LEMMA SayOne ==
    ASSUME NEW rows \in Texts, NEW c \in Printable
    PROVE  Abstract!Say(rows, <<c>>) = Abstract!Put(rows, c)
  <1> DEFINE script == <<c>>
  <1>1. script \in Seq(Printable) /\ Len(script) = 1 /\ script[1] = c
    OBVIOUS
  <1> HIDE DEF script
  <1>2. PICK pre : /\ Abstract!Say(rows, script) = pre[1] /\ pre[0] = rows
                   /\ \A k \in 0 .. 1 - 1 : pre[k + 1] = Abstract!Put(pre[k], script[k + 1])
    BY <1>1, SaySteps
  <1>3. pre[0 + 1] = Abstract!Put(pre[0], script[0 + 1])
    <2>1. 0 \in 0 .. 1 - 1
      OBVIOUS
    <2>2. QED
      BY <1>2, <2>1
  <1>4. QED
    BY <1>1, <1>2, <1>3 DEF script

\* A step that leaves all screens but the one in front leaves their texts.
LEMMA FrontText ==
    ASSUME NEW t, Good(t), AllNeat(t), NEW u, Good(u), AllNeat(u), Beside(t, u)
    PROVE  /\ TextOf(u) = [TextOf(t) EXCEPT ![t.screen_index] = PageText(FrontPage(u))]
           /\ TextOf(t)[t.screen_index] = PageText(FrontPage(t))
           /\ u.screen_index = t.screen_index
  <1>1. /\ TextOf(t) = [s \in Screens |-> PageText(Page(t, s))]
        /\ TextOf(u) = [s \in Screens |-> PageText(Page(u, s))]
        /\ t.screen_index \in Screens
    BY TextOfPages, GoodFront
  <1>2. /\ u.screen_index = t.screen_index
        /\ \A s \in Screens \ {t.screen_index} : Page(u, s) = Page(t, s)
    BY DEF Beside
  <1>3. \A s \in Screens : s # t.screen_index => PageText(Page(u, s)) = PageText(Page(t, s))
    BY <1>2
  <1>4. QED
    BY <1>1, <1>2, <1>3 DEF FrontPage

\* What Enter says: a prompt, after a reply or on a fresh screen.
LEMMA EnterText ==
    ASSUME Good(tty), AllNeat(tty), Entered
    PROVE  /\ AllNeat(tty')
           /\ \E script \in Said :
                \/ PageText(FrontPage(tty')) = Abstract!Say(PageText(FrontPage(tty)), script)
                \/ PageText(FrontPage(tty')) = Abstract!Say(Fresh, script)
  <1>1. CASE EnterNothing
    <2>1. tty' = PrintStr(tty, Prompt) /\ Prompt \in Said
      BY <1>1 DEF EnterNothing, NewPrompt, Said
    <2>2. QED
      BY <2>1, Printables, PrintSays
  <1>2. CASE \E out \in Outputs : EnterCommand(out)
    <2>1. PICK out \in Outputs : EnterCommand(out)
      BY <1>2
    <2>2. tty' = PrintStr(tty, Reply(out)) /\ Reply(out) \in Said
      BY <2>1 DEF EnterCommand, NewPrompt, Said
    <2>3. QED
      BY <2>2, Printables, PrintSays
  <1>3. CASE EnterClear
    <2> DEFINE n == PrintNewLine(tty)
               t == ClearScreen(n)
    <2>1. Good(n) /\ Beside(tty, n)
      BY NewLineFacts, TurnsBeside
    <2> HIDE DEF n
    <2>2. Good(t) /\ Beside(n, t) /\ FrontPage(t) = EmptyPage
      BY <2>1, ClearFacts, TurnsBeside
    <2> HIDE DEF t
    <2>3. AllNeat(t)
      <3> SUFFICES ASSUME NEW s \in Screens PROVE Neat(Page(t, s))
        BY DEF AllNeat
      <3>1. CASE s = t.screen_index
        BY <2>2, <3>1, FreshFacts DEF FrontPage
      <3>2. CASE s # t.screen_index
        BY <2>1, <2>2, <3>2 DEF Beside, AllNeat
      <3>3. QED
        BY <3>1, <3>2
    <2>4. tty' = PrintStr(t, Prompt) /\ Prompt \in Said
      BY <1>3 DEF EnterClear, NewPrompt, Said, t, n
    <2>5. /\ AllNeat(tty')
          /\ PageText(FrontPage(tty')) = Abstract!Say(PageText(FrontPage(t)), Prompt)
      BY <2>2, <2>3, <2>4, Printables, PrintSays
    <2>6. QED
      BY <2>2, <2>4, <2>5, FreshFacts
  <1>4. QED
    BY <1>1, <1>2, <1>3 DEF Entered

LEMMA NextText ==
    ASSUME NoEditing, TypeInv, AllNeat(tty), [Next]_vars
    PROVE  AllNeat(tty') /\ [Abstract!Next]_(Abstract!vars)
  <1>1. /\ Good(tty) /\ front \in Screens /\ front = tty.screen_index
        /\ ctrl_pressed \in BOOLEAN /\ kernel \in {"running", "astray"}
        /\ front' = tty'.screen_index
    BY FrontInScreens DEF TypeInv, front
  <1>2. Text = TextOf(tty) /\ Text' = TextOf(tty')
    BY TextIsTextOf
  <1>3. ~TypeControl /\ ~Backspace
    BY DEF NoEditing, TypeControl, Backspace, Pressed
  <1>4. ASSUME Good(tty'), AllNeat(tty'), Beside(tty, tty'), NEW script \in Said,
               \/ PageText(FrontPage(tty')) = Abstract!Say(PageText(FrontPage(tty)), script)
               \/ PageText(FrontPage(tty')) = Abstract!Say(Fresh, script)
        PROVE  Abstract!Next
    <2>1. /\ Text' = [Text EXCEPT ![front] = PageText(FrontPage(tty'))]
          /\ Text[front] = PageText(FrontPage(tty)) /\ front' = front
      BY <1>1, <1>2, <1>4, FrontText
    <2>2. CASE PageText(FrontPage(tty')) = Abstract!Say(PageText(FrontPage(tty)), script)
      <3>1. Abstract!Write(script)
        BY <2>1, <2>2 DEF Abstract!Write
      <3>2. QED
        BY <1>4, <3>1 DEF Abstract!Next
    <2>3. CASE PageText(FrontPage(tty')) = Abstract!Say(Fresh, script)
      <3>1. Abstract!Restart(script)
        BY <2>1, <2>3 DEF Abstract!Restart, Fresh
      <3>2. QED
        BY <1>4, <3>1 DEF Abstract!Next
    <2>4. QED
      BY <1>4, <2>2, <2>3
  <1>5. CASE \E c \in Letters : TypeLetter(c)
    <2>1. PICK c \in Letters : TypeLetter(c)
      BY <1>5
    <2>2. Good(tty') /\ Beside(tty, tty')
      BY <1>1, <2>1, LetterStep
    <2>3. tty' = PrintOne(tty, c) /\ c \in Printable /\ <<c>> \in Said
      BY <2>1, Constants DEF TypeLetter, PrintOne, Printable, Said
    <2>4. /\ AllNeat(tty')
          /\ PageText(FrontPage(tty')) = Abstract!Put(PageText(FrontPage(tty)), c)
      BY <1>1, <2>3, PrintOneText
    <2>5. PageText(FrontPage(tty)) \in Texts
      BY <1>1, TextType DEF AllNeat, FrontPage
    <2>6. PageText(FrontPage(tty')) = Abstract!Say(PageText(FrontPage(tty)), <<c>>)
      BY <2>3, <2>4, <2>5, SayOne
    <2>7. QED
      BY <1>4, <2>2, <2>3, <2>4, <2>6
  <1>6. CASE Entered
    <2>1. Good(tty') /\ Beside(tty, tty')
      BY <1>1, <1>6, EnterStep
    <2>2. QED
      BY <1>1, <1>4, <1>6, <2>1, EnterText
  <1>7. CASE Quiet
    <2>1. Good(tty') /\ SamePages(tty, tty') /\ front' \in Screens
      BY <1>1, <1>7, QuietStep, GoodFront
    <2>2. AllNeat(tty')
      BY <2>1 DEF AllNeat, SamePages
    <2>3. Text' = Text
      <3>1. /\ TextOf(tty) = [s \in Screens |-> PageText(Page(tty, s))]
            /\ TextOf(tty') = [s \in Screens |-> PageText(Page(tty', s))]
        BY <1>1, <2>1, <2>2, TextOfPages
      <3>2. \A s \in Screens : Page(tty', s) = Page(tty, s)
        BY <2>1 DEF SamePages
      <3>3. QED
        BY <1>2, <3>1, <3>2
    <2>4. DOMAIN Text = Screens
      BY DEF Text
    <2>5. Abstract!Next
      BY <2>1, <2>3, <2>4 DEF Abstract!Next, Abstract!Show
    <2>6. QED
      BY <2>2, <2>5
  <1>8. QED
    BY <1>3, <1>5, <1>6, <1>7, Steps

\* As long as nothing is deleted, each screen is a text: whatever is printed is
\* added to it, only its oldest rows are lost, and neither scrolling nor
\* switching changes it, although cells, cursor, padding and row counters take
\* part in every step.
THEOREM ScreensImplementScrollback ==
    ASSUME NoEditing PROVE Spec => ImplementsScrollback
  <1>1. Init => AllNeat(tty) /\ Abstract!Init
    <2> SUFFICES ASSUME Init PROVE AllNeat(tty) /\ Abstract!Init
      OBVIOUS
    <2>1. tty = AfterMain /\ front = 0
      BY StartFacts DEF Init, front
    <2>2. Good(tty) /\ AllNeat(tty)
      BY <2>1, StartFacts, MainText
    <2>3. Text = [s \in Screens |-> PageText(Page(tty, s))]
      BY <2>2, TextIsTextOf, TextOfPages
    <2>4. \A s \in Screens : PageText(Page(tty, s)) = Abstract!Say(Fresh, Greeted[s])
      BY <2>1, MainText
    <2>5. DOMAIN Greeted = Screens
      BY DEF Greeted
    <2>6. Text = [s \in DOMAIN Greeted |-> Abstract!Say(<< <<>> >>, Greeted[s])]
      BY <2>3, <2>4, <2>5 DEF Fresh
    <2>7. QED
      BY <2>1, <2>2, <2>6 DEF Abstract!Init
  <1>2. TypeInv /\ AllNeat(tty) /\ [Next]_vars
          => AllNeat(tty)' /\ [Abstract!Next]_(Abstract!vars)
    <2> SUFFICES ASSUME TypeInv, AllNeat(tty), [Next]_vars
                 PROVE  AllNeat(tty)' /\ [Abstract!Next]_(Abstract!vars)
      OBVIOUS
    <2>1. AllNeat(tty') /\ [Abstract!Next]_(Abstract!vars)
      BY NextText
    <2>2. AllNeat(tty)' <=> AllNeat(tty')
      BY DEF AllNeat, Page, CursorIn
    <2>3. QED
      BY <2>1, <2>2
  <1>3. QED
    BY <1>1, <1>2, InitTypeInv, NextTypeInv, PTL
    DEF Spec, ImplementsScrollback, Abstract!Spec

=============================================================================
