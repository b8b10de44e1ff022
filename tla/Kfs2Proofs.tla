------------------------------ MODULE Kfs2Proofs ------------------------------
(***************************************************************************)
(* Proofs about the screens and the shell of kfs2 bonus, for every size of *)
(* the screen and the buffer, every number of screens, every alphabet and  *)
(* every text that is printed.                                             *)
(*                                                                         *)
(* A page is one screen by itself: its cells, its cursor and its row       *)
(* counter.  The first part is about pages, the second shows that the      *)
(* operations of screen.c on the globals are operations on the page in     *)
(* front and leave the others alone, the third has the invariants and the  *)
(* theorems that follow from them.                                         *)
(***************************************************************************)
EXTENDS Kfs2, NatFacts, SequenceTheorems, TLAPS

Indices == 0 .. Size - 1
Top == (BUFFER_ROWS - 1) * VGA_COLS   \* the start of the last row

LEMMA Constants ==
    /\ VGA_ROWS \in Nat \ {0} /\ VGA_COLS \in Nat \ {0} /\ NUM_SCREENS \in Nat \ {0}
    /\ BUFFER_ROWS \in Nat /\ BUFFER_ROWS > VGA_ROWS
    /\ SHELL_CMD_BUFFER_SIZE \in Nat /\ MaxTyped \in Nat
    /\ Word \in Nat /\ Short \in Nat /\ Short > BUFFER_ROWS /\ Word > Short
    /\ "blank" \in Cells /\ "mark" \in Cells /\ "space" \in Cells /\ Letters \subseteq Cells
    /\ "newline" \notin Cells /\ "tab" \notin Cells
    /\ "blank" \notin Letters /\ "mark" \notin Letters
    /\ Screens = 0 .. NUM_SCREENS - 1 /\ 0 \in Screens
  BY Kfs2Assumption DEF Cells, Screens

LEMMA Sizes ==
    /\ Size \in Nat /\ Top \in Nat /\ VGA_ROWS * VGA_COLS \in Nat
    /\ Size = Top + VGA_COLS /\ VGA_ROWS * VGA_COLS <= Top
    /\ VGA_COLS <= VGA_ROWS * VGA_COLS
    /\ VGA_COLS <= Top
  <1>1. /\ VGA_ROWS \in Nat \ {0} /\ VGA_COLS \in Nat \ {0} /\ BUFFER_ROWS \in Nat
        /\ VGA_ROWS <= BUFFER_ROWS - 1 /\ 1 <= VGA_ROWS /\ BUFFER_ROWS - 1 \in Nat
    BY Constants
  <1>2. VGA_ROWS * VGA_COLS <= (BUFFER_ROWS - 1) * VGA_COLS /\ 1 * VGA_COLS <= VGA_ROWS * VGA_COLS
    BY <1>1, TimesMonotonic
  <1>3. /\ BUFFER_ROWS * VGA_COLS = (BUFFER_ROWS - 1) * VGA_COLS + VGA_COLS
        /\ (BUFFER_ROWS - 1) * VGA_COLS \in Nat /\ VGA_ROWS * VGA_COLS \in Nat
    BY <1>1
  <1>4. QED
    BY <1>1, <1>2, <1>3 DEF Size, Top

----------------------------------------------------------------------------
(* Pages *)

----------------------------------------------------------------------------
(* Pages *)

PageRec == [cells : [Indices -> Cells], at : Int, rows : 0 .. BUFFER_ROWS - 1]

\* Nothing stands behind the cursor.
Bare(p) == \A j \in Indices : p.at <= j => p.cells[j] = "blank"

\* The cursor is in the buffer, and no row below those that are counted.
Sheet(p) ==
    /\ p \in PageRec
    /\ p.at \in Indices
    /\ p.at \div VGA_COLS <= p.rows
    /\ Bare(p)

\* A row has been begun that is not counted yet.
Ended(p) ==
    /\ p \in PageRec
    /\ p.at \in Nat /\ p.at <= Size /\ p.at % VGA_COLS = 0
    /\ p.at \div VGA_COLS - 1 <= p.rows
    /\ p.rows = BUFFER_ROWS - 1 => VGA_COLS <= p.at
    /\ Bare(p)

\* The rows that are counted below the one of the cursor.
Ahead(p) == p.rows - (p.at \div VGA_COLS)

PageUp(p) ==
    [cells |-> [j \in Indices |-> IF j < Top THEN p.cells[j + VGA_COLS] ELSE "blank"],
     at |-> p.at - VGA_COLS, rows |-> p.rows]
PageRow(p) ==
    IF p.rows = BUFFER_ROWS - 1 THEN PageUp(p)
    ELSE [cells |-> p.cells, at |-> p.at, rows |-> p.rows + 1]
Filled(p, c) ==
    [cells |-> [j \in Indices |-> IF j = p.at THEN c ELSE p.cells[j]],
     at |-> p.at + 1, rows |-> p.rows]
PagePut(p, c) ==
    IF (p.at + 1) % VGA_COLS = 0 THEN PageRow(Filled(p, c)) ELSE Filled(p, c)
PageTab(p) == IF p.at % VGA_COLS = 0 THEN PageRow(p) ELSE p
Rest(k) == VGA_COLS - (k % VGA_COLS)
Padded(p) ==
    [cells |-> [j \in Indices |-> IF p.at <= j /\ j < p.at + Rest(p.at)
                                  THEN "space" ELSE p.cells[j]],
     at |-> p.at + Rest(p.at), rows |-> p.rows]
PageLine(p) == PageRow(Padded(p))
PageErased(p) ==
    [cells |-> [j \in Indices |-> IF j = p.at - 1 THEN "blank" ELSE p.cells[j]],
     at |-> p.at - 1,
     rows |-> IF p.at % VGA_COLS = 0 /\ p.rows # BUFFER_ROWS - 1 THEN p.rows - 1 ELSE p.rows]
EmptyPage == [cells |-> [j \in Indices |-> "blank"], at |-> 0, rows |-> 0]

\* Where a cursor in row r of the buffer can be.
LEMMA RowOf ==
    ASSUME NEW k \in Nat
    PROVE  /\ k \div VGA_COLS \in Nat
           /\ (k \div VGA_COLS) * VGA_COLS <= k /\ k < (k \div VGA_COLS) * VGA_COLS + VGA_COLS
           /\ k < Size <=> k \div VGA_COLS <= BUFFER_ROWS - 1
           /\ k < VGA_ROWS * VGA_COLS <=> k \div VGA_COLS < VGA_ROWS
           /\ Top <= k <=> BUFFER_ROWS - 1 <= k \div VGA_COLS
  <1> DEFINE q == k \div VGA_COLS
  <1>1. /\ VGA_COLS \in Nat \ {0} /\ VGA_ROWS \in Nat /\ BUFFER_ROWS \in Nat
        /\ BUFFER_ROWS - 1 \in Nat
    BY Constants
  <1>2. q \in Nat /\ q * VGA_COLS <= k /\ k < (q + 1) * VGA_COLS
    BY <1>1, DivBounds
  <1>3. /\ (q + 1) * VGA_COLS = q * VGA_COLS + VGA_COLS
        /\ q * VGA_COLS \in Nat
    BY <1>1, <1>2
  <1>4. /\ q <= BUFFER_ROWS - 1 => (q + 1) * VGA_COLS <= BUFFER_ROWS * VGA_COLS
        /\ BUFFER_ROWS <= q => BUFFER_ROWS * VGA_COLS <= q * VGA_COLS
        /\ q + 1 <= VGA_ROWS => (q + 1) * VGA_COLS <= VGA_ROWS * VGA_COLS
        /\ VGA_ROWS <= q => VGA_ROWS * VGA_COLS <= q * VGA_COLS
        /\ BUFFER_ROWS - 1 <= q => (BUFFER_ROWS - 1) * VGA_COLS <= q * VGA_COLS
        /\ q + 1 <= BUFFER_ROWS - 1 => (q + 1) * VGA_COLS <= (BUFFER_ROWS - 1) * VGA_COLS
    BY <1>1, <1>2, TimesMonotonic
  <1>5. /\ BUFFER_ROWS * VGA_COLS \in Nat /\ VGA_ROWS * VGA_COLS \in Nat
        /\ (BUFFER_ROWS - 1) * VGA_COLS \in Nat
    BY <1>1
  <1> HIDE DEF q
  <1>6. k < BUFFER_ROWS * VGA_COLS <=> q <= BUFFER_ROWS - 1
    BY <1>1, <1>2, <1>4, <1>5, <1>3
  <1>7. k < VGA_ROWS * VGA_COLS <=> q < VGA_ROWS
    BY <1>1, <1>2, <1>4, <1>5, <1>3
  <1>8. (BUFFER_ROWS - 1) * VGA_COLS <= k <=> BUFFER_ROWS - 1 <= q
    BY <1>1, <1>2, <1>4, <1>5, <1>3
  <1>9. QED
    BY <1>2, <1>3, <1>6, <1>7, <1>8 DEF q, Size, Top

\* One cell on: into the next row, or not.
LEMMA NextCell ==
    ASSUME NEW k \in Nat
    PROVE  /\ (k + 1) % VGA_COLS = 0 =>
                (k + 1) \div VGA_COLS = k \div VGA_COLS + 1 /\ VGA_COLS <= k + 1
           /\ (k + 1) % VGA_COLS # 0 => (k + 1) \div VGA_COLS = k \div VGA_COLS
           /\ (k + 1) % VGA_COLS = 0 <=> Rest(k) = 1
  <1> DEFINE q == k \div VGA_COLS
             m == k % VGA_COLS
  <1>1. VGA_COLS \in Nat \ {0}
    BY Constants
  <1>2. q \in Nat /\ m \in Nat /\ m < VGA_COLS /\ k = q * VGA_COLS + m
        /\ q * VGA_COLS \in Nat /\ Rest(k) = VGA_COLS - m
    BY <1>1, DivMod DEF Rest
  <1> HIDE DEF q, m
  <1>3. CASE m = VGA_COLS - 1
    <2>1. MadeOf(k + 1, VGA_COLS, q + 1, 0)
      BY <1>1, <1>2, <1>3 DEF MadeOf
    <2>2. (k + 1) \div VGA_COLS = q + 1 /\ (k + 1) % VGA_COLS = 0
      BY <1>1, <1>2, <2>1, DivModUnique
    <2>3. QED
      BY <1>1, <1>2, <1>3, <2>2 DEF q
  <1>4. CASE m # VGA_COLS - 1
    <2>1. MadeOf(k + 1, VGA_COLS, q, m + 1)
      BY <1>1, <1>2, <1>4 DEF MadeOf
    <2>2. (k + 1) \div VGA_COLS = q /\ (k + 1) % VGA_COLS = m + 1
      BY <1>1, <1>2, <2>1, DivModUnique
    <2>3. m + 1 # 0 /\ VGA_COLS - m # 1
      BY <1>1, <1>2, <1>4
    <2>4. QED
      BY <1>2, <2>2, <2>3 DEF q
  <1>5. QED
    BY <1>3, <1>4

\* The start of the next row.
LEMMA NextRow ==
    ASSUME NEW k \in Nat
    PROVE  /\ Rest(k) \in 1 .. VGA_COLS /\ k + Rest(k) \in Nat
           /\ (k + Rest(k)) \div VGA_COLS = k \div VGA_COLS + 1
           /\ (k + Rest(k)) % VGA_COLS = 0
           /\ VGA_COLS <= k + Rest(k)
           /\ k + Rest(k) = (k \div VGA_COLS) * VGA_COLS + VGA_COLS
  <1> DEFINE q == k \div VGA_COLS
             m == k % VGA_COLS
  <1>1. VGA_COLS \in Nat \ {0}
    BY Constants
  <1>2. q \in Nat /\ m \in Nat /\ m < VGA_COLS /\ k = q * VGA_COLS + m
        /\ q * VGA_COLS \in Nat /\ Rest(k) = VGA_COLS - m
    BY <1>1, DivMod DEF Rest
  <1> HIDE DEF q, m
  <1>3. (q + 1) * VGA_COLS = q * VGA_COLS + VGA_COLS
    BY <1>1, <1>2
  <1>4. MadeOf(k + Rest(k), VGA_COLS, q + 1, 0)
    BY <1>1, <1>2, <1>3 DEF MadeOf
  <1>5. (k + Rest(k)) \div VGA_COLS = q + 1 /\ (k + Rest(k)) % VGA_COLS = 0
    BY <1>1, <1>2, <1>4, DivModUnique
  <1>6. QED
    BY <1>1, <1>2, <1>3, <1>5 DEF q

\* One row up.
LEMMA RowAbove ==
    ASSUME NEW k \in Nat, VGA_COLS <= k
    PROVE  /\ k - VGA_COLS \in Nat
           /\ (k - VGA_COLS) \div VGA_COLS = k \div VGA_COLS - 1
           /\ (k - VGA_COLS) % VGA_COLS = k % VGA_COLS
  <1> DEFINE q == k \div VGA_COLS
             m == k % VGA_COLS
  <1>1. VGA_COLS \in Nat \ {0}
    BY Constants
  <1>2. q \in Nat /\ m \in Nat /\ m < VGA_COLS /\ k = q * VGA_COLS + m
    BY <1>1, DivMod
  <1>3. VGA_COLS <= q * VGA_COLS + m
    BY <1>2
  <1> HIDE DEF q, m
  <1>4. q # 0
    BY <1>1, <1>2, <1>3
  <1>5. (q - 1) * VGA_COLS = q * VGA_COLS - VGA_COLS
    BY <1>1, <1>2
  <1>6. MadeOf(k - VGA_COLS, VGA_COLS, q - 1, m)
    BY <1>1, <1>2, <1>4, <1>5 DEF MadeOf
  <1>7. QED
    BY <1>1, <1>2, <1>3, <1>6, DivModUnique DEF q, m

LEMMA PageTypes ==
    ASSUME NEW p, p \in PageRec
    PROVE  /\ p.at \in Int /\ p.rows \in Nat /\ p.rows \in 0 .. BUFFER_ROWS - 1
           /\ p.cells \in [Indices -> Cells] /\ DOMAIN p.cells = Indices
           /\ \A j \in Indices : p.cells[j] \in Cells
  BY Constants DEF PageRec

LEMMA ZeroAt == 0 \div VGA_COLS = 0 /\ 0 % VGA_COLS = 0 /\ 0 \in Indices
  <1>1. VGA_COLS \in Nat \ {0} /\ Size \in Nat /\ Top \in Nat /\ Size = Top + VGA_COLS
    BY Constants, Sizes
  <1>2. PICK z \in Nat : z = 0
    OBVIOUS
  <1>3. MadeOf(z, VGA_COLS, z, z)
    BY <1>1, <1>2 DEF MadeOf
  <1>4. z \div VGA_COLS = z /\ z % VGA_COLS = z
    BY <1>1, <1>3, DivModUnique
  <1>5. 0 \in Indices
    BY <1>1 DEF Indices
  <1>6. QED
    BY <1>2, <1>4, <1>5

\* The cells in front of the cursor move with it, by one row if at all.
Moves(p, q, d) ==
    /\ q.at = p.at - d
    /\ \A j \in Indices : j < q.at => j + d \in Indices /\ q.cells[j] = p.cells[j + d]

LEMMA MovesNot == \A p, q : p.at \in Int /\ q.at = p.at /\ q.cells = p.cells => Moves(p, q, 0)
  <1> SUFFICES ASSUME NEW p, NEW q, p.at \in Int, q.at = p.at, q.cells = p.cells
               PROVE  Moves(p, q, 0)
    OBVIOUS
  <1>1. \A j \in Indices : j + 0 = j
    BY Sizes DEF Indices
  <1>2. p.at - 0 = p.at
    OBVIOUS
  <1>3. QED
    BY <1>1, <1>2 DEF Moves

LEMMA PageUpFacts ==
    ASSUME NEW p, Ended(p), p.rows = BUFFER_ROWS - 1
    PROVE  /\ Sheet(PageUp(p)) /\ Moves(p, PageUp(p), VGA_COLS)
           /\ PageUp(p).rows = p.rows /\ Ahead(PageUp(p)) = Ahead(p) + 1
  <1> DEFINE q == PageUp(p)
  <1>1. /\ p \in PageRec /\ p.at \in Nat /\ p.at <= Size /\ VGA_COLS <= p.at
        /\ p.at \div VGA_COLS - 1 <= p.rows /\ Bare(p)
    BY DEF Ended
  <1>2. /\ Size \in Nat /\ Top \in Nat /\ Size = Top + VGA_COLS /\ VGA_COLS \in Nat \ {0}
        /\ BUFFER_ROWS \in Nat /\ "blank" \in Cells
    BY Constants, Sizes
  <1>3. \A j \in Indices : j < Top => j + VGA_COLS \in Indices
    BY <1>2 DEF Indices
  <1>4. /\ q.at = p.at - VGA_COLS /\ q.rows = p.rows
        /\ q.cells = [j \in Indices |-> IF j < Top THEN p.cells[j + VGA_COLS] ELSE "blank"]
    BY DEF PageUp
  <1>5. q.cells \in [Indices -> Cells]
    BY <1>1, <1>2, <1>3, <1>4, PageTypes
  <1>6. /\ q.at \in Nat /\ q.at <= Top /\ q.at \div VGA_COLS = p.at \div VGA_COLS - 1
        /\ p.at \div VGA_COLS \in Nat
    <2>1. /\ p.at - VGA_COLS \in Nat
          /\ (p.at - VGA_COLS) \div VGA_COLS = p.at \div VGA_COLS - 1
      BY <1>1, RowAbove
    <2>2. p.at - VGA_COLS <= Top
      BY <1>1, <1>2
    <2>3. QED
      BY <1>1, <1>4, <2>1, <2>2, RowOf
  <1>7. q.at \in Indices
    BY <1>2, <1>6 DEF Indices
  <1>8. q \in PageRec
    BY <1>1, <1>4, <1>5, <1>6, PageTypes DEF PageRec, PageUp
  <1>10. \A j \in Indices : j \in Nat
    BY <1>2 DEF Indices
  <1>12. \A j \in Indices : j < Top => q.cells[j] = p.cells[j + VGA_COLS]
    BY <1>2, <1>4, <1>10
  <1>11. Bare(q)
    <2> SUFFICES ASSUME NEW j \in Indices, q.at <= j PROVE q.cells[j] = "blank"
      BY DEF Bare
    <2>1. CASE j < Top
      <3>1. j + VGA_COLS \in Indices /\ p.at <= j + VGA_COLS
        BY <1>1, <1>2, <1>3, <1>4, <1>10, <2>1
      <3>2. QED
        BY <1>1, <1>12, <2>1, <3>1 DEF Bare
    <2>2. CASE ~ (j < Top)
      BY <1>4, <2>2
    <2>3. QED
      BY <2>1, <2>2
  <1>9. Sheet(q)
    BY <1>1, <1>4, <1>6, <1>7, <1>8, <1>11 DEF Sheet
  <1>13. Moves(p, q, VGA_COLS)
    BY <1>2, <1>3, <1>4, <1>6, <1>10, <1>12 DEF Moves
  <1>14. Ahead(q) = Ahead(p) + 1
    <2>1. p.rows \in Int /\ p.at \div VGA_COLS \in Int
      BY <1>1, <1>6, PageTypes
    <2>2. QED
      BY <1>4, <1>6, <2>1 DEF Ahead
  <1>15. QED
    BY <1>4, <1>9, <1>13, <1>14

LEMMA PageRowFacts ==
    ASSUME NEW p, Ended(p)
    PROVE  /\ Sheet(PageRow(p)) /\ Ahead(PageRow(p)) = Ahead(p) + 1
           /\ \/ /\ Moves(p, PageRow(p), 0) /\ PageRow(p).cells = p.cells
                 /\ PageRow(p).rows = p.rows + 1
              \/ /\ Moves(p, PageRow(p), VGA_COLS)
                 /\ p.rows = BUFFER_ROWS - 1 /\ PageRow(p).rows = p.rows
  <1> DEFINE q == PageRow(p)
  <1>1. /\ p \in PageRec /\ p.at \in Nat /\ p.at <= Size /\ Bare(p)
        /\ p.at \div VGA_COLS - 1 <= p.rows /\ p.at \div VGA_COLS \in Nat
    BY Constants, DivBounds DEF Ended
  <1>2. Size \in Nat /\ BUFFER_ROWS \in Nat /\ VGA_COLS \in Nat \ {0} /\ BUFFER_ROWS # 0
    BY Constants, Sizes
  <1>3. CASE p.rows = BUFFER_ROWS - 1
    BY <1>3, PageUpFacts DEF PageRow
  <1>4. CASE p.rows # BUFFER_ROWS - 1
    <2>1. /\ q = [cells |-> p.cells, at |-> p.at, rows |-> p.rows + 1]
          /\ q.cells = p.cells /\ q.at = p.at /\ q.rows = p.rows + 1
      BY <1>4 DEF PageRow
    <2>2. p.rows \in 0 .. BUFFER_ROWS - 1
      BY <1>1, PageTypes
    <2>3. q.rows \in 0 .. BUFFER_ROWS - 1 /\ p.at \div VGA_COLS <= q.rows
      BY <1>1, <1>2, <1>4, <2>1, <2>2
    <2>4. p.at \div VGA_COLS <= BUFFER_ROWS - 1
      BY <1>1, <1>2, <2>3
    <2>5. p.at < Size
      BY <1>1, <1>2, <2>4, RowOf
    <2>6. q \in PageRec
      BY <1>1, <2>1, <2>3, PageTypes DEF PageRec
    <2>7. Sheet(q)
      BY <1>1, <1>2, <2>1, <2>3, <2>5, <2>6 DEF Sheet, Indices, Bare
    <2>8. Moves(p, q, 0)
      BY <1>1, <2>1, MovesNot
    <2>9. Ahead(q) = Ahead(p) + 1
      BY <1>1, <1>2, <2>1, <2>2 DEF Ahead
    <2>10. QED
      BY <2>1, <2>7, <2>8, <2>9
  <1>5. QED
    BY <1>3, <1>4

\* A character goes to the cell of the cursor.
LEMMA FilledFacts ==
    ASSUME NEW p, Sheet(p), NEW c \in Cells
    PROVE  /\ Filled(p, c) \in PageRec /\ Filled(p, c).at = p.at + 1
           /\ p.at \in Nat /\ p.at < Size /\ p.at \in Indices
           /\ Filled(p, c).rows = p.rows
           /\ Filled(p, c).cells[p.at] = c
           /\ \A j \in Indices : j # p.at => Filled(p, c).cells[j] = p.cells[j]
           /\ (p.at + 1) % VGA_COLS = 0 =>
                Ended(Filled(p, c)) /\ Ahead(Filled(p, c)) + 1 = Ahead(p)
           /\ (p.at + 1) % VGA_COLS # 0 =>
                Sheet(Filled(p, c)) /\ Ahead(Filled(p, c)) = Ahead(p)
  <1> DEFINE q == Filled(p, c)
  <1>1. /\ p \in PageRec /\ p.at \in Indices /\ p.at \in Nat /\ p.at < Size
        /\ p.at \div VGA_COLS <= p.rows /\ Bare(p) /\ p.rows \in Nat
    BY Sizes, PageTypes DEF Sheet, Indices
  <1>2. /\ Size \in Nat /\ BUFFER_ROWS \in Nat /\ VGA_COLS \in Nat \ {0} /\ BUFFER_ROWS # 0
    BY Constants, Sizes
  <1>3. /\ q.cells = [j \in Indices |-> IF j = p.at THEN c ELSE p.cells[j]]
        /\ q.at = p.at + 1 /\ q.rows = p.rows
    BY DEF Filled
  <1>4. q.cells \in [Indices -> Cells] /\ q.rows \in 0 .. BUFFER_ROWS - 1
    BY <1>1, <1>3, PageTypes
  <1>5. q \in PageRec
    BY <1>1, <1>3, <1>4 DEF PageRec, Filled
  <1>6. /\ q.cells[p.at] = c
        /\ \A j \in Indices : j # p.at => q.cells[j] = p.cells[j]
    BY <1>1, <1>3
  <1>7. p.at \div VGA_COLS \in Nat
    BY <1>1, <1>2, DivBounds
  <1>11. Bare(q)
    <2>1. \A j \in Indices : j \in Nat
      BY <1>2 DEF Indices
    <2>2. QED
      BY <1>1, <1>3, <1>6, <2>1 DEF Bare
  <1>8. CASE (p.at + 1) % VGA_COLS = 0
    <2>1. (p.at + 1) \div VGA_COLS = p.at \div VGA_COLS + 1 /\ VGA_COLS <= p.at + 1
      BY <1>1, <1>8, NextCell
    <2>2. p.at + 1 \in Nat /\ p.at + 1 <= Size
      BY <1>1, <1>2
    <2>4. Ended(q)
      BY <1>1, <1>3, <1>5, <1>7, <1>8, <1>11, <2>1, <2>2 DEF Ended
    <2>5. Ahead(q) + 1 = Ahead(p)
      BY <1>1, <1>3, <1>7, <2>1 DEF Ahead
    <2>6. QED
      BY <1>1, <1>3, <1>5, <1>6, <1>8, <2>4, <2>5
  <1>9. CASE (p.at + 1) % VGA_COLS # 0
    <2>1. (p.at + 1) \div VGA_COLS = p.at \div VGA_COLS
      BY <1>1, <1>9, NextCell
    <2>2. p.at \div VGA_COLS <= BUFFER_ROWS - 1
      BY <1>1, <1>2, RowOf
    <2>3. p.at + 1 \in Nat /\ p.at + 1 < Size
      BY <1>1, <2>1, <2>2, RowOf
    <2>4. Sheet(q)
      BY <1>1, <1>2, <1>3, <1>5, <1>11, <2>1, <2>3 DEF Sheet, Indices
    <2>5. Ahead(q) = Ahead(p)
      BY <1>3, <2>1 DEF Ahead
    <2>6. QED
      BY <1>1, <1>3, <1>5, <1>6, <1>9, <2>4, <2>5
  <1>10. QED
    BY <1>8, <1>9

\* A cell that was written has moved by no row, or by one at the limit.
Shifts(p, q) ==
    \/ Moves(p, q, 0) /\ p.rows <= q.rows
    \/ Moves(p, q, VGA_COLS) /\ p.rows = BUFFER_ROWS - 1 /\ q.rows = BUFFER_ROWS - 1

LEMMA PutOnPage ==
    ASSUME NEW p, Sheet(p), NEW c \in Cells
    PROVE  /\ Sheet(PagePut(p, c)) /\ Ahead(PagePut(p, c)) = Ahead(p)
           /\ Shifts(Filled(p, c), PagePut(p, c))
  <1>0. Filled(p, c) \in PageRec /\ Filled(p, c).at \in Int /\ Filled(p, c).rows \in Nat
    BY FilledFacts, PageTypes
  <1>1. CASE (p.at + 1) % VGA_COLS = 0
    <2> DEFINE f == Filled(p, c)
    <2>1. Ended(f) /\ Ahead(f) + 1 = Ahead(p)
      BY <1>1, FilledFacts
    <2>2. PagePut(p, c) = PageRow(f)
      BY <1>1 DEF PagePut
    <2>3. f.rows \in Nat
      BY <1>0
    <2> HIDE DEF f
    <2>4. /\ Sheet(PageRow(f)) /\ Ahead(PageRow(f)) = Ahead(p)
          /\ Shifts(f, PageRow(f))
      BY <2>1, <2>3, PageRowFacts DEF Shifts
    <2>5. QED
      BY <2>2, <2>4 DEF f
  <1>2. CASE (p.at + 1) % VGA_COLS # 0
    <2>1. PagePut(p, c) = Filled(p, c) /\ Sheet(Filled(p, c)) /\ Ahead(Filled(p, c)) = Ahead(p)
      BY <1>2, FilledFacts DEF PagePut
    <2>2. Shifts(Filled(p, c), Filled(p, c))
      BY <1>0, MovesNot DEF Shifts
    <2>3. QED
      BY <2>1, <2>2
  <1>3. QED
    BY <1>1, <1>2

\* A control character at the start of a row counts a row.
LEMMA TabOnPage ==
    ASSUME NEW p, Sheet(p), p.at # 0 \/ p.rows # BUFFER_ROWS - 1
    PROVE  /\ Sheet(PageTab(p)) /\ Shifts(p, PageTab(p))
           /\ Ahead(PageTab(p)) = Ahead(p) + (IF p.at % VGA_COLS = 0 THEN 1 ELSE 0)
           /\ p.at % VGA_COLS = 0 => Ended(p)
  <1>1. /\ p \in PageRec /\ p.at \in Indices /\ p.at \in Nat /\ p.at < Size
        /\ p.at \div VGA_COLS <= p.rows /\ Bare(p) /\ p.rows \in Nat
    BY Sizes, PageTypes DEF Sheet, Indices
  <1>6. p.at \div VGA_COLS \in Nat /\ Ahead(p) \in Int
    <2>1. p.at \div VGA_COLS \in Nat
      BY <1>1, RowOf
    <2>2. QED
      BY <1>1, <2>1 DEF Ahead
  <1>2. Size \in Nat /\ VGA_COLS \in Nat \ {0}
    BY Constants, Sizes
  <1>3. CASE p.at % VGA_COLS = 0
    <2>1. p.at # 0 => VGA_COLS <= p.at
      BY <1>1, <1>2, <1>3, ModOfSmall
    <2>5. PICK d \in Nat : d = p.at \div VGA_COLS
      BY <1>6
    <2>6. p.at \div VGA_COLS - 1 <= p.rows
      BY <1>1, <2>5
    <2>2. Ended(p)
      BY <1>1, <1>2, <1>3, <2>1, <2>6 DEF Ended
    <2>3. PageTab(p) = PageRow(p)
      BY <1>3 DEF PageTab
    <2>4. QED
      BY <1>1, <1>6, <1>3, <2>2, <2>3, PageRowFacts DEF Shifts
  <1>4. CASE p.at % VGA_COLS # 0
    <2>1. PageTab(p) = p
      BY <1>4 DEF PageTab
    <2>2. Shifts(p, p)
      BY <1>1, MovesNot DEF Shifts
    <2>3. QED
      BY <1>1, <1>4, <1>6, <2>1, <2>2
  <1>5. QED
    BY <1>3, <1>4

\* The row of the cursor is filled up with spaces.
LEMMA PaddedFacts ==
    ASSUME NEW p, Sheet(p)
    PROVE  /\ Ended(Padded(p)) /\ Padded(p).rows = p.rows /\ Ahead(Padded(p)) + 1 = Ahead(p)
           /\ p.at \in Nat /\ p.at < Size
           /\ Padded(p).at = p.at + Rest(p.at)
           /\ \A j \in Indices : j < p.at => Padded(p).cells[j] = p.cells[j]
  <1> DEFINE q == Padded(p)
  <1>1. /\ p \in PageRec /\ p.at \in Indices /\ p.at \in Nat /\ p.at < Size
        /\ p.at \div VGA_COLS <= p.rows /\ Bare(p) /\ p.rows \in Nat
    BY Sizes, PageTypes DEF Sheet, Indices
  <1>2. /\ Size \in Nat /\ BUFFER_ROWS \in Nat /\ VGA_COLS \in Nat \ {0} /\ BUFFER_ROWS # 0
        /\ Top \in Nat /\ Size = Top + VGA_COLS /\ "space" \in Cells
    BY Constants, Sizes
  <1>3. /\ q.cells = [j \in Indices |-> IF p.at <= j /\ j < p.at + Rest(p.at)
                                        THEN "space" ELSE p.cells[j]]
        /\ q.at = p.at + Rest(p.at) /\ q.rows = p.rows
    BY DEF Padded
  <1>4. /\ Rest(p.at) \in 1 .. VGA_COLS /\ p.at + Rest(p.at) \in Nat
        /\ (p.at + Rest(p.at)) \div VGA_COLS = p.at \div VGA_COLS + 1
        /\ (p.at + Rest(p.at)) % VGA_COLS = 0 /\ VGA_COLS <= p.at + Rest(p.at)
        /\ p.at + Rest(p.at) = (p.at \div VGA_COLS) * VGA_COLS + VGA_COLS
    BY <1>1, NextRow
  <1>5. q.cells \in [Indices -> Cells] /\ q.rows \in 0 .. BUFFER_ROWS - 1
    BY <1>1, <1>2, <1>3, PageTypes
  <1>6. q \in PageRec
    BY <1>1, <1>3, <1>4, <1>5 DEF PageRec, Padded
  <1>7. p.at + Rest(p.at) <= Size
    <2>1. p.at \div VGA_COLS <= BUFFER_ROWS - 1 /\ p.at \div VGA_COLS \in Nat
      BY <1>1, <1>2, RowOf
    <2>2. (p.at \div VGA_COLS) * VGA_COLS <= Top
      BY <1>2, <2>1, TimesMonotonic DEF Top
    <2>3. (p.at \div VGA_COLS) * VGA_COLS \in Nat
      BY <1>2, <2>1
    <2>4. QED
      BY <1>2, <1>4, <2>2, <2>3
  <1>11. \A j \in Indices : j \in Nat
    BY <1>2 DEF Indices
  <1>8. Bare(q)
    <2> SUFFICES ASSUME NEW j \in Indices, q.at <= j PROVE q.cells[j] = "blank"
      BY DEF Bare
    <2>1. p.at <= j /\ ~ (j < p.at + Rest(p.at))
      BY <1>1, <1>3, <1>4, <1>11
    <2>2. QED
      BY <1>1, <1>3, <2>1 DEF Bare
  <1>9. PICK d \in Nat : d = p.at \div VGA_COLS
    BY <1>1, <1>2, DivBounds
  <1>10. Ended(q) /\ Ahead(q) + 1 = Ahead(p)
    <2>1. PICK e \in Nat : e = p.at + Rest(p.at)
      BY <1>4
    <2>2. e \div VGA_COLS = d + 1 /\ d <= p.rows
      BY <1>1, <1>4, <1>9, <2>1
    <2>3. e \div VGA_COLS - 1 <= p.rows
      BY <1>1, <2>2
    <2>4. /\ q.at \in Nat /\ q.at <= Size /\ q.at % VGA_COLS = 0 /\ VGA_COLS <= q.at
          /\ q.at \div VGA_COLS - 1 <= q.rows
      BY <1>3, <1>4, <1>7, <2>1, <2>3
    <2>5. q.rows - (q.at \div VGA_COLS) + 1 = p.rows - (p.at \div VGA_COLS)
      BY <1>1, <1>3, <1>9, <2>1, <2>2
    <2> HIDE DEF q
    <2>6. QED
      BY <1>6, <1>8, <2>4, <2>5 DEF Ended, Ahead
  <1>12. \A j \in Indices : j < p.at => q.cells[j] = p.cells[j]
    BY <1>1, <1>3, <1>4, <1>11
  <1>13. QED
    BY <1>1, <1>3, <1>4, <1>10, <1>12

LEMMA LineOnPage ==
    ASSUME NEW p, Sheet(p)
    PROVE  Sheet(PageLine(p)) /\ Ahead(PageLine(p)) = Ahead(p)
  BY PaddedFacts, PageRowFacts DEF PageLine

\* What is deleted leaves a blank; the row counter follows below its limit.
LEMMA ErasedFacts ==
    ASSUME NEW p, Sheet(p), p.at # 0
    PROVE  /\ Sheet(PageErased(p)) /\ p.at \in Nat \ {0}
           /\ PageErased(p).at = p.at - 1
           /\ \A j \in Indices : j < p.at - 1 => PageErased(p).cells[j] = p.cells[j]
           /\ p.rows = BUFFER_ROWS - 1 => PageErased(p).rows = p.rows
           /\ Ahead(PageErased(p)) =
                Ahead(p) + (IF p.at % VGA_COLS = 0 /\ p.rows = BUFFER_ROWS - 1 THEN 1 ELSE 0)
           /\ (p.at - 1) % VGA_COLS = VGA_COLS - 1 <=> p.at % VGA_COLS = 0
  <1> DEFINE q == PageErased(p)
             leaves == p.at % VGA_COLS = 0
  <1>1. /\ p \in PageRec /\ p.at \in Nat \ {0} /\ p.at < Size /\ Bare(p) /\ p.rows \in Nat
        /\ p.at \div VGA_COLS <= p.rows
    BY Sizes, PageTypes DEF Sheet, Indices
  <1>2. /\ q.cells = [j \in Indices |-> IF j = p.at - 1 THEN "blank" ELSE p.cells[j]]
        /\ q.at = p.at - 1
        /\ q.rows = IF leaves /\ p.rows # BUFFER_ROWS - 1 THEN p.rows - 1 ELSE p.rows
    BY DEF PageErased
  <1>3. /\ Size \in Nat /\ VGA_COLS \in Nat \ {0} /\ "blank" \in Cells /\ BUFFER_ROWS \in Nat
    BY Constants, Sizes
  <1>4. PICK k \in Nat : p.at = k + 1 /\ k = p.at - 1
    <2>1. p.at - 1 \in Nat /\ p.at = (p.at - 1) + 1
      BY <1>1
    <2>2. QED
      BY <2>1
  <1>5. /\ leaves => p.at \div VGA_COLS = k \div VGA_COLS + 1
        /\ ~leaves => p.at \div VGA_COLS = k \div VGA_COLS
        /\ leaves <=> Rest(k) = 1
        /\ k \div VGA_COLS \in Nat
    BY <1>4, NextCell, RowOf
  <1>6. k % VGA_COLS = VGA_COLS - 1 <=> leaves
    <2>1. k % VGA_COLS \in Nat
      BY <1>3, DivMod
    <2>2. QED
      BY <1>3, <1>5, <2>1 DEF Rest
  <1>7. PICK d \in Nat : d = k \div VGA_COLS
    BY <1>5
  <1>8. q.rows \in 0 .. BUFFER_ROWS - 1 /\ d <= q.rows
    <2>1. p.rows \in 0 .. BUFFER_ROWS - 1
      BY <1>1, PageTypes
    <2>2. leaves => d + 1 <= p.rows
      BY <1>1, <1>5, <1>7
    <2>3. d <= p.rows
      BY <1>1, <1>5, <1>7
    <2> HIDE DEF leaves, q
    <2>4. QED
      BY <1>2, <1>3, <2>1, <2>2, <2>3
  <1>9. q.cells \in [Indices -> Cells]
    BY <1>1, <1>2, <1>3, PageTypes
  <1>10. q \in PageRec
    BY <1>1, <1>2, <1>8, <1>9 DEF PageRec, PageErased
  <1>11. k \in Indices
    BY <1>1, <1>3, <1>4 DEF Indices
  <1>12. \A j \in Indices : j \in Nat
    BY <1>3 DEF Indices
  <1>13. Bare(q)
    <2> SUFFICES ASSUME NEW j \in Indices, q.at <= j PROVE q.cells[j] = "blank"
      BY DEF Bare
    <2>1. CASE j = p.at - 1
      BY <1>2, <2>1
    <2>2. CASE j # p.at - 1
      <3>1. p.at <= j
        BY <1>1, <1>2, <1>12, <2>2
      <3>2. QED
        BY <1>1, <1>2, <2>2, <3>1 DEF Bare
    <2>3. QED
      BY <2>1, <2>2
  <1>14. Sheet(q)
    <2>1. q.at \in Indices /\ q.at \div VGA_COLS <= q.rows
      BY <1>2, <1>4, <1>7, <1>8, <1>11
    <2> HIDE DEF q
    <2>2. QED
      BY <1>10, <1>13, <2>1 DEF Sheet
  <1>15. Ahead(q) = Ahead(p) + (IF leaves /\ p.rows = BUFFER_ROWS - 1 THEN 1 ELSE 0)
    <2>1. q.at \div VGA_COLS = d
      BY <1>2, <1>4, <1>7
    <2>2. p.at \div VGA_COLS = IF leaves THEN d + 1 ELSE d
      BY <1>5, <1>7
    <2>3. q.rows \in Int /\ p.rows \in Int
      BY <1>1, <1>8
    <2>4. /\ q.rows = IF leaves /\ p.rows # BUFFER_ROWS - 1 THEN p.rows - 1 ELSE p.rows
      BY <1>2
    <2> HIDE DEF leaves, q
    <2>5. q.rows - d = (p.rows - (IF leaves THEN d + 1 ELSE d))
                         + (IF leaves /\ p.rows = BUFFER_ROWS - 1 THEN 1 ELSE 0)
      BY <1>7, <2>3, <2>4
    <2>6. QED
      BY <2>1, <2>2, <2>5 DEF Ahead
  <1>16. \A j \in Indices : j < p.at - 1 => q.cells[j] = p.cells[j]
    BY <1>1, <1>2, <1>12
  <1>17. QED
    BY <1>1, <1>2, <1>4, <1>6, <1>14, <1>15, <1>16

LEMMA EmptyFacts == Sheet(EmptyPage) /\ Ahead(EmptyPage) = 0
  <1>1. "blank" \in Cells /\ BUFFER_ROWS \in Nat /\ BUFFER_ROWS # 0
    BY Constants
  <1>2. EmptyPage \in PageRec
    BY <1>1 DEF EmptyPage, PageRec
  <1>3. QED
    BY <1>1, <1>2, ZeroAt DEF Sheet, EmptyPage, Ahead, Bare

----------------------------------------------------------------------------
(* The globals of screen.c *)

CellsOfAll == 0 .. NUM_SCREENS * Size - 1
CellsShown == 0 .. VGA_ROWS * VGA_COLS - 1

TTY == [stock : [CellsOfAll -> Cells], cursor_pos : Int,
        stock_cursor_index : [Screens -> Nat], active_screen : Screens,
        scroll_offset : [Screens -> 0 .. Short - 1],
        row_count : [Screens -> 0 .. BUFFER_ROWS - 1],
        caret : 0 .. VGA_ROWS * VGA_COLS, stale : BOOLEAN,
        vga_buffer : [CellsShown -> Cells]]

CursorIn(t, s) == IF s = t.active_screen THEN t.cursor_pos ELSE t.stock_cursor_index[s]
Page(t, s) == [cells |-> [j \in Indices |-> t.stock[s * Size + j]],
               at |-> CursorIn(t, s), rows |-> t.row_count[s]]
FrontPage(t) == Page(t, t.active_screen)

\* A step from t to u that concerns the screen in front only and makes its
\* page p.
Turns(t, u, p) ==
    /\ u \in TTY
    /\ u.active_screen = t.active_screen /\ u.stock_cursor_index = t.stock_cursor_index
    /\ FrontPage(u) = p
    /\ \A s \in Screens \ {t.active_screen} : Page(u, s) = Page(t, s)

LEMMA TTYTypes ==
    ASSUME NEW t \in TTY
    PROVE  /\ t.stock \in [CellsOfAll -> Cells] /\ t.cursor_pos \in Int
           /\ t.stock_cursor_index \in [Screens -> Nat] /\ t.active_screen \in Screens
           /\ t.scroll_offset \in [Screens -> 0 .. Short - 1]
           /\ t.row_count \in [Screens -> 0 .. BUFFER_ROWS - 1]
           /\ t.caret \in 0 .. VGA_ROWS * VGA_COLS
           /\ t.vga_buffer \in [CellsShown -> Cells] /\ t.stale \in BOOLEAN
           /\ Rows(t) \in 0 .. BUFFER_ROWS - 1 /\ Rows(t) \in Nat
           /\ Offset(t) \in 0 .. Short - 1 /\ Offset(t) \in Nat
  <1>1. /\ t.stock \in [CellsOfAll -> Cells] /\ t.cursor_pos \in Int
        /\ t.stock_cursor_index \in [Screens -> Nat] /\ t.active_screen \in Screens
        /\ t.scroll_offset \in [Screens -> 0 .. Short - 1]
        /\ t.row_count \in [Screens -> 0 .. BUFFER_ROWS - 1]
        /\ t.caret \in 0 .. VGA_ROWS * VGA_COLS
        /\ t.vga_buffer \in [CellsShown -> Cells] /\ t.stale \in BOOLEAN
    BY DEF TTY
  <1>2. Rows(t) \in 0 .. BUFFER_ROWS - 1 /\ Rows(t) \in Nat
    <2>1. Rows(t) \in 0 .. BUFFER_ROWS - 1
      BY <1>1 DEF Rows
    <2>2. QED
      BY <2>1, Constants
  <1>3. Offset(t) \in 0 .. Short - 1 /\ Offset(t) \in Nat
    <2>1. Offset(t) \in 0 .. Short - 1
      BY <1>1 DEF Offset
    <2>2. QED
      BY <2>1, Constants
  <1>4. QED
    BY <1>1, <1>2, <1>3

\* The cells of different screens are different cells.
LEMMA CellOfScreen ==
    ASSUME NEW s \in Screens, NEW j \in Indices
    PROVE  /\ s \in Nat /\ j \in Nat /\ j < Size
           /\ s * Size \in Nat /\ s * Size + j \in CellsOfAll
           /\ s * Size + j \in Int
  <1>1. /\ Size \in Nat /\ NUM_SCREENS \in Nat \ {0} /\ s \in Nat /\ s <= NUM_SCREENS - 1
        /\ j \in Nat /\ j < Size
    BY Constants, Sizes DEF Indices
  <1>2. s * Size <= (NUM_SCREENS - 1) * Size
    BY <1>1, TimesMonotonic
  <1>3. /\ (NUM_SCREENS - 1) * Size = NUM_SCREENS * Size - Size
        /\ s * Size \in Nat /\ NUM_SCREENS * Size \in Int
    BY <1>1
  <1>4. QED
    BY <1>1, <1>2, <1>3 DEF CellsOfAll

LEMMA ScreensApart ==
    ASSUME NEW s \in Screens, NEW j \in Indices, NEW q \in Screens, NEW k \in Int,
           0 <= k, k < Size, s * Size + j = q * Size + k
    PROVE  s = q /\ j = k
  <1>1. /\ Size \in Nat /\ s \in Nat /\ q \in Nat /\ j \in Nat /\ j < Size
        /\ s * Size \in Nat /\ q * Size \in Nat
    BY Sizes, Constants, CellOfScreen
  <1>2. /\ s + 1 <= q => (s + 1) * Size <= q * Size
        /\ q + 1 <= s => (q + 1) * Size <= s * Size
    BY <1>1, TimesMonotonic
  <1>3. /\ (s + 1) * Size = s * Size + Size
        /\ (q + 1) * Size = q * Size + Size
    BY <1>1
  <1>4. ~ (s + 1 <= q) /\ ~ (q + 1 <= s)
    BY <1>1, <1>2, <1>3
  <1>5. s = q
    BY <1>1, <1>4
  <1>6. QED
    BY <1>1, <1>5

LEMMA SetCellsFacts ==
    ASSUME NEW t \in TTY, NEW lo \in Nat, NEW n \in Nat, lo + n <= Size,
           NEW f \in [0 .. n - 1 -> Cells]
    PROVE  /\ SetCells(t, lo, f) \in TTY
           /\ SetCells(t, lo, f) = [t EXCEPT !.stock = SetCells(t, lo, f).stock]
           /\ \A s \in Screens : \A j \in Indices :
                SetCells(t, lo, f).stock[s * Size + j] =
                  IF s = t.active_screen /\ lo <= j /\ j < lo + n THEN f[j - lo]
                  ELSE t.stock[s * Size + j]
  <1> DEFINE u == SetCells(t, lo, f)
             q == t.active_screen
             new == [i \in CellsOfAll |->
                       IF i - (q * Size + lo) \in 0 .. n - 1
                       THEN f[i - (q * Size + lo)] ELSE t.stock[i]]
  <1>1. q \in Screens /\ t.stock \in [CellsOfAll -> Cells] /\ DOMAIN t.stock = CellsOfAll
    BY TTYTypes
  <1>2. DOMAIN f = 0 .. n - 1
    OBVIOUS
  <1>3. u = [t EXCEPT !.stock = new]
    BY <1>1, <1>2 DEF SetCells, At
  <1>4. new \in [CellsOfAll -> Cells]
    BY <1>1
  <1>7. \A i \in CellsOfAll : new[i] = IF i - (q * Size + lo) \in 0 .. n - 1
                                    THEN f[i - (q * Size + lo)] ELSE t.stock[i]
    OBVIOUS
  <1> HIDE DEF new
  <1>5. u \in TTY /\ u.stock = new
    BY <1>3, <1>4 DEF TTY
  <1>6. ASSUME NEW s \in Screens, NEW j \in Indices
        PROVE  new[s * Size + j] =
                  IF s = q /\ lo <= j /\ j < lo + n THEN f[j - lo]
                  ELSE t.stock[s * Size + j]
    <2>1. s * Size + j \in CellsOfAll /\ j \in Nat /\ s * Size \in Nat
      BY CellOfScreen
    <2>2. Size \in Nat /\ q * Size \in Nat
      <3>1. Size \in Nat /\ q \in Nat
        BY <1>1, Sizes, Constants
      <3>2. QED
        BY <3>1
    <2>3. CASE s = q
      <3>1. (s * Size + j) - (q * Size + lo) = j - lo
        BY <2>1, <2>2, <2>3
      <3>2. new[s * Size + j] = IF j - lo \in 0 .. n - 1 THEN f[j - lo]
                                ELSE t.stock[s * Size + j]
        <4>1. PICK i \in CellsOfAll : i = s * Size + j
          BY <2>1
        <4>2. i - (q * Size + lo) = j - lo
          BY <3>1, <4>1, Zenon
        <4>3. new[i] = IF i - (q * Size + lo) \in 0 .. n - 1
                       THEN f[i - (q * Size + lo)] ELSE t.stock[i]
          BY <1>7
        <4>4. QED
          BY <4>1, <4>2, <4>3
      <3>3. j - lo \in 0 .. n - 1 <=> lo <= j /\ j < lo + n
        BY <2>1
      <3>4. QED
        BY <2>3, <3>2, <3>3
    <2>4. CASE s # q
      <3>1. ~ ((s * Size + j) - (q * Size + lo) \in 0 .. n - 1)
        <4> SUFFICES ASSUME (s * Size + j) - (q * Size + lo) \in 0 .. n - 1 PROVE FALSE
          OBVIOUS
        <4>1. PICK k \in Nat : k < n /\ (s * Size + j) - (q * Size + lo) = k
          OBVIOUS
        <4>2. /\ lo + k \in Int /\ 0 <= lo + k /\ lo + k < Size
              /\ s * Size + j = q * Size + (lo + k)
          BY <2>1, <2>2, <4>1
        <4>3. s = q
          BY <1>1, <4>2, ScreensApart
        <4>4. QED
          BY <2>4, <4>3
      <3>2. new[s * Size + j] = t.stock[s * Size + j]
        <4>1. PICK i \in CellsOfAll : i = s * Size + j
          BY <2>1
        <4>2. ~ (i - (q * Size + lo) \in 0 .. n - 1)
          BY <3>1, <4>1, Zenon
        <4>3. QED
          BY <1>7, <4>1, <4>2
      <3>3. QED
        BY <2>4, <3>2
    <2>5. QED
      BY <2>3, <2>4
  <1>8. QED
    BY <1>3, <1>5, <1>6

LEMMA FillFacts ==
    ASSUME NEW t \in TTY, NEW lo \in Nat, NEW n \in Nat, lo + n <= Size,
           NEW cell \in Cells
    PROVE  /\ Fill(t, lo, n, cell) \in TTY
           /\ Fill(t, lo, n, cell) = [t EXCEPT !.stock = Fill(t, lo, n, cell).stock]
           /\ \A s \in Screens : \A j \in Indices :
                Fill(t, lo, n, cell).stock[s * Size + j] =
                  IF s = t.active_screen /\ lo <= j /\ j < lo + n THEN cell
                  ELSE t.stock[s * Size + j]
  <1> DEFINE f == [k \in 0 .. n - 1 |-> cell]
  <1>1. f \in [0 .. n - 1 -> Cells]
    BY Constants
  <1>2. Fill(t, lo, n, cell) = SetCells(t, lo, f)
    BY DEF Fill
  <1>3. ASSUME NEW j \in Indices, lo <= j, j < lo + n PROVE f[j - lo] = cell
    <2>1. j \in Nat
      BY Sizes DEF Indices
    <2>2. j - lo \in 0 .. n - 1
      BY <1>3, <2>1
    <2>3. QED
      BY <2>2
  <1> HIDE DEF f
  <1>4. QED
    BY <1>1, <1>2, <1>3, SetCellsFacts

LEMMA PageFields ==
    ASSUME NEW t \in TTY, NEW s \in Screens
    PROVE  /\ Page(t, s).at = CursorIn(t, s) /\ Page(t, s).rows = t.row_count[s]
           /\ \A j \in Indices : Page(t, s).cells[j] = t.stock[s * Size + j]
           /\ CursorIn(t, s) \in Int /\ Page(t, s) \in PageRec
           /\ FrontPage(t).at = t.cursor_pos /\ FrontPage(t).rows = Rows(t)
  <1>1. /\ t.stock \in [CellsOfAll -> Cells] /\ t.cursor_pos \in Int
        /\ t.stock_cursor_index \in [Screens -> Nat] /\ t.active_screen \in Screens
        /\ t.row_count \in [Screens -> 0 .. BUFFER_ROWS - 1]
    BY TTYTypes
  <1>2. CursorIn(t, s) \in Int
    BY <1>1 DEF CursorIn
  <1>3. \A j \in Indices : t.stock[s * Size + j] \in Cells
    BY <1>1, CellOfScreen
  <1>4. Page(t, s) \in PageRec
    BY <1>1, <1>2, <1>3 DEF Page, PageRec
  <1>5. QED
    BY <1>2, <1>4 DEF Page, FrontPage, CursorIn, Rows

\* Two pages with the same cells, cursor and counter are the same.
LEMMA PageEqual ==
    ASSUME NEW p \in PageRec, NEW q \in PageRec, p.at = q.at, p.rows = q.rows,
           \A j \in Indices : p.cells[j] = q.cells[j]
    PROVE  p = q
  <1>1. /\ p.cells \in [Indices -> Cells] /\ q.cells \in [Indices -> Cells]
        /\ p = [cells |-> p.cells, at |-> p.at, rows |-> p.rows]
        /\ q = [cells |-> q.cells, at |-> q.at, rows |-> q.rows]
    BY DEF PageRec
  <1>2. p.cells = q.cells
    BY <1>1
  <1>3. QED
    BY <1>1, <1>2

\* The rows that are shown are rows of the buffer.
LEMMA FirstShownFacts ==
    ASSUME NEW t \in TTY
    PROVE  /\ FirstShown(t) \in Nat /\ FirstShown(t) + VGA_ROWS <= BUFFER_ROWS
           /\ Rows(t) < VGA_ROWS => FirstShown(t) = 0
           /\ Rows(t) >= VGA_ROWS /\ Offset(t) = 0 => FirstShown(t) = Rows(t) - VGA_ROWS + 1
  <1>1. /\ Rows(t) \in Nat /\ Rows(t) <= BUFFER_ROWS - 1 /\ Offset(t) \in Nat
        /\ VGA_ROWS \in Nat \ {0} /\ BUFFER_ROWS \in Nat /\ BUFFER_ROWS > VGA_ROWS
    BY TTYTypes, Constants
  <1>2. CASE Rows(t) < VGA_ROWS
    <2>1. FirstShown(t) = 0
      BY <1>1, <1>2 DEF FirstShown
    <2>2. QED
      BY <1>1, <1>2, <2>1
  <1>3. CASE Rows(t) >= VGA_ROWS /\ Offset(t) > Rows(t) - VGA_ROWS + 1
    <2>1. FirstShown(t) = 0
      BY <1>1, <1>3 DEF FirstShown
    <2>2. QED
      BY <1>1, <1>3, <2>1
  <1>4. CASE Rows(t) >= VGA_ROWS /\ ~ (Offset(t) > Rows(t) - VGA_ROWS + 1)
    <2>1. FirstShown(t) = Rows(t) - VGA_ROWS + 1 - Offset(t)
      BY <1>1, <1>4 DEF FirstShown
    <2>2. QED
      BY <1>1, <1>4, <2>1
  <1>5. QED
    BY <1>1, <1>2, <1>3, <1>4

LEMMA ViewFacts ==
    ASSUME NEW t \in TTY
    PROVE  /\ View(t) \in [CellsShown -> Cells]
           /\ FirstShown(t) * VGA_COLS \in Nat
           /\ \A i \in CellsShown :
                /\ FirstShown(t) * VGA_COLS + i \in Indices
                /\ View(t)[i] = FrontPage(t).cells[FirstShown(t) * VGA_COLS + i]
  <1> DEFINE first == FirstShown(t)
  <1>1. /\ first \in Nat /\ first + VGA_ROWS <= BUFFER_ROWS /\ VGA_ROWS \in Nat \ {0}
        /\ BUFFER_ROWS \in Nat /\ VGA_COLS \in Nat \ {0} /\ t.active_screen \in Screens
        /\ t.active_screen \in Nat
    BY FirstShownFacts, Constants, TTYTypes
  <1> HIDE DEF first
  <1>2. /\ (first + VGA_ROWS) * VGA_COLS <= BUFFER_ROWS * VGA_COLS
        /\ (first + VGA_ROWS) * VGA_COLS = first * VGA_COLS + VGA_ROWS * VGA_COLS
        /\ first * VGA_COLS \in Nat /\ VGA_ROWS * VGA_COLS \in Nat
        /\ BUFFER_ROWS * VGA_COLS \in Nat
    BY <1>1, TimesMonotonic
  <1>3. ASSUME NEW i \in CellsShown
        PROVE  first * VGA_COLS + i \in Indices
    BY <1>2 DEF CellsShown, Indices, Size
  <1>4. View(t) = [i \in CellsShown |->
                     t.stock[t.active_screen * Size + (first * VGA_COLS + i)]]
    BY DEF View, CellsShown, Cell, At, first
  <1>5. ASSUME NEW i \in CellsShown
        PROVE  /\ View(t)[i] = FrontPage(t).cells[first * VGA_COLS + i]
               /\ View(t)[i] \in Cells
    <2>1. View(t)[i] = t.stock[t.active_screen * Size + (first * VGA_COLS + i)]
      BY <1>4
    <2>2. FrontPage(t).cells[first * VGA_COLS + i]
            = t.stock[t.active_screen * Size + (first * VGA_COLS + i)]
      BY <1>1, <1>3, PageFields DEF FrontPage
    <2>3. FrontPage(t) \in PageRec
      BY <1>1, PageFields DEF FrontPage
    <2>4. QED
      BY <1>3, <2>1, <2>2, <2>3, PageTypes
  <1>6. View(t) \in [CellsShown -> Cells]
    BY <1>4, <1>5
  <1>7. QED
    BY <1>2, <1>3, <1>5, <1>6 DEF first

Shown(t) == t.stale \/ t.vga_buffer = View(t)

\* What is shown depends on the page in front and how far it is scrolled.
LEMMA ViewSame ==
    ASSUME NEW t \in TTY, NEW u \in TTY, FrontPage(u) = FrontPage(t), Offset(u) = Offset(t)
    PROVE  View(u) = View(t) /\ FirstShown(u) = FirstShown(t)
  <1>1. Rows(u) = Rows(t)
    <2>1. t.active_screen \in Screens /\ u.active_screen \in Screens
      BY TTYTypes
    <2>2. FrontPage(u).rows = Rows(u) /\ FrontPage(t).rows = Rows(t)
      BY <2>1, PageFields
    <2>3. QED
      BY <2>2
  <1>2. FirstShown(u) = FirstShown(t)
    BY <1>1 DEF FirstShown
  <1>3. \A i \in CellsShown : View(u)[i] = View(t)[i]
    BY <1>2, ViewFacts
  <1>4. View(u) \in [CellsShown -> Cells] /\ View(t) \in [CellsShown -> Cells]
    BY ViewFacts
  <1>5. QED
    BY <1>2, <1>3, <1>4

\* The caret goes behind the last character that is shown.
LEMMA LastCharFacts ==
    ASSUME NEW view \in [CellsShown -> Cells]
    PROVE  /\ last_char_index(view) \in CellsShown
           /\ last_char_index(view) # 0 => view[last_char_index(view)] # "blank"
           /\ \A i \in CellsShown : view[i] # "blank" => i <= last_char_index(view)
  <1> DEFINE S == {0} \cup {i \in DOMAIN view : view[i] # "blank"}
  <1>1. DOMAIN view = CellsShown /\ VGA_ROWS * VGA_COLS \in Nat /\ 0 \in CellsShown
    BY Sizes, Constants DEF CellsShown
  <1>2. S \in SUBSET Nat /\ S # {} /\ \A i \in S : i <= VGA_ROWS * VGA_COLS
    BY <1>1 DEF CellsShown
  <1>3. Max(S) \in S /\ \A i \in S : i <= Max(S)
    BY <1>1, <1>2, MaxOfNats
  <1>4. last_char_index(view) = Max(S)
    BY DEF last_char_index, Max
  <1>5. QED
    BY <1>1, <1>3, <1>4

LEMMA DisplayFacts ==
    ASSUME NEW t \in TTY
    PROVE  /\ screen_display(t) \in TTY /\ Shown(screen_display(t))
           /\ screen_display(t) = [t EXCEPT !.vga_buffer = View(t),
                                     !.caret = screen_display(t).caret, !.stale = FALSE]
           /\ screen_display(t).caret = last_char_index(View(t)) + 1
           /\ View(screen_display(t)) = View(t)
           /\ Turns(t, screen_display(t), FrontPage(t))
           /\ screen_display(t).scroll_offset = t.scroll_offset
           /\ screen_display(t).vga_buffer = View(t)
  <1> DEFINE u == screen_display(t)
             l == last_char_index(View(t))
  <1>1. View(t) \in [CellsShown -> Cells] /\ l \in CellsShown /\ VGA_ROWS * VGA_COLS \in Nat
    BY ViewFacts, LastCharFacts, Sizes
  <1>2. u = [t EXCEPT !.vga_buffer = View(t), !.caret = l + 1, !.stale = FALSE]
    BY DEF screen_display
  <1>3. l + 1 \in 0 .. VGA_ROWS * VGA_COLS
    BY <1>1 DEF CellsShown
  <1> HIDE DEF l
  <1>4. /\ u \in TTY /\ u.vga_buffer = View(t) /\ u.caret = l + 1
        /\ u.stock = t.stock /\ u.cursor_pos = t.cursor_pos
        /\ u.stock_cursor_index = t.stock_cursor_index /\ u.active_screen = t.active_screen
        /\ u.scroll_offset = t.scroll_offset /\ u.row_count = t.row_count
    BY <1>1, <1>2, <1>3 DEF TTY
  <1> HIDE DEF u
  <1>5. \A s \in Screens : Page(u, s) = Page(t, s)
    BY <1>4 DEF Page, CursorIn
  <1>6. Turns(t, u, FrontPage(t))
    BY <1>4, <1>5, TTYTypes DEF Turns, FrontPage
  <1>7. Offset(u) = Offset(t) /\ FrontPage(u) = FrontPage(t)
    BY <1>4, <1>6 DEF Offset, Turns
  <1>8. View(u) = View(t)
    BY <1>4, <1>7, ViewSame
  <1>9. QED
    BY <1>2, <1>4, <1>6, <1>8 DEF Shown, u, l

LEMMA TurnsTwice ==
    ASSUME NEW t, NEW u, NEW w, NEW p, NEW q, Turns(t, u, p), Turns(u, w, q)
    PROVE  Turns(t, w, q)
  BY DEF Turns

\* The fields that a step about rows and cells leaves alone.
Undrawn(t, u) ==
    /\ u.vga_buffer = t.vga_buffer /\ u.caret = t.caret /\ u.stale = t.stale
    /\ u.scroll_offset = t.scroll_offset

LEMMA ShiftUpFacts ==
    ASSUME NEW t \in TTY
    PROVE  Turns(t, ShiftUp(t), PageUp(FrontPage(t))) /\ Undrawn(t, ShiftUp(t))
  <1> DEFINE q == t.active_screen
             p == FrontPage(t)
             f == [k \in 0 .. Size - VGA_COLS - 1 |-> Cell(t, k + VGA_COLS)]
             up == SetCells(t, 0, f)
             bare == Fill(up, Size - VGA_COLS, VGA_COLS, "blank")
             u == ShiftUp(t)
  <1>1. /\ Size \in Nat /\ VGA_COLS \in Nat \ {0} /\ Top \in Nat /\ Size = Top + VGA_COLS
        /\ Size - VGA_COLS = Top /\ q \in Screens
    BY Sizes, Constants, TTYTypes
  <1>2. /\ p \in PageRec /\ p.at = t.cursor_pos /\ p.rows = Rows(t)
        /\ \A j \in Indices : p.cells[j] = t.stock[q * Size + j]
        /\ t.cursor_pos \in Int
    BY <1>1, PageFields, TTYTypes DEF FrontPage
  <1>3. ASSUME NEW k \in 0 .. Top - 1
        PROVE  /\ k + VGA_COLS \in Indices /\ f[k] = p.cells[k + VGA_COLS]
               /\ f[k] \in Cells
    <2>1. k + VGA_COLS \in Indices
      BY <1>1 DEF Indices
    <2>2. f[k] = Cell(t, k + VGA_COLS)
      BY <1>1
    <2>3. f[k] = p.cells[k + VGA_COLS]
      BY <1>2, <2>1, <2>2 DEF Cell, At
    <2>4. QED
      BY <1>2, <2>1, <2>3, PageTypes
  <1>4. f \in [0 .. Top - 1 -> Cells]
    BY <1>1, <1>3
  <1> HIDE DEF f
  <1>5. /\ up \in TTY /\ up = [t EXCEPT !.stock = up.stock]
        /\ \A s \in Screens : \A j \in Indices :
             up.stock[s * Size + j] = IF s = q /\ 0 <= j /\ j < 0 + Top THEN f[j - 0]
                                      ELSE t.stock[s * Size + j]
    <2>1. 0 \in Nat /\ 0 + Top <= Size
      BY <1>1
    <2>2. t \in TTY /\ Top \in Nat
      BY <1>1
    <2>3. ASSUME NEW lo \in Nat, lo + Top <= Size
          PROVE  /\ SetCells(t, lo, f) \in TTY
                 /\ SetCells(t, lo, f) = [t EXCEPT !.stock = SetCells(t, lo, f).stock]
                 /\ \A s \in Screens : \A j \in Indices :
                      SetCells(t, lo, f).stock[s * Size + j] =
                        IF s = q /\ lo <= j /\ j < lo + Top THEN f[j - lo]
                        ELSE t.stock[s * Size + j]
      BY <1>4, <2>2, <2>3, SetCellsFacts
    <2>4. QED
      BY <2>1, <2>3, Zenon
  <1>6. up.active_screen = q
    <2>1. DOMAIN t = DOMAIN up
      BY <1>5 DEF TTY
    <2>2. QED
      BY <1>5, <2>1 DEF TTY
  <1> HIDE DEF up
  <1>7. /\ bare \in TTY /\ bare = [up EXCEPT !.stock = bare.stock]
        /\ \A s \in Screens : \A j \in Indices :
             bare.stock[s * Size + j] =
               IF s = q /\ Top <= j /\ j < Top + VGA_COLS THEN "blank"
               ELSE up.stock[s * Size + j]
    <2>1. /\ Top \in Nat /\ VGA_COLS \in Nat /\ Top + VGA_COLS <= Size /\ "blank" \in Cells
          /\ bare = Fill(up, Top, VGA_COLS, "blank")
      BY <1>1, Constants
    <2> HIDE DEF bare
    <2>2. QED
      BY <1>5, <1>6, <2>1, FillFacts
  <1>8. u = [bare EXCEPT !.cursor_pos = @ - VGA_COLS]
    BY DEF ShiftUp, up, bare, f
  <1> HIDE DEF bare
  <1>9. /\ bare.cursor_pos = t.cursor_pos /\ bare.active_screen = q
        /\ bare.stock_cursor_index = t.stock_cursor_index
        /\ bare.row_count = t.row_count /\ Undrawn(t, bare)
    <2>1. /\ up.cursor_pos = t.cursor_pos /\ up.active_screen = q
          /\ up.stock_cursor_index = t.stock_cursor_index
          /\ up.row_count = t.row_count /\ Undrawn(t, up)
      BY <1>5 DEF TTY, Undrawn
    <2>2. QED
      BY <1>5, <1>7, <2>1 DEF TTY, Undrawn
  <1>10. /\ u \in TTY /\ u.cursor_pos = t.cursor_pos - VGA_COLS /\ u.stock = bare.stock
         /\ u.active_screen = q /\ u.stock_cursor_index = t.stock_cursor_index
         /\ u.row_count = t.row_count /\ Undrawn(t, u)
    BY <1>1, <1>2, <1>7, <1>8, <1>9 DEF TTY, Undrawn
  <1> HIDE DEF u
  <1>11. ASSUME NEW s \in Screens, NEW j \in Indices
         PROVE  u.stock[s * Size + j] =
                  IF s = q THEN PageUp(p).cells[j] ELSE t.stock[s * Size + j]
    <2>1. j \in Nat /\ j < Top + VGA_COLS
      BY <1>1 DEF Indices
    <2>2. CASE s = q /\ Top <= j
      <3>1. PageUp(p).cells[j] = "blank"
        BY <1>1, <2>1, <2>2 DEF PageUp
      <3>2. QED
        BY <1>7, <1>10, <2>1, <2>2, <3>1
    <2>3. CASE s = q /\ ~ (Top <= j)
      <3>1. j < Top /\ j \in 0 .. Top - 1
        BY <1>1, <2>1, <2>3
      <3>2. PageUp(p).cells[j] = p.cells[j + VGA_COLS]
        BY <3>1 DEF PageUp
      <3>3. u.stock[s * Size + j] = f[j - 0] /\ j - 0 = j
        BY <1>1, <1>5, <1>7, <1>10, <2>1, <2>3, <3>1
      <3>4. QED
        BY <1>3, <2>3, <3>1, <3>2, <3>3
    <2>4. CASE s # q
      BY <1>5, <1>7, <1>10, <2>4
    <2>5. QED
      BY <2>2, <2>3, <2>4
  <1>12. \A s \in Screens \ {q} : Page(u, s) = Page(t, s)
    <2> SUFFICES ASSUME NEW s \in Screens, s # q PROVE Page(u, s) = Page(t, s)
      OBVIOUS
    <2>1. \A j \in Indices : u.stock[s * Size + j] = t.stock[s * Size + j]
      BY <1>11
    <2>2. QED
      BY <1>10, <2>1 DEF Page, CursorIn
  <1>13. FrontPage(u) = PageUp(p)
    <2>1. /\ PageUp(p).at = p.at - VGA_COLS /\ PageUp(p).rows = p.rows
          /\ DOMAIN PageUp(p).cells = Indices
          /\ PageUp(p) = [cells |-> PageUp(p).cells, at |-> PageUp(p).at,
                          rows |-> PageUp(p).rows]
      BY DEF PageUp
    <2>2. /\ FrontPage(u).at = p.at - VGA_COLS /\ FrontPage(u).rows = p.rows
          /\ \A j \in Indices : FrontPage(u).cells[j] = PageUp(p).cells[j]
          /\ FrontPage(u) \in PageRec
      BY <1>1, <1>2, <1>10, <1>11, PageFields DEF FrontPage, Rows
    <2>3. PageUp(p) \in PageRec
      <3>1. \A j \in Indices : PageUp(p).cells[j] \in Cells
        BY <2>2, PageTypes
      <3>2. PageUp(p).cells \in [Indices -> Cells]
        BY <3>1 DEF PageUp
      <3>3. p.at - VGA_COLS \in Int /\ p.rows \in 0 .. BUFFER_ROWS - 1
        BY <1>1, <1>2, PageTypes
      <3>4. QED
        BY <2>1, <3>2, <3>3 DEF PageRec
    <2>4. QED
      BY <2>1, <2>2, <2>3, PageEqual
  <1>14. QED
    BY <1>10, <1>12, <1>13 DEF Turns, u

LEMMA CountRowFacts ==
    ASSUME NEW t \in TTY
    PROVE  Turns(t, CountRow(t), PageRow(FrontPage(t))) /\ Undrawn(t, CountRow(t))
  <1> DEFINE q == t.active_screen
             p == FrontPage(t)
             u == CountRow(t)
  <1>1. /\ q \in Screens /\ p.rows = Rows(t) /\ p.at = t.cursor_pos
        /\ Rows(t) \in 0 .. BUFFER_ROWS - 1 /\ BUFFER_ROWS \in Nat
        /\ t.row_count \in [Screens -> 0 .. BUFFER_ROWS - 1]
    BY TTYTypes, PageFields, Constants
  <1>2. CASE Rows(t) = BUFFER_ROWS - 1
    BY <1>1, <1>2, ShiftUpFacts DEF CountRow, PageRow
  <1>3. CASE Rows(t) # BUFFER_ROWS - 1
    <2>1. u = [t EXCEPT !.row_count[q] = @ + 1]
      BY <1>3 DEF CountRow
    <2>2. [t.row_count EXCEPT ![q] = @ + 1] \in [Screens -> 0 .. BUFFER_ROWS - 1]
      BY <1>1, <1>3 DEF Rows
    <2>3. /\ u \in TTY /\ u.row_count = [t.row_count EXCEPT ![q] = @ + 1]
          /\ u.stock = t.stock /\ u.cursor_pos = t.cursor_pos
          /\ u.active_screen = q /\ u.stock_cursor_index = t.stock_cursor_index
          /\ Undrawn(t, u)
      BY <2>1, <2>2 DEF TTY, Undrawn
    <2> HIDE DEF u
    <2>4. \A s \in Screens \ {q} : Page(u, s) = Page(t, s)
      BY <1>1, <2>3 DEF Page, CursorIn
    <2>5. FrontPage(u) = [cells |-> p.cells, at |-> p.at, rows |-> p.rows + 1]
      BY <1>1, <2>3 DEF FrontPage, Page, CursorIn
    <2>6. FrontPage(u) = PageRow(p)
      BY <1>1, <1>3, <2>5 DEF PageRow
    <2>7. QED
      BY <2>3, <2>4, <2>6 DEF Turns, u
  <1>4. QED
    BY <1>2, <1>3
\* All screens are in order.
Sheets(t) == t \in TTY /\ \A s \in Screens : Sheet(Page(t, s))

\* The caret is at the cursor, if no row is counted below it and it stands
\* behind a character.
Follows(t) ==
    /\ Offset(t) = 0 /\ Rows(t) = t.cursor_pos \div VGA_COLS
    /\ t.cursor_pos # 0 /\ FrontPage(t).cells[t.cursor_pos - 1] # "blank"
    => t.caret = t.cursor_pos - FirstShown(t) * VGA_COLS

\* All screens are in order, and what is shown is the window of the one in
\* front.
Good(t) == Sheets(t) /\ Shown(t) /\ (VGA_ROWS >= 2 => Follows(t))

LEMMA SheetsFront ==
    ASSUME NEW t, Sheets(t)
    PROVE  /\ t \in TTY /\ t.active_screen \in Screens
           /\ Sheet(FrontPage(t)) /\ FrontPage(t).at = t.cursor_pos
           /\ FrontPage(t).rows = Rows(t)
           /\ t.cursor_pos \in Indices /\ t.cursor_pos \in Nat
           /\ t.cursor_pos < Size /\ t.cursor_pos \div VGA_COLS <= Rows(t)
  <1>1. t \in TTY /\ t.active_screen \in Screens
    BY TTYTypes DEF Sheets
  <1>2. Sheet(FrontPage(t))
    BY <1>1 DEF Sheets, FrontPage
  <1>3. FrontPage(t).at = t.cursor_pos /\ FrontPage(t).rows = Rows(t)
    BY <1>1, PageFields
  <1>4. QED
    BY <1>1, <1>2, <1>3, Sizes DEF Sheet, Indices

LEMMA TurnsSheets ==
    ASSUME NEW t, Sheets(t), NEW u, NEW p, Turns(t, u, p), Sheet(p)
    PROVE  Sheets(u) /\ FrontPage(u) = p
  <1>1. ASSUME NEW s \in Screens PROVE Sheet(Page(u, s))
    <2>1. CASE s = t.active_screen
      BY <2>1 DEF Turns, FrontPage
    <2>2. CASE s # t.active_screen
      BY <2>2 DEF Turns, Sheets
    <2>3. QED
      BY <2>1, <2>2
  <1>2. QED
    BY <1>1 DEF Sheets, Turns

\* On a screen of two rows or more, the row above the cursor is shown as well.
LEMMA CursorShown ==
    ASSUME NEW t, Sheets(t), VGA_ROWS >= 2, Offset(t) = 0,
           Rows(t) = t.cursor_pos \div VGA_COLS, t.cursor_pos # 0
    PROVE  /\ (t.cursor_pos - 1) - FirstShown(t) * VGA_COLS \in CellsShown
           /\ FirstShown(t) * VGA_COLS \in Nat
  <1> DEFINE k == t.cursor_pos
             r == Rows(t)
             first == FirstShown(t)
  <1>1. /\ k \in Nat /\ k # 0 /\ r \in Nat /\ VGA_ROWS \in Nat /\ VGA_COLS \in Nat \ {0}
        /\ r = k \div VGA_COLS /\ first \in Nat
        /\ r < VGA_ROWS => first = 0
        /\ r >= VGA_ROWS => first = r - VGA_ROWS + 1
    BY SheetsFront, TTYTypes, Constants, FirstShownFacts
  <1>3. VGA_ROWS * VGA_COLS \in Nat /\ r * VGA_COLS \in Nat /\ first * VGA_COLS \in Nat
    BY <1>1
  <1> HIDE DEF k, r, first
  <1>4. CASE r < VGA_ROWS
    <2>1. first * VGA_COLS = 0 /\ k < VGA_ROWS * VGA_COLS
      <3>1. first = 0 /\ 0 * VGA_COLS = 0
        BY <1>1, <1>4
      <3>2. k < VGA_ROWS * VGA_COLS
        BY <1>1, <1>4, RowOf
      <3>3. QED
        BY <3>1, <3>2
    <2>2. (k - 1) - first * VGA_COLS \in 0 .. VGA_ROWS * VGA_COLS - 1
      BY <1>1, <1>3, <2>1
    <2>3. QED
      BY <1>3, <2>2 DEF CellsShown, k, first
  <1>5. CASE ~ (r < VGA_ROWS)
    <2>1. first = r - VGA_ROWS + 1
      BY <1>1, <1>5
    <2>2. first * VGA_COLS = (r * VGA_COLS - VGA_ROWS * VGA_COLS) + VGA_COLS
      <3>1. (r - VGA_ROWS + 1) * VGA_COLS = (r * VGA_COLS - VGA_ROWS * VGA_COLS) + VGA_COLS
        BY <1>1
      <3>2. QED
        BY <2>1, <3>1
    <2>3. 2 * VGA_COLS <= VGA_ROWS * VGA_COLS
      BY <1>1, TimesMonotonic
    <2>4. r * VGA_COLS <= k /\ k < r * VGA_COLS + VGA_COLS
      BY <1>1, RowOf
    <2>5. (k - 1) - first * VGA_COLS \in 0 .. VGA_ROWS * VGA_COLS - 1
      <3> DEFINE a == r * VGA_COLS
                 b == VGA_ROWS * VGA_COLS
                 d == first * VGA_COLS
      <3>1. a \in Nat /\ b \in Nat /\ d \in Nat /\ d = (a - b) + VGA_COLS
            /\ VGA_COLS + VGA_COLS <= b /\ a <= k /\ k < a + VGA_COLS
        BY <1>1, <1>3, <2>2, <2>3, <2>4
      <3> HIDE DEF a, b, d
      <3>2. (k - 1) - d \in 0 .. b - 1
        BY <1>1, <3>1
      <3>3. QED
        BY <3>2 DEF b, d
    <2>6. QED
      BY <1>3, <2>5 DEF CellsShown, k, first
  <1>6. QED
    BY <1>4, <1>5

\* What draws the screen in front keeps everything in order.
LEMMA DisplayGood ==
    ASSUME NEW t, Sheets(t)
    PROVE  /\ Good(screen_display(t)) /\ Turns(t, screen_display(t), FrontPage(t))
           /\ \A s \in Screens : Page(screen_display(t), s) = Page(t, s)
           /\ screen_display(t).scroll_offset = t.scroll_offset
           /\ screen_display(t).active_screen = t.active_screen
  <1> DEFINE u == screen_display(t)
             p == FrontPage(t)
  <1>1. /\ t \in TTY /\ t.active_screen \in Screens /\ Sheet(p) /\ p.at = t.cursor_pos
        /\ p.rows = Rows(t) /\ t.cursor_pos \in Nat /\ t.cursor_pos \in Indices
    BY SheetsFront
  <1>2. /\ Turns(t, u, p) /\ Shown(u) /\ u.scroll_offset = t.scroll_offset
        /\ u.caret = last_char_index(View(t)) + 1
    BY <1>1, DisplayFacts
  <1> HIDE DEF u
  <1>3. Sheets(u) /\ FrontPage(u) = p /\ u.active_screen = t.active_screen
    BY <1>1, <1>2, TurnsSheets DEF Turns
  <1>4. \A s \in Screens : Page(u, s) = Page(t, s)
    BY <1>1, <1>2, <1>3 DEF Turns, FrontPage
  <1>5. Offset(u) = Offset(t) /\ Rows(u) = Rows(t) /\ u.cursor_pos = t.cursor_pos
    BY <1>1, <1>2, <1>3, SheetsFront DEF Offset
  <1>6. FirstShown(u) = FirstShown(t)
    BY <1>5 DEF FirstShown
  <1>7. ASSUME VGA_ROWS >= 2 PROVE Follows(u)
    <2> DEFINE k == t.cursor_pos
               from == FirstShown(t) * VGA_COLS
               l == last_char_index(View(t))
    <2> SUFFICES ASSUME Offset(t) = 0, Rows(t) = k \div VGA_COLS, k # 0,
                        p.cells[k - 1] # "blank"
                 PROVE  l + 1 = k - from
      BY <1>2, <1>3, <1>5, <1>6 DEF Follows
    <2>1. (k - 1) - from \in CellsShown /\ from \in Nat
      BY <1>7, CursorShown
    <2>2. /\ View(t) \in [CellsShown -> Cells]
          /\ \A i \in CellsShown : /\ from + i \in Indices
                                   /\ View(t)[i] = p.cells[from + i]
      BY <1>1, ViewFacts
    <2>3. /\ l \in CellsShown
          /\ l # 0 => View(t)[l] # "blank"
          /\ \A i \in CellsShown : View(t)[i] # "blank" => i <= l
      BY <2>2, LastCharFacts
    <2> HIDE DEF from, l, k
    <2>4. (k - 1) - from <= l
      <3>1. from + ((k - 1) - from) = k - 1
        BY <1>1, <2>1 DEF k
      <3>2. View(t)[(k - 1) - from] # "blank"
        BY <2>1, <2>2, <3>1
      <3>3. QED
        BY <2>1, <2>3, <3>2
    <2>5. ~ (k <= from + l) \/ l = 0
      <3> SUFFICES ASSUME k <= from + l, l # 0 PROVE FALSE
        OBVIOUS
      <3>1. p.cells[from + l] # "blank" /\ from + l \in Indices
        <4>1. l \in CellsShown /\ View(t)[l] # "blank"
          BY <2>3
        <4>2. View(t)[l] = p.cells[from + l] /\ from + l \in Indices
          BY <2>2, <4>1
        <4>3. QED
          BY <4>1, <4>2
      <3>2. QED
        BY <1>1, <3>1 DEF Sheet, Bare, k
    <2>6. l \in Nat /\ k \in Nat /\ (k - 1) - from \in Nat
      <3>1. \A i \in CellsShown : i \in Nat
        BY Sizes DEF CellsShown
      <3>2. QED
        BY <1>1, <2>1, <2>3, <3>1 DEF k
    <2>7. QED
      BY <2>1, <2>4, <2>5, <2>6
  <1>8. QED
    BY <1>2, <1>3, <1>4, <1>7 DEF Good, u

\* While the screen is not full the video memory must be right already.
LEMMA RefreshGood ==
    ASSUME NEW t, Sheets(t)
    PROVE  /\ Sheets(Refresh(t)) /\ Turns(t, Refresh(t), FrontPage(t))
           /\ (Rows(t) < VGA_ROWS => Shown(t)) => Good(Refresh(t))
  <1> DEFINE u == Refresh(t)
  <1>1. /\ Rows(t) \in Nat /\ VGA_ROWS \in Nat /\ t \in TTY /\ Sheet(FrontPage(t))
        /\ t.cursor_pos \in Nat /\ t.cursor_pos \div VGA_COLS <= Rows(t)
        /\ t.active_screen \in Screens
    BY SheetsFront, TTYTypes, Constants
  <1>2. CASE Rows(t) >= VGA_ROWS
    <2>1. u = screen_display(t)
      BY <1>2 DEF Refresh
    <2>2. QED
      BY <2>1, DisplayGood DEF Good
  <1>3. CASE Rows(t) < VGA_ROWS
    <2>1. u = [t EXCEPT !.caret = t.cursor_pos]
      BY <1>1, <1>3 DEF Refresh
    <2>2. t.cursor_pos \in 0 .. VGA_ROWS * VGA_COLS
      <3>1. PICK d \in Nat : d = t.cursor_pos \div VGA_COLS
        BY <1>1, RowOf
      <3>2. d < VGA_ROWS
        BY <1>1, <1>3, <3>1
      <3>3. t.cursor_pos < VGA_ROWS * VGA_COLS
        BY <1>1, <3>1, <3>2, RowOf
      <3>4. QED
        BY <1>1, <3>3, Sizes
    <2>3. /\ u \in TTY /\ u.stock = t.stock /\ u.cursor_pos = t.cursor_pos
          /\ u.stock_cursor_index = t.stock_cursor_index
          /\ u.active_screen = t.active_screen /\ u.scroll_offset = t.scroll_offset
          /\ u.row_count = t.row_count /\ u.vga_buffer = t.vga_buffer
          /\ u.caret = t.cursor_pos /\ u.stale = t.stale
      BY <1>1, <2>1, <2>2 DEF TTY
    <2> HIDE DEF u
    <2>4. \A s \in Screens : Page(u, s) = Page(t, s)
      BY <2>3 DEF Page, CursorIn
    <2>5. Turns(t, u, FrontPage(t)) /\ Offset(u) = Offset(t) /\ Rows(u) = Rows(t)
      BY <1>1, <2>3, <2>4 DEF Turns, FrontPage, Offset, Rows
    <2>6. Sheets(u) /\ FrontPage(u) = FrontPage(t)
      BY <1>1, <2>5, TurnsSheets
    <2>7. View(u) = View(t)
      BY <1>1, <2>3, <2>5, <2>6, ViewSame
    <2>8. Shown(t) => Shown(u)
      BY <2>3, <2>7 DEF Shown
    <2>9. u.caret = u.cursor_pos - FirstShown(u) * VGA_COLS
      <3>1. FirstShown(u) = 0 /\ VGA_COLS \in Nat
        BY <1>3, <2>3, <2>5, FirstShownFacts, Constants
      <3>2. FirstShown(u) * VGA_COLS = 0
        BY <3>1
      <3>3. QED
        BY <1>1, <2>3, <3>2
    <2>10. QED
      BY <1>3, <2>3, <2>5, <2>6, <2>8, <2>9 DEF Good, Follows, u
  <1>4. QED
    BY <1>1, <1>2, <1>3

LEMMA WrittenFacts ==
    ASSUME NEW t \in TTY, Sheet(FrontPage(t)), NEW c \in Cells
    PROVE  /\ Turns(t, Written(t, c), Filled(FrontPage(t), c))
           /\ Written(t, c).scroll_offset = t.scroll_offset /\ Written(t, c).stale = t.stale
           /\ Written(t, c).cursor_pos = t.cursor_pos + 1
           /\ \A i \in CellsShown : Written(t, c).vga_buffer[i] =
                IF i = t.cursor_pos THEN c ELSE t.vga_buffer[i]
  <1> DEFINE q == t.active_screen
             p == FrontPage(t)
             k == t.cursor_pos
             new == [t.stock EXCEPT ![q * Size + k] = c]
             shown == IF k < VGA_ROWS * VGA_COLS THEN [t.vga_buffer EXCEPT ![k] = c]
                      ELSE t.vga_buffer
             u == Written(t, c)
  <1>1. /\ q \in Screens /\ p.rows = Rows(t) /\ p.at = k /\ p \in PageRec
        /\ t.stock \in [CellsOfAll -> Cells]
        /\ t.vga_buffer \in [CellsShown -> Cells]
        /\ \A j \in Indices : p.cells[j] = t.stock[q * Size + j]
    BY TTYTypes, PageFields DEF FrontPage
  <1>2. k \in Indices /\ k \in Nat /\ k < Size /\ VGA_ROWS * VGA_COLS \in Nat
    BY <1>1, Sizes DEF Sheet, Indices
  <1>3. u = [t EXCEPT !.stock = new, !.cursor_pos = k + 1, !.vga_buffer = shown]
    <2>1. CASE k < VGA_ROWS * VGA_COLS
      BY <2>1 DEF Written, At, TTY
    <2>2. CASE ~ (k < VGA_ROWS * VGA_COLS)
      BY <2>2 DEF Written, At, TTY
    <2>3. QED
      BY <2>1, <2>2
  <1>4. new \in [CellsOfAll -> Cells] /\ shown \in [CellsShown -> Cells]
    BY <1>1
  <1>5. \A i \in CellsShown : shown[i] = IF i = k THEN c ELSE t.vga_buffer[i]
    BY <1>1, <1>2 DEF CellsShown
  <1>6. ASSUME NEW s \in Screens, NEW j \in Indices
        PROVE  new[s * Size + j] = IF s = q /\ j = k THEN c ELSE t.stock[s * Size + j]
    <2>1. s * Size + j \in CellsOfAll /\ q * Size + k \in CellsOfAll
      BY <1>1, <1>2, CellOfScreen
    <2>2. s * Size + j = q * Size + k <=> s = q /\ j = k
      <3>1. s * Size + j = q * Size + k => s = q /\ j = k
        BY <1>1, <1>2, ScreensApart
      <3>2. QED
        BY <3>1
    <2>3. QED
      BY <1>1, <2>1, <2>2
  <1> HIDE DEF new, shown, u
  <1>7. /\ u \in TTY /\ u.stock = new /\ u.cursor_pos = k + 1
        /\ u.vga_buffer = shown /\ u.caret = t.caret /\ u.stale = t.stale
        /\ u.stock_cursor_index = t.stock_cursor_index /\ u.active_screen = q
        /\ u.scroll_offset = t.scroll_offset /\ u.row_count = t.row_count
    <2>1. k + 1 \in Int
      BY <1>2
    <2>2. u \in TTY
      BY <1>3, <1>4, <2>1 DEF TTY
    <2>3. QED
      BY <1>3, <2>2 DEF TTY
  <1>8. ASSUME NEW s \in Screens, s # q PROVE Page(u, s) = Page(t, s)
    <2>1. \A j \in Indices : u.stock[s * Size + j] = t.stock[s * Size + j]
      BY <1>6, <1>7, <1>8
    <2>2. QED
      BY <1>7, <1>8, <2>1 DEF Page, CursorIn
  <1>9. FrontPage(u) = Filled(p, c)
    <2>1. /\ FrontPage(u).at = k + 1 /\ FrontPage(u).rows = Rows(t)
          /\ FrontPage(u) \in PageRec
          /\ \A j \in Indices : FrontPage(u).cells[j] = new[q * Size + j]
      BY <1>1, <1>7, PageFields DEF FrontPage, Rows
    <2>2. /\ Filled(p, c).at = p.at + 1 /\ Filled(p, c).rows = p.rows
          /\ Filled(p, c) \in PageRec
      BY FilledFacts
    <2>3. \A j \in Indices : Filled(p, c).cells[j] = IF j = p.at THEN c ELSE p.cells[j]
      BY DEF Filled
    <2>4. \A j \in Indices : FrontPage(u).cells[j] = Filled(p, c).cells[j]
      BY <1>1, <1>6, <2>1, <2>3
    <2>5. QED
      BY <1>1, <2>1, <2>2, <2>4, PageEqual
  <1>10. Turns(t, u, Filled(p, c))
    BY <1>7, <1>8, <1>9 DEF Turns
  <1>11. QED
    BY <1>5, <1>7, <1>10 DEF u

\* Below its first VGA_ROWS rows a screen is shown from its first cell on.
LEMMA SmallView ==
    ASSUME NEW t \in TTY, Rows(t) < VGA_ROWS
    PROVE  \A i \in CellsShown : i \in Indices /\ View(t)[i] = FrontPage(t).cells[i]
  <1> SUFFICES ASSUME NEW i \in CellsShown
               PROVE  i \in Indices /\ View(t)[i] = FrontPage(t).cells[i]
    OBVIOUS
  <1>1. FirstShown(t) = 0
    BY FirstShownFacts
  <1>2. FirstShown(t) * VGA_COLS + i = i
    <2>1. i \in Int /\ VGA_COLS \in Nat
      BY Constants DEF CellsShown
    <2>2. QED
      BY <1>1, <2>1
  <1>3. FirstShown(t) * VGA_COLS + i \in Indices
        /\ View(t)[i] = FrontPage(t).cells[FirstShown(t) * VGA_COLS + i]
    BY ViewFacts
  <1>4. QED
    BY <1>2, <1>3

Live(t) == [t EXCEPT !.scroll_offset[t.active_screen] = 0]

LEMMA LiveFacts ==
    ASSUME NEW t \in TTY
    PROVE  /\ Turns(t, Live(t), FrontPage(t)) /\ Offset(Live(t)) = 0
           /\ Live(t).vga_buffer = t.vga_buffer /\ Live(t).stale = t.stale
           /\ Live(t).cursor_pos = t.cursor_pos
  <1> DEFINE u == Live(t)
             new == [t.scroll_offset EXCEPT ![t.active_screen] = 0]
  <1>1. t.active_screen \in Screens /\ t.scroll_offset \in [Screens -> 0 .. Short - 1]
        /\ 0 \in 0 .. Short - 1
    BY TTYTypes, Constants
  <1>2. new \in [Screens -> 0 .. Short - 1] /\ new[t.active_screen] = 0
    BY <1>1
  <1>3. u = [t EXCEPT !.scroll_offset = new]
    BY DEF Live, TTY
  <1> HIDE DEF new, u
  <1>4. /\ u \in TTY /\ u.scroll_offset = new
        /\ u.stock = t.stock /\ u.cursor_pos = t.cursor_pos
        /\ u.stock_cursor_index = t.stock_cursor_index /\ u.active_screen = t.active_screen
        /\ u.row_count = t.row_count /\ u.vga_buffer = t.vga_buffer
        /\ u.stale = t.stale
    BY <1>2, <1>3 DEF TTY
  <1>5. \A s \in Screens : Page(u, s) = Page(t, s)
    BY <1>4 DEF Page, CursorIn
  <1>6. Turns(t, u, FrontPage(t)) /\ Offset(u) = 0
    BY <1>1, <1>2, <1>4, <1>5 DEF Turns, FrontPage, Offset
  <1>7. QED
    BY <1>4, <1>6 DEF u

\* What a character does to a page whose last row is not counted yet.
LEMMA PutBeforeEnd ==
    ASSUME NEW p, Sheet(p), NEW c \in Cells, PagePut(p, c).rows < BUFFER_ROWS - 1
    PROVE  /\ PagePut(p, c).cells = Filled(p, c).cells /\ PagePut(p, c).at = p.at + 1
           /\ PagePut(p, c).rows \in {p.rows, p.rows + 1}
  <1>1. /\ Filled(p, c).rows = p.rows /\ Filled(p, c).at = p.at + 1
        /\ p.rows \in Nat
    BY FilledFacts, PageTypes DEF Sheet
  <1>2. CASE (p.at + 1) % VGA_COLS = 0
    <2>1. PagePut(p, c) = PageRow(Filled(p, c))
      BY <1>2 DEF PagePut
    <2>2. CASE p.rows = BUFFER_ROWS - 1
      <3>1. PagePut(p, c).rows = p.rows
        BY <1>1, <2>1, <2>2 DEF PageRow, PageUp
      <3>2. QED
        BY <1>1, <2>2, <3>1
    <2>3. CASE p.rows # BUFFER_ROWS - 1
      BY <1>1, <2>1, <2>3 DEF PageRow
    <2>4. QED
      BY <2>2, <2>3
  <1>3. CASE (p.at + 1) % VGA_COLS # 0
    BY <1>1, <1>3 DEF PagePut
  <1>4. QED
    BY <1>2, <1>3

\* A character in front of the limit is drawn where it is stored.
LEMMA PutShown ==
    ASSUME NEW t, Good(t), NEW c \in Cells, NEW w \in TTY,
           FrontPage(w) = PagePut(FrontPage(t), c), w.stale = t.stale,
           \A i \in CellsShown : w.vga_buffer[i] =
             IF i = t.cursor_pos THEN c ELSE t.vga_buffer[i],
           Rows(w) < VGA_ROWS
    PROVE  Shown(w)
  <1> DEFINE p == FrontPage(t)
             new == PagePut(p, c)
  <1>1. /\ t \in TTY /\ Sheets(t) /\ Sheet(p) /\ p.at = t.cursor_pos /\ p.rows = Rows(t)
        /\ Shown(t) /\ Rows(t) \in Nat
    BY SheetsFront, TTYTypes DEF Good
  <1>2. w.active_screen \in Screens /\ Rows(w) = new.rows /\ Rows(w) \in Nat
    BY PageFields, TTYTypes
  <1>3. new.rows < BUFFER_ROWS - 1 /\ new.rows < VGA_ROWS /\ VGA_ROWS \in Nat
    BY <1>2, Constants
  <1>4. /\ new.cells = Filled(p, c).cells /\ new.rows \in {p.rows, p.rows + 1}
    BY <1>1, <1>3, PutBeforeEnd
  <1> HIDE DEF new
  <1>5. Rows(t) < VGA_ROWS
    BY <1>1, <1>2, <1>3, <1>4
  <1>6. CASE t.stale
    BY <1>6 DEF Shown
  <1>7. CASE t.vga_buffer = View(t)
    <2>1. ASSUME NEW i \in CellsShown PROVE w.vga_buffer[i] = View(w)[i]
      <3>1. i \in Indices /\ View(w)[i] = new.cells[i] /\ View(t)[i] = p.cells[i]
        BY <1>1, <1>5, SmallView DEF new
      <3>2. Filled(p, c).cells[i] = IF i = p.at THEN c ELSE p.cells[i]
        BY <3>1 DEF Filled
      <3>3. QED
        BY <1>1, <1>4, <1>7, <3>1, <3>2
    <2>2. View(w) \in [CellsShown -> Cells] /\ w.vga_buffer \in [CellsShown -> Cells]
      BY ViewFacts, TTYTypes
    <2>3. QED
      BY <2>1, <2>2 DEF Shown
  <1>8. QED
    BY <1>1, <1>6, <1>7 DEF Shown

LEMMA PrintCharFacts ==
    ASSUME NEW t, Sheets(t), NEW c \in Cells
    PROVE  /\ Turns(t, vga_putchar(t, c), PagePut(FrontPage(t), c))
           /\ Sheets(vga_putchar(t, c))
           /\ Good(t) => Good(vga_putchar(t, c))
  <1> DEFINE p == FrontPage(t)
             live == Live(t)
             out == Written(live, c)
             w == IF out.cursor_pos % VGA_COLS = 0 THEN CountRow(out) ELSE out
             new == PagePut(p, c)
             u == vga_putchar(t, c)
  <1>1. /\ t \in TTY /\ Sheet(p) /\ p.at = t.cursor_pos /\ t.cursor_pos \in Nat
    BY SheetsFront
  <1>2. u = Refresh(w)
    BY DEF vga_putchar, Live
  <1>3. /\ Turns(t, live, p) /\ live \in TTY /\ FrontPage(live) = p
        /\ live.vga_buffer = t.vga_buffer /\ live.stale = t.stale
        /\ live.cursor_pos = t.cursor_pos
    BY <1>1, LiveFacts DEF Turns
  <1> HIDE DEF live
  <1>4. /\ Turns(live, out, Filled(p, c)) /\ out.stale = t.stale
        /\ out.cursor_pos = t.cursor_pos + 1
        /\ \A i \in CellsShown : out.vga_buffer[i] =
             IF i = t.cursor_pos THEN c ELSE t.vga_buffer[i]
    BY <1>1, <1>3, WrittenFacts
  <1>5. out \in TTY /\ FrontPage(out) = Filled(p, c)
    BY <1>4 DEF Turns
  <1> HIDE DEF out
  <1>6. Turns(out, w, new) /\ Undrawn(out, w)
    <2>1. CASE out.cursor_pos % VGA_COLS = 0
      <3>1. new = PageRow(Filled(p, c)) /\ w = CountRow(out)
        BY <1>1, <1>4, <2>1 DEF PagePut
      <3>2. QED
        BY <1>5, <3>1, CountRowFacts
    <2>2. CASE out.cursor_pos % VGA_COLS # 0
      <3>1. new = Filled(p, c) /\ w = out
        BY <1>1, <1>4, <2>2 DEF PagePut
      <3>2. QED
        BY <1>5, <3>1 DEF Turns, Undrawn
    <2>3. QED
      BY <2>1, <2>2
  <1>7. Turns(t, w, new) /\ w \in TTY /\ FrontPage(w) = new /\ Sheet(new)
    <2>1. Turns(t, out, Filled(p, c))
      BY <1>3, <1>4, TurnsTwice
    <2>2. Turns(t, w, new)
      BY <1>6, <2>1, TurnsTwice
    <2>3. Sheet(new)
      BY <1>1, PutOnPage
    <2>4. QED
      BY <2>2, <2>3 DEF Turns
  <1> HIDE DEF w
  <1>8. Sheets(w)
    BY <1>1, <1>7, TurnsSheets
  <1>9. Good(t) /\ Rows(w) < VGA_ROWS => Shown(w)
    BY <1>4, <1>6, <1>7, PutShown DEF Undrawn
  <1>10. Turns(w, u, new) /\ Sheets(u) /\ (Good(t) => Good(u))
    BY <1>2, <1>7, <1>8, <1>9, RefreshGood
  <1> HIDE DEF u, new
  <1>11. Turns(t, u, new)
    BY <1>7, <1>10, TurnsTwice
  <1>12. QED
    BY <1>10, <1>11 DEF u, new

\* A control character does no more than count a row.
LEMMA PrintTabFacts ==
    ASSUME NEW t, Good(t), t.cursor_pos # 0 \/ Rows(t) # BUFFER_ROWS - 1
    PROVE  /\ Turns(t, vga_putchar(t, "tab"), PageTab(FrontPage(t)))
           /\ Good(vga_putchar(t, "tab"))
  <1> DEFINE p == FrontPage(t)
             live == Live(t)
             w == IF live.cursor_pos % VGA_COLS = 0 THEN CountRow(live) ELSE live
             new == PageTab(p)
             u == vga_putchar(t, "tab")
  <1>1. /\ t \in TTY /\ Sheets(t) /\ Sheet(p) /\ p.at = t.cursor_pos /\ t.cursor_pos \in Nat
        /\ p.rows = Rows(t) /\ Rows(t) \in Nat
    BY SheetsFront, TTYTypes DEF Good
  <1>2. u = Refresh(w)
    BY Constants DEF vga_putchar, Live
  <1>3. /\ Turns(t, live, p) /\ live \in TTY /\ FrontPage(live) = p
        /\ live.vga_buffer = t.vga_buffer /\ live.stale = t.stale
        /\ live.cursor_pos = t.cursor_pos
    BY <1>1, LiveFacts DEF Turns
  <1> HIDE DEF live
  <1>4. Turns(live, w, new) /\ Undrawn(live, w)
    <2>1. CASE live.cursor_pos % VGA_COLS = 0
      <3>1. new = PageRow(p) /\ w = CountRow(live)
        BY <1>1, <1>3, <2>1 DEF PageTab
      <3>2. QED
        BY <1>3, <3>1, CountRowFacts
    <2>2. CASE live.cursor_pos % VGA_COLS # 0
      <3>1. new = p /\ w = live
        BY <1>1, <1>3, <2>2 DEF PageTab
      <3>2. QED
        BY <1>3, <3>1 DEF Turns, Undrawn
    <2>3. QED
      BY <2>1, <2>2
  <1>5. Turns(t, w, new) /\ w \in TTY /\ FrontPage(w) = new /\ Sheet(new)
    <2>1. Turns(t, w, new)
      BY <1>3, <1>4, TurnsTwice
    <2>2. Sheet(new)
      BY <1>1, TabOnPage
    <2>3. QED
      BY <2>1, <2>2 DEF Turns
  <1> HIDE DEF w
  <1>6. Sheets(w) /\ Rows(w) = new.rows /\ Rows(w) \in Nat
    BY <1>1, <1>5, TurnsSheets, SheetsFront, TTYTypes
  <1>7. ASSUME Rows(w) < VGA_ROWS PROVE Shown(w)
    <2>1. new.cells = p.cells /\ Rows(t) < VGA_ROWS
      <3>1. VGA_ROWS <= BUFFER_ROWS - 1 /\ VGA_ROWS \in Nat /\ BUFFER_ROWS \in Nat
        BY Constants
      <3>2. CASE p.at % VGA_COLS # 0
        BY <1>1, <1>6, <1>7, <3>2 DEF PageTab, new
      <3>3. CASE p.at % VGA_COLS = 0 /\ p.rows # BUFFER_ROWS - 1
        <4>1. new = [cells |-> p.cells, at |-> p.at, rows |-> p.rows + 1]
          BY <3>3 DEF PageTab, PageRow
        <4>2. new.rows = p.rows + 1 /\ new.cells = p.cells
          BY <4>1
        <4> HIDE DEF new
        <4>3. Rows(t) < VGA_ROWS
          BY <1>1, <1>6, <1>7, <3>1, <4>2
        <4>4. QED
          BY <4>2, <4>3
      <3>4. CASE p.at % VGA_COLS = 0 /\ p.rows = BUFFER_ROWS - 1
        <4>1. new = PageUp(p) /\ PageUp(p).rows = p.rows
          BY <3>4 DEF PageTab, PageRow, PageUp
        <4> HIDE DEF new
        <4>2. FALSE
          BY <1>1, <1>6, <1>7, <3>1, <3>4, <4>1
        <4>3. QED
          BY <4>2
      <3>5. QED
        BY <3>2, <3>3, <3>4
    <2>2. w.vga_buffer = t.vga_buffer /\ w.stale = t.stale
      BY <1>3, <1>4 DEF Undrawn
    <2>3. View(w) = View(t)
      <3>1. \A i \in CellsShown : View(w)[i] = View(t)[i]
        BY <1>1, <1>5, <1>7, <2>1, SmallView
      <3>2. View(w) \in [CellsShown -> Cells] /\ View(t) \in [CellsShown -> Cells]
        BY <1>1, <1>5, ViewFacts
      <3>3. QED
        BY <3>1, <3>2
    <2>4. QED
      BY <2>2, <2>3 DEF Shown, Good
  <1>8. /\ Turns(w, u, new) /\ Good(u)
    BY <1>2, <1>5, <1>6, <1>7, RefreshGood
  <1> HIDE DEF u, new
  <1>9. Turns(t, u, new)
    BY <1>5, <1>8, TurnsTwice
  <1>10. QED
    BY <1>8, <1>9 DEF u, new

LEMMA NewLineFacts ==
    ASSUME NEW t, Sheets(t)
    PROVE  /\ Turns(t, vga_newline(t), PageLine(FrontPage(t)))
           /\ Good(vga_newline(t))
  <1> DEFINE p == FrontPage(t)
             k == t.cursor_pos
             q == t.active_screen
             bare == Fill(t, k, Padding(t), "space")
             padded == [bare EXCEPT !.cursor_pos = @ + Padding(t)]
             w == CountRow(padded)
             u == vga_newline(t)
  <1>1. /\ t \in TTY /\ q \in Screens /\ Sheet(p)
        /\ p.at = k /\ p.rows = Rows(t) /\ k \in Nat
    BY SheetsFront
  <1>2. u = screen_display(w)
    BY DEF vga_newline
  <1>3. Padding(t) = Rest(k)
    BY DEF Padding, Rest
  <1>4. /\ Rest(k) \in Nat /\ k + Rest(k) <= Size /\ k + Rest(k) \in Nat
        /\ Ended(Padded(p)) /\ Padded(p) \in PageRec
        /\ Padded(p).at = k + Rest(k) /\ Padded(p).rows = p.rows
    <2>1. /\ Ended(Padded(p)) /\ Padded(p).at = k + Rest(k) /\ Padded(p).rows = p.rows
      BY <1>1, PaddedFacts
    <2>2. Rest(k) \in 1 .. VGA_COLS /\ VGA_COLS \in Nat
      BY <1>1, NextRow, Constants
    <2>3. QED
      BY <1>1, <2>1, <2>2 DEF Ended
  <1>5. /\ bare \in TTY /\ bare = [t EXCEPT !.stock = bare.stock]
        /\ \A s \in Screens : \A j \in Indices :
             bare.stock[s * Size + j] =
               IF s = q /\ k <= j /\ j < k + Rest(k) THEN "space"
               ELSE t.stock[s * Size + j]
    <2>1. "space" \in Cells /\ bare = Fill(t, k, Rest(k), "space")
      BY <1>3, Constants
    <2> HIDE DEF bare
    <2>2. QED
      BY <1>1, <1>4, <2>1, FillFacts
  <1> HIDE DEF bare
  <1>6. /\ bare.cursor_pos = k /\ bare.active_screen = q
        /\ bare.stock_cursor_index = t.stock_cursor_index
        /\ bare.row_count = t.row_count
    BY <1>5 DEF TTY
  <1>7. /\ padded \in TTY /\ padded.stock = bare.stock
        /\ padded.cursor_pos = k + Rest(k) /\ padded.active_screen = q
        /\ padded.stock_cursor_index = t.stock_cursor_index
        /\ padded.row_count = t.row_count
    BY <1>3, <1>4, <1>5, <1>6 DEF TTY
  <1> HIDE DEF padded
  <1>8. ASSUME NEW s \in Screens, s # q PROVE Page(padded, s) = Page(t, s)
    <2>1. \A j \in Indices : padded.stock[s * Size + j] = t.stock[s * Size + j]
      BY <1>5, <1>7, <1>8
    <2>2. QED
      BY <1>7, <1>8, <2>1 DEF Page, CursorIn
  <1>9. FrontPage(padded) = Padded(p)
    <2>1. /\ FrontPage(padded).at = k + Rest(k) /\ FrontPage(padded).rows = Rows(t)
          /\ FrontPage(padded) \in PageRec
          /\ \A j \in Indices : FrontPage(padded).cells[j] = padded.stock[q * Size + j]
      BY <1>1, <1>7, PageFields DEF FrontPage, Rows
    <2>2. \A j \in Indices : Padded(p).cells[j] =
            IF k <= j /\ j < k + Rest(k) THEN "space" ELSE p.cells[j]
      BY <1>1 DEF Padded
    <2>3. \A j \in Indices : p.cells[j] = t.stock[q * Size + j]
      BY <1>1, PageFields DEF FrontPage
    <2>4. \A j \in Indices : FrontPage(padded).cells[j] = Padded(p).cells[j]
      BY <1>1, <1>5, <1>7, <2>1, <2>2, <2>3
    <2>5. QED
      BY <1>1, <1>4, <2>1, <2>4, PageEqual
  <1>10. Turns(t, padded, Padded(p))
    BY <1>7, <1>8, <1>9 DEF Turns
  <1>11. Turns(padded, w, PageLine(p))
    BY <1>7, <1>9, CountRowFacts DEF PageLine
  <1> HIDE DEF w
  <1>12. Turns(t, w, PageLine(p)) /\ Sheet(PageLine(p))
    BY <1>1, <1>10, <1>11, TurnsTwice, LineOnPage
  <1>13. Sheets(w) /\ FrontPage(w) = PageLine(p)
    BY <1>1, <1>12, TurnsSheets
  <1>14. /\ Turns(w, u, PageLine(p)) /\ Good(u)
    BY <1>2, <1>13, DisplayGood
  <1> HIDE DEF u
  <1>15. Turns(t, u, PageLine(p))
    BY <1>12, <1>14, TurnsTwice
  <1>16. QED
    BY <1>14, <1>15 DEF u

LEMMA DeletedFacts ==
    ASSUME NEW t, Good(t), t.cursor_pos # 0
    PROVE  /\ Turns(t, Deleted(t), PageErased(FrontPage(t)))
           /\ \A i \in CellsShown : Deleted(t).vga_buffer[i] =
                IF i = t.cursor_pos - 1 THEN "blank" ELSE t.vga_buffer[i]
           /\ Deleted(t).stale = (t.stale \/ (CountDown(t) /\ Rows(t) = VGA_ROWS))
           /\ LeavesRow(t) <=> t.cursor_pos % VGA_COLS = 0
  <1> DEFINE q == t.active_screen
             p == FrontPage(t)
             k == t.cursor_pos - 1
             new == [t.stock EXCEPT ![q * Size + k] = "blank"]
             shown == IF k < VGA_ROWS * VGA_COLS THEN [t.vga_buffer EXCEPT ![k] = "blank"]
                      ELSE t.vga_buffer
             rows == [t.row_count EXCEPT ![q] = PageErased(p).rows]
             old == t.stale \/ (CountDown(t) /\ Rows(t) = VGA_ROWS)
             u == Deleted(t)
  <1>1. /\ t \in TTY /\ q \in Screens /\ Sheet(p) /\ p.at = t.cursor_pos
        /\ p.rows = Rows(t) /\ t.cursor_pos \in Nat /\ t.cursor_pos < Size
    BY SheetsFront DEF Good
  <1>2. /\ k \in Indices /\ k \in Nat /\ k < Size /\ k \in Int
        /\ VGA_ROWS * VGA_COLS \in Nat /\ "blank" \in Cells
    BY <1>1, Sizes, Constants DEF Indices
  <1>3. /\ t.stock \in [CellsOfAll -> Cells]
        /\ t.vga_buffer \in [CellsShown -> Cells]
        /\ \A j \in Indices : p.cells[j] = t.stock[q * Size + j]
    BY <1>1, TTYTypes, PageFields DEF FrontPage
  <1>0. /\ LeavesRow(t) <=> t.cursor_pos % VGA_COLS = 0
        /\ PageErased(p) \in PageRec
        /\ PageErased(p).rows = IF CountDown(t) THEN Rows(t) - 1 ELSE Rows(t)
    <2>1. /\ Sheet(PageErased(p))
          /\ (p.at - 1) % VGA_COLS = VGA_COLS - 1 <=> p.at % VGA_COLS = 0
      BY <1>1, ErasedFacts
    <2>2. LeavesRow(t) <=> t.cursor_pos % VGA_COLS = 0
      BY <1>1, <2>1 DEF LeavesRow
    <2>3. QED
      BY <1>1, <2>1, <2>2 DEF CountDown, PageErased, Sheet
  <1>13. t.row_count \in [Screens -> 0 .. BUFFER_ROWS - 1] /\ t.stale \in BOOLEAN
    BY <1>1, TTYTypes
  <1>4. u = [t EXCEPT !.stock = new, !.cursor_pos = k, !.vga_buffer = shown,
                      !.row_count = rows, !.stale = old]
    <2>1. rows = [t.row_count EXCEPT ![q] = IF CountDown(t) THEN @ - 1 ELSE @]
      BY <1>0 DEF Rows
    <2> HIDE DEF rows
    <2>2. CASE k < VGA_ROWS * VGA_COLS
      BY <1>1, <2>1, <2>2 DEF Deleted, Erased, At, TTY
    <2>3. CASE ~ (k < VGA_ROWS * VGA_COLS)
      BY <1>1, <2>1, <2>3 DEF Deleted, Erased, At, TTY
    <2>4. QED
      BY <2>2, <2>3
  <1>14. /\ rows \in [Screens -> 0 .. BUFFER_ROWS - 1] /\ rows[q] = PageErased(p).rows
         /\ \A s \in Screens : s # q => rows[s] = t.row_count[s]
         /\ old \in BOOLEAN
    BY <1>0, <1>1, <1>13, PageTypes
  <1>5. new \in [CellsOfAll -> Cells] /\ shown \in [CellsShown -> Cells]
    BY <1>2, <1>3
  <1>6. \A i \in CellsShown : shown[i] = IF i = k THEN "blank" ELSE t.vga_buffer[i]
    BY <1>2, <1>3 DEF CellsShown
  <1>7. ASSUME NEW s \in Screens, NEW j \in Indices
        PROVE  new[s * Size + j] = IF s = q /\ j = k THEN "blank"
                                   ELSE t.stock[s * Size + j]
    <2>1. s * Size + j \in CellsOfAll /\ q * Size + k \in CellsOfAll
      BY <1>1, <1>2, CellOfScreen
    <2>2. s * Size + j = q * Size + k <=> s = q /\ j = k
      <3>1. s * Size + j = q * Size + k => s = q /\ j = k
        BY <1>1, <1>2, ScreensApart
      <3>2. QED
        BY <3>1
    <2>3. QED
      BY <1>3, <2>1, <2>2
  <1> HIDE DEF new, shown, u, k, rows, old
  <1>8. /\ u \in TTY /\ u.stock = new /\ u.cursor_pos = k
        /\ u.vga_buffer = shown
        /\ u.stock_cursor_index = t.stock_cursor_index /\ u.active_screen = q
        /\ u.scroll_offset = t.scroll_offset /\ u.row_count = rows /\ u.stale = old
    <2>1. u \in TTY
      BY <1>1, <1>2, <1>4, <1>5, <1>14 DEF TTY
    <2>2. QED
      BY <1>1, <1>4, <2>1 DEF TTY
  <1>9. ASSUME NEW s \in Screens, s # q PROVE Page(u, s) = Page(t, s)
    <2>1. \A j \in Indices : u.stock[s * Size + j] = t.stock[s * Size + j]
      BY <1>7, <1>8, <1>9
    <2>2. QED
      BY <1>8, <1>9, <1>14, <2>1 DEF Page, CursorIn
  <1>10. FrontPage(u) = PageErased(p)
    <2>1. /\ FrontPage(u).at = k /\ FrontPage(u).rows = rows[q]
          /\ FrontPage(u) \in PageRec
          /\ \A j \in Indices : FrontPage(u).cells[j] = new[q * Size + j]
      BY <1>1, <1>8, PageFields DEF FrontPage, Rows
    <2>2. /\ PageErased(p).at = k /\ PageErased(p).rows = rows[q]
          /\ PageErased(p) \in PageRec
      BY <1>0, <1>1, <1>14, ErasedFacts DEF k
    <2>3. \A j \in Indices : PageErased(p).cells[j] = IF j = k THEN "blank" ELSE p.cells[j]
      BY <1>1 DEF PageErased, k
    <2>4. \A j \in Indices : FrontPage(u).cells[j] = PageErased(p).cells[j]
      BY <1>1, <1>3, <1>7, <2>1, <2>3
    <2>5. QED
      BY <1>1, <2>1, <2>2, <2>4, PageEqual
  <1>11. Turns(t, u, PageErased(p))
    BY <1>8, <1>9, <1>10 DEF Turns
  <1>12. QED
    BY <1>0, <1>6, <1>8, <1>11 DEF u, k, old

LEMMA BackspaceFacts ==
    ASSUME NEW t, Good(t), t.cursor_pos # 0
    PROVE  /\ Turns(t, Refresh(Deleted(t)), PageErased(FrontPage(t)))
           /\ Good(Refresh(Deleted(t)))
  <1> DEFINE p == FrontPage(t)
             w == Deleted(t)
             new == PageErased(p)
             u == Refresh(w)
  <1>1. /\ t \in TTY /\ Sheets(t) /\ Sheet(p) /\ p.at = t.cursor_pos
        /\ p.rows = Rows(t) /\ Rows(t) \in Nat /\ Shown(t)
    BY SheetsFront, TTYTypes DEF Good
  <1>2. /\ Turns(t, w, new) /\ w \in TTY /\ FrontPage(w) = new
        /\ \A i \in CellsShown : w.vga_buffer[i] =
             IF i = t.cursor_pos - 1 THEN "blank" ELSE t.vga_buffer[i]
        /\ w.stale = (t.stale \/ (CountDown(t) /\ Rows(t) = VGA_ROWS))
        /\ LeavesRow(t) <=> p.at % VGA_COLS = 0
    BY <1>1, DeletedFacts DEF Turns
  <1>3. Sheet(new) /\ new.rows = IF CountDown(t) THEN p.rows - 1 ELSE p.rows
    BY <1>1, <1>2, ErasedFacts DEF CountDown, PageErased
  <1> HIDE DEF w
  <1>4. Sheets(w) /\ Rows(w) = new.rows
    BY <1>1, <1>2, <1>3, TurnsSheets, SheetsFront
  <1>5. ASSUME Rows(w) < VGA_ROWS PROVE Shown(w)
    <2>1. CASE w.stale
      BY <2>1 DEF Shown
    <2>2. CASE ~w.stale
      <3>1. Rows(t) < VGA_ROWS /\ t.vga_buffer = View(t)
        <4>1. ~t.stale /\ ~ (CountDown(t) /\ Rows(t) = VGA_ROWS)
          BY <1>2, <2>2
        <4>2. VGA_ROWS \in Nat
          BY Constants
        <4> HIDE DEF new
        <4>3. Rows(t) < VGA_ROWS
          BY <1>1, <1>3, <1>4, <1>5, <4>1, <4>2
        <4>4. QED
          BY <1>1, <4>1, <4>3 DEF Shown
      <3>2. ASSUME NEW i \in CellsShown
            PROVE  w.vga_buffer[i] = View(w)[i]
        <4>1. i \in Indices /\ View(w)[i] = new.cells[i] /\ View(t)[i] = p.cells[i]
          BY <1>1, <1>2, <1>5, <3>1, SmallView
        <4>2. w.vga_buffer[i] = IF i = t.cursor_pos - 1 THEN "blank" ELSE View(t)[i]
          BY <1>1, <1>2, <3>1
        <4>3. new.cells[i] = IF i = p.at - 1 THEN "blank" ELSE p.cells[i]
          BY <4>1 DEF PageErased
        <4>4. QED
          BY <1>1, <4>1, <4>2, <4>3
      <3>3. View(w) \in [CellsShown -> Cells] /\ w.vga_buffer \in [CellsShown -> Cells]
        BY <1>2, ViewFacts, TTYTypes
      <3>4. QED
        BY <3>2, <3>3 DEF Shown
    <2>3. QED
      BY <2>1, <2>2
  <1>6. Turns(w, u, new) /\ Good(u)
    BY <1>2, <1>4, <1>5, RefreshGood
  <1> HIDE DEF u, new
  <1>7. Turns(t, u, new)
    BY <1>2, <1>6, TurnsTwice
  <1>8. QED
    BY <1>6, <1>7 DEF u, w, new

\* The arrow keys change what is shown and nothing else.
LEMMA ScrollFacts ==
    ASSUME NEW t, Good(t), NEW e \in 0 .. Short - 1
    PROVE  LET u == screen_display([t EXCEPT !.scroll_offset[t.active_screen] = e])
           IN  /\ Good(u) /\ u.active_screen = t.active_screen
               /\ \A s \in Screens : Page(u, s) = Page(t, s)
  <1> DEFINE new == [t.scroll_offset EXCEPT ![t.active_screen] = e]
             w == [t EXCEPT !.scroll_offset[t.active_screen] = e]
             u == screen_display(w)
  <1>1. /\ t \in TTY /\ t.active_screen \in Screens
        /\ t.scroll_offset \in [Screens -> 0 .. Short - 1]
    BY SheetsFront, TTYTypes DEF Good
  <1>2. new \in [Screens -> 0 .. Short - 1] /\ new[t.active_screen] = e
    BY <1>1
  <1>3. w = [t EXCEPT !.scroll_offset = new]
    BY <1>1 DEF TTY
  <1> HIDE DEF new, w
  <1>4. /\ w \in TTY /\ w.scroll_offset = new
        /\ w.stock = t.stock /\ w.cursor_pos = t.cursor_pos
        /\ w.stock_cursor_index = t.stock_cursor_index /\ w.active_screen = t.active_screen
        /\ w.row_count = t.row_count
    BY <1>1, <1>2, <1>3 DEF TTY
  <1>5. \A s \in Screens : Page(w, s) = Page(t, s)
    BY <1>4 DEF Page, CursorIn
  <1>6. \A s \in Screens : Sheet(Page(w, s))
    BY <1>5 DEF Good, Sheets
  <1>7. Sheets(w)
    BY <1>4, <1>6 DEF Sheets
  <1>8. Good(u) /\ (\A s \in Screens : Page(u, s) = Page(w, s)) /\ u.active_screen = w.active_screen
    BY <1>7, DisplayGood
  <1> HIDE DEF u
  <1>9. QED
    BY <1>4, <1>5, <1>8 DEF u, w

LEMMA SwitchFacts ==
    ASSUME NEW t, Sheets(t), NEW s \in Screens
    PROVE  /\ Good(screen_switch(t, s)) /\ screen_switch(t, s).active_screen = s
           /\ \A q \in Screens : Page(screen_switch(t, s), q) = Page(t, q)
           /\ screen_switch(t, s).scroll_offset = t.scroll_offset
  <1> DEFINE saved == [t.stock_cursor_index EXCEPT ![t.active_screen] = t.cursor_pos]
             w == [t EXCEPT !.stock_cursor_index = saved, !.active_screen = s,
                            !.cursor_pos = saved[s]]
             u == screen_switch(t, s)
  <1>1. /\ t \in TTY /\ t.active_screen \in Screens /\ t.cursor_pos \in Nat
        /\ t.stock_cursor_index \in [Screens -> Nat]
    BY SheetsFront, TTYTypes
  <1>2. /\ saved \in [Screens -> Nat]
        /\ \A q \in Screens : saved[q] = CursorIn(t, q)
    BY <1>1 DEF CursorIn
  <1>3. u = screen_display(w)
    BY DEF screen_switch
  <1> HIDE DEF saved, u
  <1>4. saved[s] \in Int
    BY <1>2
  <1>5. /\ w \in TTY /\ w.stock_cursor_index = saved /\ w.active_screen = s
        /\ w.cursor_pos = saved[s] /\ w.stock = t.stock /\ w.row_count = t.row_count
        /\ w.scroll_offset = t.scroll_offset
    BY <1>1, <1>2, <1>4 DEF TTY
  <1> HIDE DEF w
  <1>6. \A q \in Screens : Page(w, q) = Page(t, q)
    <2>1. \A q \in Screens : CursorIn(w, q) = CursorIn(t, q)
      BY <1>2, <1>5 DEF CursorIn
    <2>2. QED
      BY <1>5, <2>1 DEF Page
  <1>7. Sheets(w)
    BY <1>5, <1>6 DEF Sheets
  <1>8. /\ Good(u) /\ \A q \in Screens : Page(u, q) = Page(w, q)
        /\ u.active_screen = s /\ u.scroll_offset = t.scroll_offset
    BY <1>3, <1>5, <1>7, DisplayGood
  <1>9. QED
    BY <1>6, <1>8 DEF u

\* At the start, a screen that was never written to is cleared.
LEMMA ClearFacts ==
    ASSUME NEW t, Sheets(t)
    PROVE  /\ Turns(t, vga_clear(t), EmptyPage) /\ Sheets(vga_clear(t))
           /\ Good(t) /\ FrontPage(t) = EmptyPage => Good(vga_clear(t))
  <1> DEFINE q == t.active_screen
             bare == Fill(t, 0, Size, "blank")
             rows == [t.row_count EXCEPT ![q] = 0]
             u == vga_clear(t)
  <1>1. /\ t \in TTY /\ q \in Screens /\ Sheets(t) /\ Size \in Nat
        /\ VGA_ROWS * VGA_COLS \in Nat /\ "blank" \in Cells
        /\ t.row_count \in [Screens -> 0 .. BUFFER_ROWS - 1]
        /\ 0 \in 0 .. BUFFER_ROWS - 1
    <2>1. t \in TTY /\ q \in Screens /\ Sheets(t)
      BY SheetsFront
    <2>2. 0 \in 0 .. BUFFER_ROWS - 1
      BY Constants
    <2>3. QED
      BY <2>1, <2>2, TTYTypes, Sizes, Constants
  <1>2. /\ bare \in TTY /\ bare = [t EXCEPT !.stock = bare.stock]
        /\ \A s \in Screens : \A j \in Indices :
             bare.stock[s * Size + j] =
               IF s = q /\ 0 <= j /\ j < 0 + Size THEN "blank"
               ELSE t.stock[s * Size + j]
    <2>1. ASSUME NEW lo \in Nat, lo + Size <= Size
          PROVE  /\ Fill(t, lo, Size, "blank") \in TTY
                 /\ Fill(t, lo, Size, "blank") = [t EXCEPT !.stock = Fill(t, lo, Size, "blank").stock]
                 /\ \A s \in Screens : \A j \in Indices :
                      Fill(t, lo, Size, "blank").stock[s * Size + j] =
                        IF s = q /\ lo <= j /\ j < lo + Size THEN "blank"
                        ELSE t.stock[s * Size + j]
      BY <1>1, <2>1, FillFacts
    <2>2. 0 \in Nat /\ 0 + Size <= Size
      BY <1>1
    <2>3. QED
      BY <2>1, <2>2, Zenon
  <1> HIDE DEF bare
  <1>3. /\ bare.cursor_pos = t.cursor_pos /\ bare.active_screen = q
        /\ bare.stock_cursor_index = t.stock_cursor_index
        /\ bare.row_count = t.row_count /\ bare.scroll_offset = t.scroll_offset
        /\ bare.vga_buffer = t.vga_buffer /\ bare.stale = t.stale
    BY <1>2 DEF TTY
  <1>4. u = [bare EXCEPT !.cursor_pos = 0, !.row_count = rows, !.caret = 0]
    BY <1>2, <1>3 DEF vga_clear, bare, TTY
  <1>5. /\ rows \in [Screens -> 0 .. BUFFER_ROWS - 1] /\ rows[q] = 0
        /\ \A s \in Screens : s # q => rows[s] = t.row_count[s]
    BY <1>1
  <1> HIDE DEF u, rows
  <1>6. /\ u \in TTY /\ u.stock = bare.stock /\ u.cursor_pos = 0
        /\ u.active_screen = q /\ u.stock_cursor_index = t.stock_cursor_index
        /\ u.row_count = rows /\ u.scroll_offset = t.scroll_offset
        /\ u.vga_buffer = t.vga_buffer /\ u.stale = t.stale
    <2>1. 0 \in 0 .. VGA_ROWS * VGA_COLS /\ bare \in TTY /\ 0 \in Int
      BY <1>1, <1>2
    <2>2. u \in TTY
      BY <1>4, <1>5, <2>1 DEF TTY
    <2>3. QED
      BY <1>3, <1>4, <2>1, <2>2 DEF TTY
  <1>7. ASSUME NEW s \in Screens, s # q PROVE Page(u, s) = Page(t, s)
    <2>1. \A j \in Indices : u.stock[s * Size + j] = t.stock[s * Size + j]
      BY <1>2, <1>6, <1>7
    <2>2. QED
      BY <1>5, <1>6, <1>7, <2>1 DEF Page, CursorIn
  <1>8. FrontPage(u) = EmptyPage
    <2>1. \A j \in Indices : u.stock[q * Size + j] = "blank"
      <3>1. \A j \in Indices : 0 <= j /\ j < 0 + Size
        BY <1>1 DEF Indices
      <3>2. QED
        BY <1>1, <1>2, <1>6, <3>1
    <2>2. QED
      BY <1>5, <1>6, <2>1 DEF FrontPage, Page, CursorIn, EmptyPage
  <1>9. Turns(t, u, EmptyPage) /\ Offset(u) = Offset(t)
    BY <1>6, <1>7, <1>8 DEF Turns, Offset
  <1>10. Sheets(u)
    BY <1>1, <1>9, EmptyFacts, TurnsSheets
  <1>11. ASSUME Good(t), FrontPage(t) = EmptyPage PROVE Good(u)
    <2>1. View(u) = View(t)
      BY <1>1, <1>6, <1>8, <1>9, <1>11, ViewSame
    <2>2. Shown(u) /\ Follows(u)
      BY <1>6, <1>11, <2>1 DEF Shown, Follows, Good
    <2>3. QED
      BY <1>10, <2>2 DEF Good
  <1>12. QED
    BY <1>9, <1>10, <1>11 DEF u

----------------------------------------------------------------------------
(* What is typed behind a prompt *)

\* The last Len(w) cells in front of the cursor hold w and the one before is the
\* mark of the prompt, as far as the buffer, which is full then, has kept them.
Holds(p, w) ==
    /\ \A i \in 1 .. Len(w) : i <= p.at => p.cells[p.at - i] = w[(Len(w) - i) + 1]
    /\ Len(w) < p.at => p.cells[p.at - (Len(w) + 1)] = "mark"
    /\ p.at <= Len(w) => p.rows = BUFFER_ROWS - 1

LEMMA ShiftedHolds ==
    ASSUME NEW p \in PageRec, p.at \in Nat, NEW q, Sheet(q), Shifts(p, q),
           NEW A, NEW w \in Seq(A), Holds(p, w)
    PROVE  Holds(q, w)
  <1> DEFINE n == Len(w)
  <1>1. /\ q.at \in Nat /\ q.at < Size /\ Size \in Nat /\ n \in Nat /\ VGA_COLS \in Nat
        /\ q.rows \in 0 .. BUFFER_ROWS - 1 /\ p.rows \in Nat /\ BUFFER_ROWS \in Nat
    BY Sizes, Constants, PageTypes DEF Sheet, Indices
  <1>3. PICK e \in Nat : Moves(p, q, e) /\ (e = 0 => p.rows <= q.rows)
                           /\ (e # 0 => q.rows = BUFFER_ROWS - 1)
    <2>1. CASE Moves(p, q, 0) /\ p.rows <= q.rows
      BY <2>1
    <2>2. CASE Moves(p, q, VGA_COLS) /\ q.rows = BUFFER_ROWS - 1
      <3>1. VGA_COLS # 0
        BY Constants
      <3>2. QED
        BY <1>1, <2>2, <3>1
    <2>3. QED
      BY <2>1, <2>2 DEF Shifts
  <1>4. /\ q.at = p.at - e
        /\ \A j \in Indices : j < q.at => q.cells[j] = p.cells[j + e]
    BY <1>3 DEF Moves
  <1>5. ASSUME NEW i \in Nat, i # 0, i <= q.at
        PROVE  q.cells[q.at - i] = p.cells[p.at - i] /\ i <= p.at
    <2>1. PICK j \in Int : j = q.at - i
      BY <1>1
    <2>2. j \in Indices /\ j < q.at /\ j + e = p.at - i /\ i <= p.at
      BY <1>1, <1>4, <1>5, <2>1 DEF Indices
    <2>3. q.cells[j] = p.cells[j + e]
      BY <1>4, <2>2
    <2>4. QED
      BY <2>1, <2>2, <2>3
  <1> HIDE DEF n
  <1>6. ASSUME NEW i \in 1 .. n, i <= q.at PROVE q.cells[q.at - i] = w[(n - i) + 1]
    BY <1>1, <1>5, <1>6 DEF Holds, n
  <1>7. ASSUME n < q.at PROVE q.cells[q.at - (n + 1)] = "mark"
    <2>1. n + 1 \in Nat /\ n + 1 # 0 /\ n + 1 <= q.at /\ n < p.at
      BY <1>1, <1>4, <1>7
    <2>2. q.cells[q.at - (n + 1)] = p.cells[p.at - (n + 1)]
      BY <1>5, <2>1
    <2>3. QED
      BY <2>1, <2>2 DEF Holds, n
  <1>8. ASSUME q.at <= n PROVE q.rows = BUFFER_ROWS - 1
    <2>1. CASE e = 0
      <3>1. p.at <= n
        BY <1>1, <1>4, <1>8, <2>1
      <3>2. p.rows = BUFFER_ROWS - 1 /\ p.rows <= q.rows
        BY <1>3, <2>1, <3>1 DEF Holds, n
      <3>3. QED
        BY <1>1, <3>2
    <2>2. CASE e # 0
      BY <1>3, <2>2
    <2>3. QED
      BY <2>1, <2>2
  <1>9. QED
    BY <1>6, <1>7, <1>8 DEF Holds, n

LEMMA PutHolds ==
    ASSUME NEW p, Sheet(p), NEW A, NEW w \in Seq(A), Holds(p, w), NEW c \in Cells \cap A
    PROVE  Holds(PagePut(p, c), Append(w, c))
  <1> DEFINE f == Filled(p, c)
             n == Len(w)
             x == Append(w, c)
  <1>1. /\ f \in PageRec /\ f.at = p.at + 1 /\ p.at \in Nat /\ p.at < Size /\ Size \in Nat
        /\ f.rows = p.rows /\ f.cells[p.at] = c
        /\ \A j \in Indices : j # p.at => f.cells[j] = p.cells[j]
    BY FilledFacts, Sizes
  <1>2. Sheet(PagePut(p, c)) /\ Shifts(f, PagePut(p, c))
    BY PutOnPage
  <1>3. /\ n \in Nat /\ x \in Seq(A) /\ Len(x) = n + 1 /\ x[n + 1] = c
        /\ \A i \in 1 .. n : x[i] = w[i]
    OBVIOUS
  <1> HIDE DEF f, n, x
  <1>4. ASSUME NEW i \in 1 .. n + 1, i <= f.at PROVE f.cells[f.at - i] = x[(n + 1 - i) + 1]
    <2>1. CASE i = 1
      <3>1. f.at - i = p.at /\ (n + 1 - i) + 1 = n + 1
        BY <1>1, <1>3, <2>1
      <3>2. QED
        BY <1>1, <1>3, <3>1
    <2>2. CASE i # 1
      <3>1. PICK k \in 1 .. n : k = i - 1
        BY <1>3, <2>2
      <3>2. PICK j \in Int : j = p.at - k
        BY <1>1
      <3>3. j \in Indices /\ j # p.at /\ f.at - i = j /\ k <= p.at
        BY <1>1, <1>3, <1>4, <3>1, <3>2 DEF Indices
      <3>4. p.cells[p.at - k] = w[(n - k) + 1]
        BY <3>3 DEF Holds, n
      <3>5. PICK m \in 1 .. n : m = (n - k) + 1 /\ m = (n + 1 - i) + 1
        BY <1>3, <3>1
      <3>6. QED
        BY <1>1, <1>3, <3>2, <3>3, <3>4, <3>5
    <2>3. QED
      BY <2>1, <2>2
  <1>5. ASSUME n + 1 < f.at PROVE f.cells[f.at - (n + 1 + 1)] = "mark"
    <2>1. PICK j \in Int : j = p.at - (n + 1)
      BY <1>1, <1>3
    <2>2. j \in Indices /\ j # p.at /\ f.at - (n + 1 + 1) = j /\ n < p.at
      BY <1>1, <1>3, <1>5, <2>1 DEF Indices
    <2>3. p.cells[j] = "mark"
      BY <2>1, <2>2 DEF Holds, n
    <2>4. QED
      BY <1>1, <2>2, <2>3
  <1>6. ASSUME f.at <= n + 1 PROVE f.rows = BUFFER_ROWS - 1
    <2>1. p.at <= n
      BY <1>1, <1>3, <1>6
    <2>2. QED
      BY <1>1, <2>1 DEF Holds, n
  <1>7. Holds(f, x)
    BY <1>3, <1>4, <1>5, <1>6 DEF Holds
  <1>8. f.at \in Nat
    BY <1>1
  <1>9. QED
    BY <1>1, <1>2, <1>3, <1>7, <1>8, ShiftedHolds DEF x

\* A mark that has just been printed is in front of the cursor.
LEMMA MarkHolds ==
    ASSUME NEW p, Sheet(p)
    PROVE  Holds(PagePut(p, "mark"), <<>>)
  <1> DEFINE f == Filled(p, "mark")
  <1>1. "mark" \in Cells
    BY Constants
  <1>2. /\ f \in PageRec /\ f.at = p.at + 1 /\ p.at \in Nat /\ f.cells[p.at] = "mark"
    BY <1>1, FilledFacts
  <1>3. Sheet(PagePut(p, "mark")) /\ Shifts(f, PagePut(p, "mark"))
    BY <1>1, PutOnPage
  <1> HIDE DEF f
  <1>4. Len(<<>>) = 0 /\ <<>> \in Seq(Cells)
    OBVIOUS
  <1>5. f.at - (0 + 1) = p.at /\ ~ (f.at <= 0) /\ f.at \in Nat
    BY <1>2
  <1>6. Holds(f, <<>>)
    BY <1>2, <1>4, <1>5 DEF Holds
  <1>7. QED
    BY <1>2, <1>3, <1>4, <1>5, <1>6, ShiftedHolds

\* Backspace erases a character that was typed, and nothing else.
LEMMA ErasedHolds ==
    ASSUME NEW p, Sheet(p), p.at # 0, p.cells[p.at - 1] # "mark",
           NEW A, NEW w \in Seq(A), Holds(p, w)
    PROVE  w # <<>> /\ Holds(PageErased(p), Front(w))
  <1> DEFINE q == PageErased(p)
             n == Len(w)
             x == Front(w)
  <1>1. /\ p.at \in Nat \ {0} /\ q.at = p.at - 1 /\ p.at < Size /\ Size \in Nat
        /\ \A j \in Indices : j < p.at - 1 => q.cells[j] = p.cells[j]
        /\ p.rows = BUFFER_ROWS - 1 => q.rows = BUFFER_ROWS - 1
    BY ErasedFacts, Sizes DEF Sheet, Indices
  <1>2. n \in Nat
    OBVIOUS
  <1>3. n # 0
    <2> SUFFICES ASSUME n = 0 PROVE FALSE
      OBVIOUS
    <2>1. Len(w) < p.at /\ Len(w) + 1 = 1
      BY <1>1
    <2>2. QED
      BY <2>1 DEF Holds
  <1>4. Len(x) = n - 1 /\ \A i \in 1 .. n - 1 : x[i] = w[i]
    <2>1. PICK m \in Nat : m = n - 1 /\ m <= n
      <3> HIDE DEF n
      <3>1. n - 1 \in Nat /\ n - 1 <= n
        BY <1>2, <1>3
      <3>2. QED
        BY <3>1
    <2>2. x = SubSeq(w, 1, m) /\ 1 \in 1 .. m + 1 /\ m \in 0 .. n
      BY <2>1 DEF Front
    <2>3. Len(x) = m /\ \A i \in 1 .. m : x[i] = w[i]
      BY <2>1, <2>2
    <2>4. QED
      BY <2>1, <2>3
  <1> HIDE DEF q, n, x
  <1>5. ASSUME NEW i \in 1 .. n - 1, i <= q.at PROVE q.cells[q.at - i] = x[(n - 1 - i) + 1]
    <2>1. PICK k \in 1 .. n : k = i + 1
      BY <1>2
    <2>2. PICK j \in Int : j = p.at - k
      BY <1>1
    <2>3. j \in Indices /\ j < p.at - 1 /\ q.at - i = j /\ k <= p.at
      BY <1>1, <1>2, <1>5, <2>1, <2>2 DEF Indices
    <2>4. p.cells[p.at - k] = w[(n - k) + 1]
      BY <2>3 DEF Holds, n
    <2>5. PICK m \in 1 .. n - 1 : m = (n - k) + 1 /\ m = (n - 1 - i) + 1
      BY <1>2, <2>1
    <2>6. QED
      BY <1>1, <1>4, <2>2, <2>3, <2>4, <2>5
  <1>6. ASSUME n - 1 < q.at PROVE q.cells[q.at - (n - 1 + 1)] = "mark"
    <2>1. PICK j \in Int : j = p.at - (n + 1)
      BY <1>1, <1>2
    <2>2. j \in Indices /\ j < p.at - 1 /\ q.at - (n - 1 + 1) = j /\ n < p.at
      BY <1>1, <1>2, <1>3, <1>6, <2>1 DEF Indices
    <2>3. p.cells[j] = "mark"
      BY <2>1, <2>2 DEF Holds, n
    <2>4. QED
      BY <1>1, <2>2, <2>3
  <1>7. ASSUME q.at <= n - 1 PROVE q.rows = BUFFER_ROWS - 1
    <2>1. p.at <= n
      BY <1>1, <1>2, <1>7
    <2>2. QED
      BY <1>1, <2>1 DEF Holds, n
  <1>8. Holds(q, x)
    BY <1>4, <1>5, <1>6, <1>7 DEF Holds
  <1>9. w # <<>>
    BY <1>3 DEF n
  <1>10. QED
    BY <1>8, <1>9 DEF q, x

LEMMA TabHolds ==
    ASSUME NEW p, Sheet(p), p.at # 0 \/ p.rows # BUFFER_ROWS - 1,
           NEW A, NEW w \in Seq(A), Holds(p, w)
    PROVE  Holds(PageTab(p), w)
  <1>1. p \in PageRec /\ p.at \in Nat
    BY Sizes DEF Sheet, Indices
  <1>2. QED
    BY <1>1, TabOnPage, ShiftedHolds

----------------------------------------------------------------------------
(* Printing a string, one character after the other *)

Printable == Cells \cup {"newline"}
PrintOne(t, c) == IF c = "newline" THEN vga_newline(t) ELSE vga_putchar(t, c)

\* Any set of globals that a character does not lead out of is not left while
\* a string is printed.
LEMMA PrintSteps ==
    ASSUME NEW V, NEW t \in V, NEW script \in Seq(Printable),
           \A u \in V : \A c \in Printable : PrintOne(u, c) \in V
    PROVE  \E pre \in [0 .. Len(script) -> V] :
             /\ vga_puts(t, script) = pre[Len(script)] /\ pre[0] = t
             /\ \A k \in 0 .. Len(script) - 1 :
                  pre[k + 1] = PrintOne(pre[k], script[k + 1])
  <1> DEFINE n == Len(script)
             step == [u \in V |-> [i \in 1 .. n |-> PrintOne(u, script[i])]]
             IsPrinting(f) ==
               f = [s \in SUBSET DOMAIN script |->
                      IF s = {} THEN t ELSE PrintOne(f[s \ {Max(s)}], script[Max(s)])]
  <1>1. n \in Nat /\ DOMAIN script = 1 .. n
        /\ \A i \in 1 .. n : script[i] \in Printable
    OBVIOUS
  <1>2. step \in [V -> [1 .. n -> V]]
    BY <1>1
  <1>3. \A u \in V : \A i \in 1 .. n : step[u][i] = PrintOne(u, script[i])
    OBVIOUS
  <1> HIDE DEF step
  <1>4. PICK fold : IsFold(fold, n, V, t, step)
    BY <1>1, <1>2, FoldExists
  <1>5. IsPrinting(fold)
    <2>1. fold \in [SUBSET (1 .. n) -> V]
      BY <1>4 DEF IsFold
    <2>2. ASSUME NEW s \in SUBSET (1 .. n)
          PROVE  fold[s] = IF s = {} THEN t
                           ELSE PrintOne(fold[s \ {Max(s)}], script[Max(s)])
      <3>1. CASE s = {}
        BY <1>4, <3>1 DEF IsFold
      <3>2. CASE s # {}
        <4>1. fold[s] = step[fold[s \ {Max(s)}]][Max(s)]
          BY <1>4, <3>2 DEF IsFold
        <4>2. Max(s) \in 1 .. n
          <5>1. s \in SUBSET Nat /\ \A m \in s : m <= n
            BY <1>1
          <5>2. Max(s) \in s
            BY <1>1, <3>2, <5>1, MaxOfNats
          <5>3. QED
            BY <5>2
        <4>3. fold[s \ {Max(s)}] \in V
          <5>1. s \ {Max(s)} \in SUBSET (1 .. n)
            OBVIOUS
          <5>2. QED
            BY <2>1, <5>1, Zenon
        <4>4. QED
          BY <1>3, <3>2, <4>1, <4>2, <4>3
      <3>3. QED
        BY <3>1, <3>2
    <2>3. fold = [s \in SUBSET (1 .. n) |->
                    IF s = {} THEN t ELSE PrintOne(fold[s \ {Max(s)}], script[Max(s)])]
      <3>1. fold = [s \in SUBSET (1 .. n) |-> fold[s]]
        BY <2>1
      <3>2. QED
        BY <2>2, <3>1, Zenon
    <2>4. QED
      BY <1>1, <2>3
  <1> DEFINE g == CHOOSE f : IsPrinting(f)
  <1>6. IsPrinting(g)
    BY <1>5
  <1>7. vga_puts(t, script) = g[DOMAIN script]
    BY DEF vga_puts, FoldLeft, MapThenFoldSet, PrintOne
  <1> DEFINE pre == [k \in 0 .. n |-> g[1 .. k]]
  <1> HIDE DEF g
  <1>8. \A s \in SUBSET (1 .. n) :
          g[s] = IF s = {} THEN t ELSE PrintOne(g[s \ {Max(s)}], script[Max(s)])
    BY <1>1, <1>6, Zenon
  <1>9. pre[0] = t
    <2>1. 1 .. 0 = {} /\ {} \in SUBSET (1 .. n) /\ 0 \in 0 .. n
      BY <1>1
    <2>2. g[{}] = t
      BY <1>8, <2>1
    <2>3. QED
      BY <2>1, <2>2
  <1>10. ASSUME NEW k \in 0 .. n - 1 PROVE pre[k + 1] = PrintOne(pre[k], script[k + 1])
    <2>1. PICK m \in Nat : m = k + 1 /\ m # 0 /\ m <= n
      BY <1>1
    <2>2. Max(1 .. m) = m /\ (1 .. m) \ {Max(1 .. m)} = 1 .. m - 1
      BY <2>1, MaxOfInterval
    <2>3. 1 .. m \in SUBSET (1 .. n) /\ 1 .. m # {}
      <3>1. n \in Nat
        BY <1>1
      <3>2. 1 \in 1 .. m /\ \A x \in 1 .. m : x \in 1 .. n
        BY <2>1, <3>1
      <3>3. QED
        BY <3>2
    <2>4. g[1 .. m] = PrintOne(g[1 .. m - 1], script[m])
      <3>1. g[1 .. m] = PrintOne(g[(1 .. m) \ {Max(1 .. m)}], script[Max(1 .. m)])
        BY <1>8, <2>3, Zenon
      <3>2. QED
        BY <2>2, <3>1, Zenon
    <2>5. m - 1 = k /\ k \in 0 .. n /\ k + 1 \in 0 .. n
      BY <1>1, <2>1
    <2>6. QED
      BY <2>1, <2>4, <2>5
  <1>11. pre \in [0 .. n -> V]
    <2> DEFINE S == {k \in Nat : k <= n => pre[k] \in V}
    <2>1. 0 \in S
      BY <1>9
    <2>2. ASSUME NEW k \in Nat, k \in S PROVE k + 1 \in S
      <3> SUFFICES ASSUME k + 1 <= n PROVE pre[k + 1] \in V
        OBVIOUS
      <3>1. k \in 0 .. n - 1 /\ pre[k] \in V /\ script[k + 1] \in Printable
        BY <1>1, <2>2
      <3>2. pre[k + 1] = PrintOne(pre[k], script[k + 1])
        BY <1>10, <3>1
      <3>3. QED
        BY <3>1, <3>2
    <2> HIDE DEF S
    <2>3. \A k \in Nat : k \in S
      BY <2>1, <2>2, SetInduction
    <2>4. \A k \in 0 .. n : pre[k] \in V
      <3>1. \A k \in 0 .. n : k \in Nat /\ k <= n
        BY <1>1
      <3>2. \A k \in Nat : k \in S => (k <= n => pre[k] \in V)
        BY DEF S
      <3>3. QED
        BY <2>3, <3>1, <3>2, Zenon
    <2>5. pre = [k \in 0 .. n |-> pre[k]]
      OBVIOUS
    <2> HIDE DEF pre
    <2>6. QED
      BY <2>4, <2>5, Zenon
  <1>12. vga_puts(t, script) = pre[n]
    BY <1>1, <1>7
  <1> HIDE DEF pre
  <1>13. QED
    BY <1>9, <1>10, <1>11, <1>12

LEMMA Printables ==
    /\ Banner \in Seq(Printable) /\ <<"newline">> \o Descriptors \in Seq(Printable)
    /\ Prompt \in Seq(Printable) /\ Len(Prompt) \in Nat \ {0}
    /\ Prompt[Len(Prompt)] = "mark"
    /\ \A deed \in {"gdt", "print-stack"} :
         <<"newline">> \o Answers[deed] \in Seq(Printable)
    /\ \A c \in Printable : c # "newline" => c \in Cells
  BY Kfs2Assumption DEF Printable

\* Printing concerns the screen in front, and counts no row that the cursor
\* does not enter.
Beside(t, u) ==
    /\ u.active_screen = t.active_screen
    /\ \A s \in Screens \ {t.active_screen} : Page(u, s) = Page(t, s)

LEMMA PrintOneFacts ==
    ASSUME NEW t, Sheets(t), NEW c \in Printable
    PROVE  LET u == PrintOne(t, c)
           IN  /\ Sheets(u) /\ (Good(t) => Good(u)) /\ Beside(t, u)
               /\ FrontPage(u) = IF c = "newline" THEN PageLine(FrontPage(t))
                                 ELSE PagePut(FrontPage(t), c)
               /\ Ahead(FrontPage(u)) = Ahead(FrontPage(t))
  <1>1. Sheet(FrontPage(t))
    BY SheetsFront
  <1>2. CASE c = "newline"
    <2>1. Turns(t, vga_newline(t), PageLine(FrontPage(t))) /\ Good(vga_newline(t))
      BY NewLineFacts
    <2>2. QED
      BY <1>1, <1>2, <2>1, LineOnPage DEF PrintOne, Turns, Beside, Good
  <1>3. CASE c # "newline"
    <2>1. c \in Cells
      BY <1>3, Printables
    <2>2. /\ Turns(t, vga_putchar(t, c), PagePut(FrontPage(t), c)) /\ Sheets(vga_putchar(t, c))
          /\ Good(t) => Good(vga_putchar(t, c))
      BY <2>1, PrintCharFacts
    <2>3. QED
      BY <1>1, <1>3, <2>1, <2>2, PutOnPage DEF PrintOne, Turns, Beside
  <1>4. QED
    BY <1>2, <1>3

LEMMA PrintStrFacts ==
    ASSUME NEW t, Sheets(t), NEW script \in Seq(Printable)
    PROVE  LET u == vga_puts(t, script)
           IN  /\ Sheets(u) /\ (Good(t) => Good(u)) /\ Beside(t, u)
               /\ Ahead(FrontPage(u)) = Ahead(FrontPage(t))
  <1> DEFINE V == {u \in TTY : /\ Sheets(u) /\ (Good(t) => Good(u)) /\ Beside(t, u)
                               /\ Ahead(FrontPage(u)) = Ahead(FrontPage(t))}
  <1>1. t \in V
    BY DEF Beside, Sheets
  <1>2. \A u \in V : \A c \in Printable : PrintOne(u, c) \in V
    <2> SUFFICES ASSUME NEW u \in V, NEW c \in Printable PROVE PrintOne(u, c) \in V
      OBVIOUS
    <2>1. /\ Sheets(u) /\ (Good(t) => Good(u)) /\ Beside(t, u)
          /\ Ahead(FrontPage(u)) = Ahead(FrontPage(t))
      OBVIOUS
    <2> DEFINE w == PrintOne(u, c)
    <2>2. /\ Sheets(w) /\ (Good(u) => Good(w)) /\ Beside(u, w)
          /\ Ahead(FrontPage(w)) = Ahead(FrontPage(u))
      BY <2>1, PrintOneFacts
    <2> HIDE DEF w
    <2>3. w \in TTY /\ Beside(t, w)
      BY <2>1, <2>2 DEF Beside, Sheets
    <2>4. QED
      BY <2>1, <2>2, <2>3 DEF w
  <1>3. PICK pre \in [0 .. Len(script) -> V] : vga_puts(t, script) = pre[Len(script)]
    <2> HIDE DEF V
    <2>1. QED
      BY <1>1, <1>2, PrintSteps
  <1>4. pre[Len(script)] \in V
    <2>1. Len(script) \in 0 .. Len(script)
      OBVIOUS
    <2>2. QED
      BY <1>3, <2>1
  <1>5. QED
    BY <1>3, <1>4

\* Behind a prompt nothing is typed yet.
LEMMA PromptFacts ==
    ASSUME NEW t, Sheets(t)
    PROVE  LET u == shell_prompt(t)
           IN  /\ Sheets(u) /\ (Good(t) => Good(u)) /\ Beside(t, u)
               /\ Ahead(FrontPage(u)) = Ahead(FrontPage(t))
               /\ Holds(FrontPage(u), <<>>)
  <1> DEFINE V == {u \in TTY : Sheets(u)}
             n == Len(Prompt)
  <1>1. /\ Prompt \in Seq(Printable) /\ n \in Nat \ {0} /\ Prompt[n] = "mark"
        /\ "mark" \in Cells /\ "mark" # "newline" /\ "mark" \in Printable
    BY Printables, Constants DEF Printable
  <1>2. t \in V
    BY DEF Sheets
  <1>3. \A u \in V : \A c \in Printable : PrintOne(u, c) \in V
    BY PrintOneFacts DEF Sheets
  <1> HIDE DEF V, n
  <1>4. PICK pre \in [0 .. n -> V] :
          /\ vga_puts(t, Prompt) = pre[n]
          /\ \A k \in 0 .. n - 1 : pre[k + 1] = PrintOne(pre[k], Prompt[k + 1])
    <2>1. Prompt \in Seq(Printable)
      BY <1>1
    <2>2. \E pre \in [0 .. Len(Prompt) -> V] :
            /\ vga_puts(t, Prompt) = pre[Len(Prompt)] /\ pre[0] = t
            /\ \A k \in 0 .. Len(Prompt) - 1 :
                 pre[k + 1] = PrintOne(pre[k], Prompt[k + 1])
      BY <1>2, <1>3, <2>1, PrintSteps
    <2>3. QED
      BY <2>2, Zenon DEF n
  <1>5. PICK k \in 0 .. n - 1 : k + 1 = n
    <2>1. n - 1 \in 0 .. n - 1 /\ (n - 1) + 1 = n
      BY <1>1
    <2>2. QED
      BY <2>1
  <1>6. Sheets(pre[k]) /\ pre[n] = PrintOne(pre[k], "mark")
    <2>1. k \in 0 .. n
      BY <1>1, <1>5
    <2>2. QED
      BY <1>1, <1>4, <1>5, <2>1 DEF V
  <1>7. /\ FrontPage(PrintOne(pre[k], "mark")) = PagePut(FrontPage(pre[k]), "mark")
        /\ Sheet(FrontPage(pre[k]))
    BY <1>1, <1>6, PrintOneFacts, SheetsFront
  <1>8. Holds(FrontPage(vga_puts(t, Prompt)), <<>>)
    BY <1>4, <1>6, <1>7, MarkHolds
  <1>9. QED
    BY <1>1, <1>8, PrintStrFacts DEF shell_prompt

----------------------------------------------------------------------------
(* How the kernel starts *)

Greet(t, s) == vga_puts(vga_clear(screen_switch(t, s)), Banner)
Asks(t, s) == shell_prompt(screen_switch(t, s))
Visit(kind, t, s) == IF kind = "greet" THEN Greet(t, s) ELSE Asks(t, s)

\* The screens are visited one after the other: kind is what a visit does, g
\* the fold that init_screens takes over all of them.
Visits(g, kind, t) ==
    \A m \in SUBSET (1 .. NUM_SCREENS) :
        g[m] = IF m = {} THEN t ELSE Visit(kind, g[m \ {Max(m)}], EachScreen[Max(m)])

LEMMA ScreenOrder ==
    /\ NUM_SCREENS \in Nat /\ DOMAIN EachScreen = 1 .. NUM_SCREENS
    /\ \A i \in 1 .. NUM_SCREENS : EachScreen[i] \in Screens
    /\ \A k \in 0 .. NUM_SCREENS - 1 : EachScreen[k + 1] = k /\ k \in Screens
  BY Constants DEF EachScreen

LEMMA VisitsExist ==
    ASSUME NEW V, NEW t \in V, NEW kind,
           \A u \in V : \A s \in Screens : Visit(kind, u, s) \in V
    PROVE  \E g \in [SUBSET (1 .. NUM_SCREENS) -> V] : Visits(g, kind, t)
  <1> DEFINE n == NUM_SCREENS
             step == [u \in V |-> [i \in 1 .. n |-> Visit(kind, u, EachScreen[i])]]
  <1>1. n \in Nat /\ \A i \in 1 .. n : EachScreen[i] \in Screens
    BY ScreenOrder
  <1>2. step \in [V -> [1 .. n -> V]]
    BY <1>1
  <1>3. \A u \in V : \A i \in 1 .. n : step[u][i] = Visit(kind, u, EachScreen[i])
    OBVIOUS
  <1> HIDE DEF step
  <1>4. PICK g : IsFold(g, n, V, t, step)
    BY <1>1, <1>2, FoldExists
  <1>5. g \in [SUBSET (1 .. n) -> V]
    BY <1>4 DEF IsFold
  <1>6. ASSUME NEW m \in SUBSET (1 .. n)
        PROVE  g[m] = IF m = {} THEN t ELSE Visit(kind, g[m \ {Max(m)}], EachScreen[Max(m)])
    <2>1. CASE m = {}
      BY <1>4, <2>1 DEF IsFold
    <2>2. CASE m # {}
      <3>1. g[m] = step[g[m \ {Max(m)}]][Max(m)]
        BY <1>4, <2>2 DEF IsFold
      <3>2. Max(m) \in 1 .. n
        <4>1. m \in SUBSET Nat /\ \A x \in m : x <= n
          BY <1>1
        <4>2. Max(m) \in m
          BY <1>1, <2>2, <4>1, MaxOfNats
        <4>3. QED
          BY <4>2
      <3>3. g[m \ {Max(m)}] \in V
        <4>1. m \ {Max(m)} \in SUBSET (1 .. n)
          OBVIOUS
        <4>2. QED
          BY <1>5, <4>1, Zenon
      <3>4. QED
        BY <1>3, <2>2, <3>1, <3>2, <3>3
    <2>3. QED
      BY <2>1, <2>2
  <1>7. Visits(g, kind, t)
    BY <1>6, Zenon DEF Visits
  <1>8. QED
    BY <1>5, <1>7

\* After k screens the fold is where k visits lead.
LEMMA VisitSteps ==
    ASSUME NEW V, NEW t \in V, NEW kind, NEW g, Visits(g, kind, t),
           \A u \in V : \A s \in Screens : Visit(kind, u, s) \in V
    PROVE  \E pre \in [0 .. NUM_SCREENS -> V] :
             /\ g[1 .. NUM_SCREENS] = pre[NUM_SCREENS] /\ pre[0] = t
             /\ \A k \in Screens : pre[k + 1] = Visit(kind, pre[k], k)
  <1> DEFINE n == NUM_SCREENS
             pre == [k \in 0 .. n |-> g[1 .. k]]
  <1>1. n \in Nat
    BY ScreenOrder
  <1>2. pre[0] = t
    <2>1. 1 .. 0 = {} /\ {} \in SUBSET (1 .. n) /\ 0 \in 0 .. n
      BY <1>1
    <2>2. g[{}] = t
      BY <2>1 DEF Visits
    <2>3. QED
      BY <2>1, <2>2
  <1>3. ASSUME NEW k \in 0 .. n - 1 PROVE pre[k + 1] = Visit(kind, pre[k], k)
    <2>1. PICK m \in Nat : m = k + 1 /\ m # 0 /\ m <= n
      BY <1>1
    <2>2. Max(1 .. m) = m /\ (1 .. m) \ {Max(1 .. m)} = 1 .. m - 1
      BY <2>1, MaxOfInterval
    <2>3. 1 .. m \in SUBSET (1 .. n) /\ 1 .. m # {}
      <3>1. 1 \in 1 .. m /\ \A x \in 1 .. m : x \in 1 .. n
        BY <1>1, <2>1
      <3>2. QED
        BY <3>1
    <2>4. g[1 .. m] = Visit(kind, g[1 .. m - 1], EachScreen[m])
      <3>1. g[1 .. m] = Visit(kind, g[(1 .. m) \ {Max(1 .. m)}], EachScreen[Max(1 .. m)])
        BY <2>3, Zenon DEF Visits
      <3>2. QED
        BY <2>2, <3>1, Zenon
    <2>5. m - 1 = k /\ k \in 0 .. n /\ k + 1 \in 0 .. n
      BY <1>1, <2>1
    <2>6. EachScreen[m] = k
      BY <2>1, ScreenOrder
    <2>7. QED
      BY <2>1, <2>4, <2>5, <2>6
  <1> HIDE DEF pre
  <1>4. ASSUME NEW k \in Nat PROVE k <= n => pre[k] \in V
    <2> DEFINE S == {j \in Nat : j <= n => pre[j] \in V}
    <2>1. 0 \in S
      BY <1>2
    <2>2. ASSUME NEW j \in Nat, j \in S PROVE j + 1 \in S
      <3> SUFFICES ASSUME j + 1 <= n PROVE pre[j + 1] \in V
        OBVIOUS
      <3>1. j \in 0 .. n - 1 /\ pre[j] \in V /\ j \in Screens
        BY <1>1, <2>2 DEF Screens
      <3>2. pre[j + 1] = Visit(kind, pre[j], j)
        BY <1>3, <3>1
      <3>3. QED
        BY <3>1, <3>2
    <2> HIDE DEF S
    <2>3. k \in S
      BY <2>1, <2>2, SetInduction
    <2>4. QED
      BY <2>3 DEF S
  <1>5. \A k \in 0 .. n : k \in Nat /\ k <= n /\ pre[k] \in V
    BY <1>1, <1>4
  <1>6. pre \in [0 .. n -> V] /\ g[1 .. n] = pre[n]
    <2>1. n \in 0 .. n
      BY <1>1
    <2>2. g[1 .. n] = pre[n]
      BY <2>1 DEF pre
    <2>3. pre \in [0 .. n -> V]
      BY <1>5 DEF pre
    <2>4. QED
      BY <2>2, <2>3
  <1>7. QED
    BY <1>2, <1>3, <1>6 DEF Screens

Greeted(t) == FoldLeft(LAMBDA u, s : vga_puts(vga_clear(screen_switch(u, s)), Banner),
                       t, EachScreen)
Asked(t) == FoldLeft(LAMBDA u, s : shell_prompt(screen_switch(u, s)), t, EachScreen)

LEMMA GreetedVisits ==
    ASSUME NEW V, NEW t \in V, \A u \in V : \A s \in Screens : Visit("greet", u, s) \in V
    PROVE  \E g : Visits(g, "greet", t) /\ Greeted(t) = g[1 .. NUM_SCREENS]
  <1> DEFINE IsGreeting(f) ==
               f = [m \in SUBSET DOMAIN EachScreen |->
                      IF m = {} THEN t ELSE Greet(f[m \ {Max(m)}], EachScreen[Max(m)])]
             g == CHOOSE f : IsGreeting(f)
  <1>1. PICK h \in [SUBSET (1 .. NUM_SCREENS) -> V] : Visits(h, "greet", t)
    BY VisitsExist
  <1>2. \A u, s : Visit("greet", u, s) = Greet(u, s)
    BY DEF Visit
  <1>3. IsGreeting(h)
    <2>1. h = [m \in SUBSET (1 .. NUM_SCREENS) |-> h[m]]
      BY <1>1
    <2>2. \A m \in SUBSET (1 .. NUM_SCREENS) :
            h[m] = IF m = {} THEN t ELSE Greet(h[m \ {Max(m)}], EachScreen[Max(m)])
      BY <1>1, <1>2 DEF Visits
    <2>3. h = [m \in SUBSET (1 .. NUM_SCREENS) |->
                 IF m = {} THEN t ELSE Greet(h[m \ {Max(m)}], EachScreen[Max(m)])]
      BY <2>1, <2>2, Zenon
    <2>4. QED
      BY <2>3, ScreenOrder
  <1>4. IsGreeting(g)
    BY <1>3
  <1>5. Greeted(t) = g[DOMAIN EachScreen]
    BY DEF Greeted, FoldLeft, MapThenFoldSet, Greet
  <1> HIDE DEF g
  <1>6. Visits(g, "greet", t)
    <2>1. \A m \in SUBSET (1 .. NUM_SCREENS) :
            g[m] = IF m = {} THEN t ELSE Greet(g[m \ {Max(m)}], EachScreen[Max(m)])
      BY <1>4, ScreenOrder, Zenon
    <2>2. QED
      BY <1>2, <2>1 DEF Visits
  <1>7. QED
    BY <1>5, <1>6, ScreenOrder

LEMMA AskedVisits ==
    ASSUME NEW V, NEW t \in V, \A u \in V : \A s \in Screens : Visit("ask", u, s) \in V
    PROVE  \E g : Visits(g, "ask", t) /\ Asked(t) = g[1 .. NUM_SCREENS]
  <1> DEFINE IsAsking(f) ==
               f = [m \in SUBSET DOMAIN EachScreen |->
                      IF m = {} THEN t ELSE Asks(f[m \ {Max(m)}], EachScreen[Max(m)])]
             g == CHOOSE f : IsAsking(f)
  <1>1. PICK h \in [SUBSET (1 .. NUM_SCREENS) -> V] : Visits(h, "ask", t)
    BY VisitsExist
  <1>2. \A u, s : Visit("ask", u, s) = Asks(u, s)
    BY DEF Visit
  <1>3. IsAsking(h)
    <2>1. h = [m \in SUBSET (1 .. NUM_SCREENS) |-> h[m]]
      BY <1>1
    <2>2. \A m \in SUBSET (1 .. NUM_SCREENS) :
            h[m] = IF m = {} THEN t ELSE Asks(h[m \ {Max(m)}], EachScreen[Max(m)])
      BY <1>1, <1>2 DEF Visits
    <2>3. h = [m \in SUBSET (1 .. NUM_SCREENS) |->
                 IF m = {} THEN t ELSE Asks(h[m \ {Max(m)}], EachScreen[Max(m)])]
      BY <2>1, <2>2, Zenon
    <2>4. QED
      BY <2>3, ScreenOrder
  <1>4. IsAsking(g)
    BY <1>3
  <1>5. Asked(t) = g[DOMAIN EachScreen]
    BY DEF Asked, FoldLeft, MapThenFoldSet, Asks
  <1> HIDE DEF g
  <1>6. Visits(g, "ask", t)
    <2>1. \A m \in SUBSET (1 .. NUM_SCREENS) :
            g[m] = IF m = {} THEN t ELSE Asks(g[m \ {Max(m)}], EachScreen[Max(m)])
      BY <1>4, ScreenOrder, Zenon
    <2>2. QED
      BY <1>2, <2>1 DEF Visits
  <1>7. QED
    BY <1>5, <1>6, ScreenOrder

\* One visit leaves the other screens as they are.
LEMMA GreetFacts ==
    ASSUME NEW t, Sheets(t), NEW s \in Screens
    PROVE  LET u == Greet(t, s)
           IN  /\ Sheets(u) /\ Ahead(Page(u, s)) = 0
               /\ \A q \in Screens \ {s} : Page(u, q) = Page(t, q)
               /\ (Page(t, s) = EmptyPage => Good(u))
  <1> DEFINE v == screen_switch(t, s)
             w == vga_clear(v)
             u == vga_puts(w, Banner)
  <1>1. /\ Good(v) /\ Sheets(v) /\ v.active_screen = s
        /\ \A q \in Screens : Page(v, q) = Page(t, q)
    BY SwitchFacts DEF Good
  <1> HIDE DEF v
  <1>2. /\ Sheets(w) /\ w.active_screen = s /\ FrontPage(w) = EmptyPage
        /\ \A q \in Screens \ {s} : Page(w, q) = Page(v, q)
        /\ FrontPage(v) = EmptyPage => Good(w)
    BY <1>1, ClearFacts DEF Turns
  <1> HIDE DEF w
  <1>3. /\ Sheets(u) /\ (Good(w) => Good(u)) /\ u.active_screen = s
        /\ \A q \in Screens \ {s} : Page(u, q) = Page(w, q)
        /\ Ahead(FrontPage(u)) = Ahead(FrontPage(w))
    <2>1. Banner \in Seq(Printable)
      BY Printables
    <2>2. QED
      BY <1>2, <2>1, PrintStrFacts DEF Beside
  <1> HIDE DEF u
  <1>4. FrontPage(v) = Page(t, s) /\ FrontPage(u) = Page(u, s)
    BY <1>1, <1>3 DEF FrontPage
  <1>5. QED
    BY <1>1, <1>2, <1>3, <1>4, EmptyFacts DEF Greet, u, w, v

LEMMA AskFacts ==
    ASSUME NEW t, Sheets(t), NEW s \in Screens
    PROVE  LET u == Asks(t, s)
           IN  /\ Sheets(u) /\ Good(u) /\ Ahead(Page(u, s)) = Ahead(Page(t, s))
               /\ \A q \in Screens \ {s} : Page(u, q) = Page(t, q)
               /\ Holds(Page(u, s), <<>>)
  <1> DEFINE v == screen_switch(t, s)
             u == shell_prompt(v)
  <1>1. /\ Good(v) /\ Sheets(v) /\ v.active_screen = s
        /\ \A q \in Screens : Page(v, q) = Page(t, q)
    BY SwitchFacts DEF Good
  <1> HIDE DEF v
  <1>2. /\ Sheets(u) /\ Good(u) /\ u.active_screen = s
        /\ \A q \in Screens \ {s} : Page(u, q) = Page(v, q)
        /\ Ahead(FrontPage(u)) = Ahead(FrontPage(v)) /\ Holds(FrontPage(u), <<>>)
    BY <1>1, PromptFacts DEF Beside
  <1> HIDE DEF u
  <1>3. FrontPage(v) = Page(t, s) /\ FrontPage(u) = Page(u, s)
    BY <1>1, <1>2 DEF FrontPage
  <1>4. QED
    BY <1>1, <1>2, <1>3 DEF Asks, u, v

LEMMA VisitStays ==
    ASSUME NEW kind, NEW u \in {v \in TTY : Sheets(v)}, NEW s \in Screens
    PROVE  Visit(kind, u, s) \in {v \in TTY : Sheets(v)}
  BY GreetFacts, AskFacts DEF Visit, Sheets

\* The banner is on every screen, and no screen has counted too many rows.
LEMMA GreetedFacts ==
    ASSUME NEW t, Good(t), \A s \in Screens : Page(t, s) = EmptyPage
    PROVE  LET u == Greeted(t)
           IN  Good(u) /\ \A s \in Screens : Ahead(Page(u, s)) = 0
  <1> DEFINE V == {v \in TTY : Sheets(v)}
             n == NUM_SCREENS
  <1>1. t \in V /\ \A v \in V : \A s \in Screens : Visit("greet", v, s) \in V
    BY VisitStays DEF Good, Sheets
  <1>2. PICK g : Visits(g, "greet", t) /\ Greeted(t) = g[1 .. n]
    <2> HIDE DEF V
    <2>1. QED
      BY <1>1, GreetedVisits
  <1>3. PICK pre \in [0 .. n -> V] :
          /\ g[1 .. n] = pre[n] /\ pre[0] = t
          /\ \A k \in Screens : pre[k + 1] = Visit("greet", pre[k], k)
    <2> HIDE DEF V
    <2>1. QED
      BY <1>1, <1>2, VisitSteps
  <1> DEFINE Along(u, k) == /\ Good(u)
                            /\ \A s \in Screens : IF s < k THEN Ahead(Page(u, s)) = 0
                                                  ELSE Page(u, s) = EmptyPage
             S == {k \in Nat : k <= n => Along(pre[k], k)}
  <1>4. n \in Nat /\ \A s \in Screens : s \in Nat /\ s < n
    BY Constants
  <1>5. 0 \in S
    BY <1>3, <1>4
  <1>6. ASSUME NEW k \in Nat, k \in S PROVE k + 1 \in S
    <2> SUFFICES ASSUME k + 1 <= n PROVE Along(pre[k + 1], k + 1)
      OBVIOUS
    <2>1. k \in Screens /\ Along(pre[k], k)
      BY <1>4, <1>6 DEF Screens
    <2> DEFINE u == Greet(pre[k], k)
    <2>2. pre[k + 1] = u
      BY <1>3, <2>1 DEF Visit
    <2>3. Sheets(pre[k]) /\ Page(pre[k], k) = EmptyPage
      BY <1>4, <2>1 DEF Good
    <2>4. /\ Good(u) /\ Ahead(Page(u, k)) = 0
          /\ \A q \in Screens \ {k} : Page(u, q) = Page(pre[k], q)
      BY <2>1, <2>3, GreetFacts
    <2> HIDE DEF u
    <2>5. ASSUME NEW s \in Screens
          PROVE IF s < k + 1 THEN Ahead(Page(u, s)) = 0 ELSE Page(u, s) = EmptyPage
      BY <1>4, <2>1, <2>4
    <2>6. QED
      BY <2>2, <2>4, <2>5
  <1>7. n \in S
    <2> HIDE DEF S
    <2>1. QED
      BY <1>4, <1>5, <1>6, SetInduction
  <1>8. QED
    BY <1>2, <1>3, <1>4, <1>7

\* In the end there is a prompt on every screen.
LEMMA AskedFacts ==
    ASSUME NEW t, Good(t), \A s \in Screens : Ahead(Page(t, s)) = 0
    PROVE  LET u == Asked(t)
           IN  /\ Good(u)
               /\ \A s \in Screens : Ahead(Page(u, s)) = 0 /\ Holds(Page(u, s), <<>>)
  <1> DEFINE V == {v \in TTY : Sheets(v)}
             n == NUM_SCREENS
  <1>1. t \in V /\ \A v \in V : \A s \in Screens : Visit("ask", v, s) \in V
    BY VisitStays DEF Good, Sheets
  <1>2. PICK g : Visits(g, "ask", t) /\ Asked(t) = g[1 .. n]
    <2> HIDE DEF V
    <2>1. QED
      BY <1>1, AskedVisits
  <1>3. PICK pre \in [0 .. n -> V] :
          /\ g[1 .. n] = pre[n] /\ pre[0] = t
          /\ \A k \in Screens : pre[k + 1] = Visit("ask", pre[k], k)
    <2> HIDE DEF V
    <2>1. QED
      BY <1>1, <1>2, VisitSteps
  <1> DEFINE Along(u, k) ==
               /\ Good(u)
               /\ \A s \in Screens : /\ Ahead(Page(u, s)) = 0
                                     /\ (s < k => Holds(Page(u, s), <<>>))
             S == {k \in Nat : k <= n => Along(pre[k], k)}
  <1>4. n \in Nat /\ \A s \in Screens : s \in Nat /\ s < n
    BY Constants
  <1>5. 0 \in S
    BY <1>3, <1>4
  <1>6. ASSUME NEW k \in Nat, k \in S PROVE k + 1 \in S
    <2> SUFFICES ASSUME k + 1 <= n PROVE Along(pre[k + 1], k + 1)
      OBVIOUS
    <2>1. k \in Screens /\ Along(pre[k], k)
      BY <1>4, <1>6 DEF Screens
    <2> DEFINE u == Asks(pre[k], k)
    <2>2. pre[k + 1] = u
      BY <1>3, <2>1 DEF Visit
    <2>3. Sheets(pre[k])
      BY <2>1 DEF Good
    <2>4. /\ Good(u) /\ Ahead(Page(u, k)) = Ahead(Page(pre[k], k)) /\ Holds(Page(u, k), <<>>)
          /\ \A q \in Screens \ {k} : Page(u, q) = Page(pre[k], q)
      BY <2>1, <2>3, AskFacts
    <2> HIDE DEF u
    <2>5. ASSUME NEW s \in Screens
          PROVE Ahead(Page(u, s)) = 0 /\ (s < k + 1 => Holds(Page(u, s), <<>>))
      BY <1>4, <2>1, <2>4
    <2>6. QED
      BY <2>2, <2>4, <2>5
  <1>7. n \in S
    <2> HIDE DEF S
    <2>1. QED
      BY <1>4, <1>5, <1>6, SetInduction
  <1>8. QED
    BY <1>2, <1>3, <1>4, <1>7

LEMMA LoadedFacts == Good(Loaded) /\ \A s \in Screens : Page(Loaded, s) = EmptyPage
  <1>1. Loaded \in TTY
    BY Constants, Sizes DEF Loaded, TTY, CellsOfAll, CellsShown
  <1>2. \A s \in Screens : Page(Loaded, s) = EmptyPage
    <2> SUFFICES ASSUME NEW s \in Screens PROVE Page(Loaded, s) = EmptyPage
      OBVIOUS
    <2>1. \A j \in Indices : Loaded.stock[s * Size + j] = "blank"
      BY CellOfScreen DEF Loaded, CellsOfAll
    <2>2. CursorIn(Loaded, s) = 0 /\ Loaded.row_count[s] = 0
      BY DEF CursorIn, Loaded
    <2>3. QED
      BY <2>1, <2>2 DEF Page, EmptyPage
  <1>3. Sheets(Loaded) /\ FrontPage(Loaded) = EmptyPage
    BY <1>1, <1>2, EmptyFacts, TTYTypes DEF Sheets, FrontPage
  <1>4. \A i \in CellsShown : View(Loaded)[i] = "blank"
    <2> SUFFICES ASSUME NEW i \in CellsShown PROVE View(Loaded)[i] = "blank"
      OBVIOUS
    <2>1. FirstShown(Loaded) * VGA_COLS + i \in Indices
          /\ View(Loaded)[i] = FrontPage(Loaded).cells[FirstShown(Loaded) * VGA_COLS + i]
      BY <1>3, SheetsFront, ViewFacts
    <2>2. QED
      BY <1>3, <2>1 DEF EmptyPage
  <1>5. Shown(Loaded)
    <2>1. Loaded.vga_buffer = [i \in CellsShown |-> "blank"]
      BY DEF Loaded, CellsShown
    <2>2. View(Loaded) \in [CellsShown -> Cells]
      BY <1>3, SheetsFront, ViewFacts
    <2>3. QED
      BY <1>4, <2>1, <2>2 DEF Shown
  <1>6. Follows(Loaded)
    BY DEF Follows, Loaded
  <1>7. QED
    BY <1>2, <1>3, <1>5, <1>6 DEF Good

LEMMA StartFacts ==
    /\ Good(init_screens) /\ init_screens.active_screen = 0
    /\ \A s \in Screens : /\ Ahead(Page(init_screens, s)) = 0
                          /\ Holds(Page(init_screens, s), <<>>)
  <1> DEFINE greeted == Greeted(Loaded)
             back == screen_switch(greeted, 0)
             described == vga_puts(back, <<"newline">> \o Descriptors)
             asked == Asked(described)
  <1>1. Good(greeted) /\ \A s \in Screens : Ahead(Page(greeted, s)) = 0
    BY LoadedFacts, GreetedFacts
  <1>2. init_screens = screen_switch(asked, 0)
    BY DEF init_screens, Greeted, Asked
  <1> HIDE DEF greeted
  <1>3. /\ Good(back) /\ \A s \in Screens : Ahead(Page(back, s)) = 0
        /\ back.active_screen \in Screens
    BY <1>1, Constants, SwitchFacts DEF Good
  <1> HIDE DEF back
  <1>4. /\ Good(described) /\ Beside(back, described)
        /\ Ahead(FrontPage(described)) = Ahead(FrontPage(back))
    <2>1. <<"newline">> \o Descriptors \in Seq(Printable)
      BY Printables
    <2>2. QED
      BY <1>3, <2>1, PrintStrFacts DEF Good
  <1> HIDE DEF described
  <1>5. \A s \in Screens : Ahead(Page(described, s)) = 0
    BY <1>3, <1>4 DEF Beside, FrontPage
  <1>6. /\ Good(asked)
        /\ \A s \in Screens : Ahead(Page(asked, s)) = 0 /\ Holds(Page(asked, s), <<>>)
    BY <1>4, <1>5, AskedFacts
  <1> HIDE DEF asked
  <1>7. QED
    BY <1>2, <1>6, Constants, SwitchFacts DEF Good

----------------------------------------------------------------------------
(* The actions *)

SamePages(t, u) == \A s \in Screens : Page(u, s) = Page(t, s)

LEMMA TurnsBeside ==
    ASSUME NEW t, NEW u, NEW p, Turns(t, u, p)
    PROVE  Beside(t, u) /\ FrontPage(u) = p
  BY DEF Turns, Beside

Kernels == {"running", "halted", "reset", "off", "astray"}

\* A screen holds what was typed behind its prompt, and has counted the rows that
\* its history says: once the cursor has underflowed it is counted as one that
\* the row counter is ahead, but the screens have not changed.
Standing(t, words, counts, s) ==
    /\ Holds(Page(t, s), words[s])
    /\ Ahead(Page(t, s)) = counts[s]

InOrder ==
    /\ Good(tty) /\ ctrl_pressed \in BOOLEAN /\ kernel \in Kernels
    /\ typed \in [Screens -> Seq(Letters)] /\ phantoms \in [Screens -> Nat]
    /\ ~spoiled
    /\ \A s \in Screens :
         \/ Standing(tty, typed, phantoms, s)
         \/ kernel = "astray" /\ phantoms[s] # 0 /\ Holds(Page(tty, s), typed[s])

\* While the kernel runs.
Running ==
    /\ kernel = "running"
    /\ Good(tty) /\ Sheets(tty) /\ tty \in TTY /\ front \in Screens
    /\ FrontPage(tty) = Page(tty, front) /\ front = tty.active_screen
    /\ ctrl_pressed \in BOOLEAN
    /\ typed \in [Screens -> Seq(Letters)] /\ phantoms \in [Screens -> Nat]
    /\ typed[front] \in Seq(Letters) /\ phantoms[front] \in Nat
    /\ ~spoiled
    /\ \A s \in Screens : Standing(tty, typed, phantoms, s)

LEMMA RunningFacts == InOrder /\ kernel = "running" => Running
  <1> SUFFICES ASSUME InOrder, kernel = "running" PROVE Running
    OBVIOUS
  <1>1. Good(tty) /\ Sheets(tty)
    BY DEF InOrder, Good
  <1>2. tty \in TTY /\ tty.active_screen \in Screens
    BY <1>1, SheetsFront
  <1>3. \A s \in Screens : Standing(tty, typed, phantoms, s)
    BY DEF InOrder
  <1>4. QED
    BY <1>1, <1>2, <1>3 DEF InOrder, Running, front, FrontPage

\* A step on the screen in front.
LEMMA FrontStep ==
    ASSUME Running, Good(tty'), Beside(tty, tty'), UNCHANGED <<ctrl_pressed, kernel>>, ~spoiled',
           NEW w \in Seq(Letters), typed' = [typed EXCEPT ![front] = w],
           NEW c \in Nat, phantoms' = [phantoms EXCEPT ![front] = c],
           Holds(FrontPage(tty'), w), Ahead(FrontPage(tty')) = c
    PROVE  InOrder' /\ Beside(tty, tty')
  <1>1. /\ typed' \in [Screens -> Seq(Letters)] /\ phantoms' \in [Screens -> Nat]
        /\ typed'[front] = w /\ phantoms'[front] = c
        /\ \A s \in Screens \ {front} : typed'[s] = typed[s] /\ phantoms'[s] = phantoms[s]
    BY DEF Running
  <1>2. ASSUME NEW s \in Screens PROVE Standing(tty', typed', phantoms', s)
    <2>1. CASE s = front
      <3>1. FrontPage(tty') = Page(tty', front)
        BY DEF Beside, front, FrontPage
      <3>2. QED
        BY <1>1, <2>1, <3>1 DEF Standing
    <2>2. CASE s # front
      <3>1. Page(tty', s) = Page(tty, s)
        BY <2>2 DEF Beside, front
      <3>2. Standing(tty, typed, phantoms, s)
        BY DEF Running
      <3>3. QED
        BY <1>1, <2>2, <3>1, <3>2 DEF Standing
    <2>3. QED
      BY <2>1, <2>2
  <1>3. QED
    BY <1>1, <1>2 DEF InOrder, Running, Kernels

\* A step that leaves the buffers of all screens as they are.
LEMMA QuietStep ==
    ASSUME Running, Good(tty'), SamePages(tty, tty'), UNCHANGED userVars,
           ctrl_pressed' \in BOOLEAN, kernel' \in Kernels
    PROVE  InOrder' /\ SamePages(tty, tty')
  BY DEF Running, InOrder, SamePages, userVars, Standing

LEMMA StillStep ==
    ASSUME Running, UNCHANGED tty, UNCHANGED userVars,
           ctrl_pressed' \in BOOLEAN, kernel' \in Kernels
    PROVE  InOrder' /\ SamePages(tty, tty')
  BY QuietStep DEF Running, SamePages

LEMMA LetterStep ==
    ASSUME Running, NEW c \in Letters, TypeLetter(c)
    PROVE  InOrder' /\ Beside(tty, tty')
  <1> DEFINE w == Append(typed[front], c)
             p == FrontPage(tty)
  <1>1. /\ tty' = vga_putchar(tty, c) /\ typed' = [typed EXCEPT ![front] = w]
        /\ UNCHANGED <<ctrl_pressed, kernel, phantoms>> /\ ~spoiled'
    BY DEF TypeLetter, Running
  <1>2. c \in Cells /\ c \in Letters /\ w \in Seq(Letters) /\ typed[front] \in Seq(Letters)
    BY Constants DEF Running
  <1>3. Turns(tty, tty', PagePut(p, c)) /\ Good(tty')
    BY <1>1, <1>2, PrintCharFacts DEF Running
  <1>4. Sheet(p) /\ Holds(p, typed[front]) /\ Ahead(p) = phantoms[front]
    BY SheetsFront DEF Running, Standing
  <1>5. Holds(PagePut(p, c), w) /\ Ahead(PagePut(p, c)) = phantoms[front]
    BY <1>2, <1>4, PutHolds, PutOnPage
  <1>6. Beside(tty, tty') /\ FrontPage(tty') = PagePut(p, c)
    BY <1>3, TurnsBeside
  <1>7. phantoms' = [phantoms EXCEPT ![front] = phantoms[front]] /\ phantoms[front] \in Nat
    BY <1>1 DEF Running
  <1> HIDE DEF w, p
  <1>8. QED
    BY <1>1, <1>2, <1>3, <1>5, <1>6, <1>7, FrontStep

LEMMA ControlStep ==
    ASSUME Running, TypeControl
    PROVE  InOrder' /\ Beside(tty, tty')
  <1> DEFINE p == FrontPage(tty)
             c == phantoms[front] + (IF p.at % VGA_COLS = 0 THEN 1 ELSE 0)
  <1>1. /\ tty' = vga_putchar(tty, "tab")
        /\ UNCHANGED <<ctrl_pressed, kernel, typed>> /\ ~spoiled'
    BY DEF TypeControl, Running
  <1>2. /\ Sheet(p) /\ Holds(p, typed[front]) /\ Ahead(p) = phantoms[front]
        /\ p.at = tty.cursor_pos /\ p.rows = Rows(tty)
    BY SheetsFront DEF Running, Standing
  <1>3. tty.cursor_pos # 0 \/ Rows(tty) # BUFFER_ROWS - 1
    <2>1. tty.cursor_pos > 0 \/ Rows(tty) < BUFFER_ROWS - 1
      BY DEF TypeControl
    <2>2. tty.cursor_pos \in Nat /\ Rows(tty) \in Nat /\ BUFFER_ROWS \in Nat
      BY SheetsFront, TTYTypes, Constants DEF Running
    <2>3. QED
      BY <2>1, <2>2
  <1>4. Turns(tty, tty', PageTab(p)) /\ Good(tty')
    BY <1>1, <1>3, PrintTabFacts DEF Running
  <1>5. Beside(tty, tty') /\ FrontPage(tty') = PageTab(p)
    BY <1>4, TurnsBeside
  <1>6. Holds(PageTab(p), typed[front]) /\ Ahead(PageTab(p)) = c
    BY <1>2, <1>3, TabHolds, TabOnPage DEF Running
  <1>7. phantoms' = [phantoms EXCEPT ![front] = c] /\ c \in Nat
    <2>1. phantoms' = [phantoms EXCEPT ![front] =
                         IF tty.cursor_pos % VGA_COLS = 0
                         THEN phantoms[front] + 1 ELSE phantoms[front]]
      BY DEF TypeControl, Phantom, Running
    <2>2. c \in Nat /\ c = IF tty.cursor_pos % VGA_COLS = 0
                           THEN phantoms[front] + 1 ELSE phantoms[front]
      BY <1>2 DEF Running
    <2>3. QED
      BY <2>1, <2>2
  <1>8. typed' = [typed EXCEPT ![front] = typed[front]] /\ typed[front] \in Seq(Letters)
    BY <1>1 DEF Running
  <1> HIDE DEF p, c
  <1>9. QED
    BY <1>1, <1>4, <1>5, <1>6, <1>7, <1>8, FrontStep

LEMMA UnderflowStep ==
    ASSUME Running, CursorUnderflows
    PROVE  InOrder' /\ SamePages(tty, tty')
  <1>1. /\ UNCHANGED <<tty, ctrl_pressed, typed, spoiled>> /\ kernel' = "astray"
        /\ phantoms' = [phantoms EXCEPT ![front] = phantoms[front] + 1]
    BY DEF CursorUnderflows, Phantom, Running
  <1>2. /\ phantoms' \in [Screens -> Nat] /\ phantoms'[front] # 0
        /\ \A s \in Screens \ {front} : phantoms'[s] = phantoms[s]
    <2>1. phantoms[front] + 1 \in Nat /\ phantoms[front] + 1 # 0
      BY DEF Running
    <2>2. QED
      BY <1>1, <2>1 DEF Running
  <1>3. ASSUME NEW s \in Screens
        PROVE  Standing(tty', typed', phantoms', s)
               \/ (kernel' = "astray" /\ phantoms'[s] # 0 /\ Holds(Page(tty', s), typed'[s]))
    <2>1. Standing(tty, typed, phantoms, s)
      BY DEF Running
    <2>2. QED
      BY <1>1, <1>2, <2>1 DEF Standing
  <1>4. QED
    BY <1>1, <1>2, <1>3 DEF InOrder, Running, Kernels, SamePages

\* Backspace deletes up to the mark of the prompt, and that stands in front of
\* what was typed.
LEMMA BackspaceStep ==
    ASSUME Running, Backspace
    PROVE  InOrder' /\ Beside(tty, tty')
  <1> DEFINE p == FrontPage(tty)
             w == typed[front]
             counts == p.at % VGA_COLS = 0 /\ p.rows = BUFFER_ROWS - 1
             c == phantoms[front] + (IF counts THEN 1 ELSE 0)
  <1>1. /\ Sheet(p) /\ Holds(p, w) /\ Ahead(p) = phantoms[front] /\ w \in Seq(Letters)
        /\ p.at = tty.cursor_pos /\ p.rows = Rows(tty) /\ tty.cursor_pos \in Indices
        /\ tty.cursor_pos \in Nat
    BY SheetsFront DEF Running, Standing
  <1>2. tty' = vga_delete_char(tty) /\ UNCHANGED <<ctrl_pressed, kernel>>
    BY DEF Backspace
  <1>3. CASE DeleteStops(tty)
    <2>1. /\ tty' = tty /\ typed' = [typed EXCEPT ![front] = w] /\ ~spoiled'
          /\ phantoms' = [phantoms EXCEPT ![front] = phantoms[front]]
      <3>1. tty' = tty
        BY <1>2, <1>3 DEF vga_delete_char
      <3>2. ~spoiled'
        BY <1>3, Zenon DEF Backspace, Running
      <3>3. typed' = [typed EXCEPT ![front] = w]
        BY <1>3 DEF Backspace
      <3>4. phantoms' = [phantoms EXCEPT ![front] = phantoms[front]]
        BY <1>3 DEF Backspace, Phantom
      <3>5. QED
        BY <3>1, <3>2, <3>3, <3>4
    <2>2. Beside(tty, tty') /\ Good(tty') /\ FrontPage(tty') = p
      BY <2>1 DEF Beside, Running
    <2>3. phantoms[front] \in Nat
      BY DEF Running
    <2> HIDE DEF p, w
    <2>4. QED
      BY <1>1, <1>2, <2>1, <2>2, <2>3, FrontStep
  <1>4. CASE ~ DeleteStops(tty)
    <2>1. tty.cursor_pos # 0 /\ Cell(tty, tty.cursor_pos - 1) # "mark"
      BY <1>4 DEF DeleteStops
    <2>2. p.at # 0 /\ p.cells[p.at - 1] # "mark"
      <3>0. tty.cursor_pos - 1 \in Indices
        <4>1. Size \in Nat
          BY Sizes
        <4>2. QED
          BY <1>1, <2>1, <4>1 DEF Indices
      <3>1. PICK j \in Indices : j = tty.cursor_pos - 1
        BY <3>0, Zenon
      <3>2. p.cells[j] = tty.stock[front * Size + j]
        BY <3>1, PageFields DEF Running
      <3>3. QED
        BY <1>1, <2>1, <3>1, <3>2 DEF Cell, At, front
    <2>3. w # <<>> /\ Holds(PageErased(p), Front(w))
      BY <1>1, <2>2, ErasedHolds
    <2>4. Ahead(PageErased(p)) = c
      BY <1>1, <2>2, ErasedFacts
    <2>5. /\ Turns(tty, Refresh(Deleted(tty)), PageErased(p)) /\ Good(Refresh(Deleted(tty)))
          /\ LeavesRow(tty) <=> p.at % VGA_COLS = 0
      BY <1>1, <2>1, BackspaceFacts, DeletedFacts DEF Running
    <2>6. Turns(tty, tty', PageErased(p)) /\ Good(tty')
      BY <1>2, <1>4, <2>5 DEF vga_delete_char
    <2>7. Beside(tty, tty') /\ FrontPage(tty') = PageErased(p)
      BY <2>6, TurnsBeside
    <2>8. typed' = [typed EXCEPT ![front] = Front(w)] /\ Front(w) \in Seq(Letters)
          /\ ~spoiled'
      <3>1. Front(w) \in Seq(Letters)
        <4> HIDE DEF w
        <4>1. QED
          BY <1>1, <2>3 DEF Front
      <3>2. typed' = [typed EXCEPT ![front] = Front(w)]
        BY <1>4, <2>3 DEF Backspace
      <3>3. ~spoiled'
        BY <1>4, <2>3, Zenon DEF Backspace, Running
      <3>4. QED
        BY <3>1, <3>2, <3>3
    <2>9. phantoms' = [phantoms EXCEPT ![front] = c] /\ c \in Nat
      <3>1. phantoms' = [phantoms EXCEPT ![front] =
                           IF LeavesRow(tty) /\ Rows(tty) = BUFFER_ROWS - 1
                           THEN phantoms[front] + 1 ELSE phantoms[front]]
        BY <1>4 DEF Backspace, Phantom, Running
      <3>2. c \in Nat /\ c = IF LeavesRow(tty) /\ Rows(tty) = BUFFER_ROWS - 1
                             THEN phantoms[front] + 1 ELSE phantoms[front]
        BY <1>1, <2>5 DEF Running
      <3>3. QED
        BY <3>1, <3>2
    <2> HIDE DEF p, w, c, counts
    <2>10. QED
      BY <1>2, <2>3, <2>4, <2>6, <2>7, <2>8, <2>9, FrontStep
  <1>5. QED
    BY <1>3, <1>4

\* A command ends in a prompt, behind which nothing is typed yet.
LEMMA EndsStep ==
    ASSUME Running, NEW t, Good(t), Beside(tty, t),
           Ahead(FrontPage(t)) = Ahead(FrontPage(tty)),
           Ends(t), UNCHANGED ctrl_pressed
    PROVE  InOrder' /\ Beside(tty, tty')
  <1>1. /\ tty' = shell_prompt(t) /\ typed' = [typed EXCEPT ![front] = <<>>]
        /\ UNCHANGED <<kernel, phantoms>> /\ ~spoiled' /\ <<>> \in Seq(Letters)
    BY DEF Ends, Running
  <1>2. Sheets(t)
    BY DEF Good
  <1>3. /\ Good(tty') /\ Beside(t, tty') /\ Holds(FrontPage(tty'), <<>>)
        /\ Ahead(FrontPage(tty')) = Ahead(FrontPage(t))
    BY <1>1, <1>2, PromptFacts
  <1>4. Beside(tty, tty')
    BY <1>3 DEF Beside
  <1>5. /\ phantoms' = [phantoms EXCEPT ![front] = phantoms[front]] /\ phantoms[front] \in Nat
        /\ Ahead(FrontPage(tty')) = phantoms[front]
    <2>1. Ahead(FrontPage(tty)) = phantoms[front]
      BY DEF Running, Standing
    <2>2. QED
      BY <1>1, <1>3, <2>1 DEF Running
  <1>6. QED
    BY <1>1, <1>3, <1>4, <1>5, FrontStep

LEMMA EnterStep ==
    ASSUME Running, UnknownCommand \/ DisplayCommand \/ (Shutdown /\ Ends(tty))
    PROVE  InOrder' /\ Beside(tty, tty')
  <1>1. CASE UnknownCommand \/ (Shutdown /\ Ends(tty))
    <2>1. Ends(tty) /\ UNCHANGED ctrl_pressed
      BY <1>1 DEF UnknownCommand, Shutdown, Enter
    <2>2. Good(tty) /\ Beside(tty, tty)
      BY DEF Running, Beside
    <2>3. QED
      BY <2>1, <2>2, EndsStep
  <1>2. CASE DisplayCommand
    <2>1. PICK deed \in {"gdt", "print-stack"} :
            Enter /\ Ends(vga_puts(tty, <<"newline">> \o Answers[deed]))
      BY <1>2 DEF DisplayCommand
    <2> DEFINE t == vga_puts(tty, <<"newline">> \o Answers[deed])
    <2>2. <<"newline">> \o Answers[deed] \in Seq(Printable)
      BY Printables
    <2>3. /\ Good(t) /\ Beside(tty, t)
          /\ Ahead(FrontPage(t)) = Ahead(FrontPage(tty))
      BY <2>2, PrintStrFacts DEF Running
    <2>4. Ends(t) /\ UNCHANGED ctrl_pressed
      BY <2>1 DEF Enter
    <2> HIDE DEF t
    <2>5. QED
      BY <2>3, <2>4, EndsStep
  <1>3. QED
    BY <1>1, <1>2

LEMMA ScrollStep ==
    ASSUME Running, ArrowUp \/ ArrowDown
    PROVE  InOrder' /\ SamePages(tty, tty')
  <1>1. Offset(tty) \in 0 .. Short - 1 /\ Offset(tty) \in Nat /\ Short \in Nat \ {0}
    BY TTYTypes, Constants DEF Running
  <1>2. PICK e \in 0 .. Short - 1 :
          tty' = screen_display([tty EXCEPT !.scroll_offset[tty.active_screen] = e])
    <2>1. CASE ArrowUp
      <3>1. (Offset(tty) + 1) % Short \in 0 .. Short - 1
        BY <1>1
      <3>2. QED
        BY <2>1, <3>1 DEF ArrowUp, Offset, front
    <2>2. CASE ArrowDown
      <3>1. Offset(tty) - 1 \in 0 .. Short - 1
        BY <1>1, <2>2 DEF ArrowDown
      <3>2. QED
        BY <2>2, <3>1 DEF ArrowDown, Offset, front
    <2>3. QED
      BY <2>1, <2>2
  <1>3. Good(tty') /\ SamePages(tty, tty')
    BY <1>2, ScrollFacts DEF Running, SamePages
  <1>4. UNCHANGED userVars /\ ctrl_pressed' \in BOOLEAN /\ kernel' \in Kernels
    <2>1. UNCHANGED <<ctrl_pressed, kernel, keyboard, userVars>>
      BY DEF ArrowUp, ArrowDown
    <2>2. QED
      BY <2>1 DEF Running, Kernels
  <1>5. QED
    BY <1>3, <1>4, QuietStep

LEMMA SwitchStep ==
    ASSUME Running, NEW s \in Screens, CtrlDigit(s)
    PROVE  InOrder' /\ SamePages(tty, tty')
  <1>1. Good(tty') /\ SamePages(tty, tty')
    <2>1. tty' = screen_switch(tty, s)
      BY DEF CtrlDigit
    <2>2. QED
      BY <2>1, SwitchFacts DEF Running, SamePages
  <1>2. UNCHANGED userVars /\ ctrl_pressed' \in BOOLEAN /\ kernel' \in Kernels
    BY DEF CtrlDigit, Running, Kernels
  <1>3. QED
    BY <1>1, <1>2, QuietStep

LEMMA StopStep ==
    ASSUME Running,
           \/ Halt \/ Reboot \/ EnterUnderruns \/ Ctrl
           \/ (Shutdown /\ kernel' = "off" /\ UNCHANGED <<tty, userVars>>)
    PROVE  InOrder' /\ SamePages(tty, tty')
  <1>1. UNCHANGED tty /\ UNCHANGED userVars
    BY DEF Halt, Reboot, EnterUnderruns, Ctrl
  <1>2. ctrl_pressed' \in BOOLEAN /\ kernel' \in Kernels
    BY DEF Halt, Reboot, EnterUnderruns, Ctrl, Shutdown, Enter, Running, Kernels
  <1>3. QED
    BY <1>1, <1>2, StillStep

\* A step that is none of these changes nothing that is spoken of.
LEMMA NextStep ==
    ASSUME InOrder, [Next]_vars
    PROVE  InOrder' /\ (Beside(tty, tty') \/ SamePages(tty, tty'))
  <1>1. CASE UNCHANGED vars
    BY <1>1 DEF vars, InOrder, SamePages, Standing
  <1>2. CASE Next
    <2>1. kernel = "running"
      BY <1>2 DEF Next, TypeLetter, TypeControl, CursorUnderflows, Backspace, UnknownCommand,
         DisplayCommand, Halt, Reboot, Shutdown, Enter, EnterUnderruns, ArrowUp, ArrowDown,
         Ctrl, CtrlDigit, Pressed
    <2>2. Running
      BY <2>1, RunningFacts
    <2>3. CASE \E c \in Letters : TypeLetter(c)
      BY <2>2, <2>3, LetterStep
    <2>4. CASE TypeControl
      BY <2>2, <2>4, ControlStep
    <2>5. CASE CursorUnderflows
      BY <2>2, <2>5, UnderflowStep
    <2>6. CASE Backspace
      BY <2>2, <2>6, BackspaceStep
    <2>7. CASE UnknownCommand \/ DisplayCommand
      BY <2>2, <2>7, EnterStep
    <2>8. CASE Shutdown
      <3>1. Ends(tty) \/ (kernel' = "off" /\ UNCHANGED <<tty, userVars>>)
        BY <2>8 DEF Shutdown
      <3>2. QED
        BY <2>2, <2>8, <3>1, EnterStep, StopStep
    <2>9. CASE Halt \/ Reboot \/ EnterUnderruns \/ Ctrl
      BY <2>2, <2>9, StopStep
    <2>10. CASE ArrowUp \/ ArrowDown
      BY <2>2, <2>10, ScrollStep
    <2>11. CASE \E s \in Screens : CtrlDigit(s)
      BY <2>2, <2>11, SwitchStep
    <2>12. QED
      BY <1>2, <2>3, <2>4, <2>5, <2>6, <2>7, <2>8, <2>9, <2>10, <2>11 DEF Next
  <1>3. QED
    BY <1>1, <1>2

LEMMA InitInOrder == Init => InOrder
  <1> SUFFICES ASSUME Init PROVE InOrder
    OBVIOUS
  <1>1. /\ tty = init_screens /\ ctrl_pressed = FALSE /\ kernel = "running"
        /\ typed = [s \in Screens |-> <<>>] /\ ~spoiled /\ phantoms = [s \in Screens |-> 0]
    BY DEF Init
  <1>2. /\ typed \in [Screens -> Seq(Letters)] /\ phantoms \in [Screens -> Nat]
        /\ \A s \in Screens : typed[s] = <<>> /\ phantoms[s] = 0
    BY <1>1
  <1>3. ASSUME NEW s \in Screens PROVE Standing(tty, typed, phantoms, s)
    BY <1>1, <1>2, StartFacts DEF Standing
  <1>4. QED
    BY <1>1, <1>2, <1>3, StartFacts DEF InOrder, Kernels

LEMMA InOrderHolds == Spec => []InOrder
  <1>1. InOrder /\ [Next]_vars => InOrder'
    BY NextStep
  <1>2. QED
    BY <1>1, InitInOrder, PTL DEF Spec

----------------------------------------------------------------------------
(* The theorems *)

\* Cursors, counters and caret stay in their ranges on every screen.
LEMMA TypesInOrder == InOrder => TypeOK
  <1> SUFFICES ASSUME InOrder PROVE TypeOK
    OBVIOUS
  <1>1. Good(tty) /\ tty \in TTY /\ ctrl_pressed \in BOOLEAN /\ kernel \in Kernels
    BY DEF InOrder, Good, Sheets
  <1>2. /\ tty.stock \in [CellsOfAll -> Cells] /\ tty.active_screen \in Screens
        /\ tty.vga_buffer \in [CellsShown -> Cells]
        /\ tty.row_count \in [Screens -> 0 .. BUFFER_ROWS - 1]
        /\ tty.scroll_offset \in [Screens -> 0 .. Short - 1]
        /\ tty.caret \in 0 .. VGA_ROWS * VGA_COLS
    BY <1>1, TTYTypes
  <1>3. ASSUME NEW s \in Screens PROVE CursorOf(s) \in 0 .. Size - 1
    <2>1. Sheet(Page(tty, s)) /\ Page(tty, s).at = CursorIn(tty, s)
      BY <1>1, PageFields DEF Good, Sheets
    <2>2. QED
      BY <2>1 DEF Sheet, Indices, CursorIn, CursorOf, front
  <1>4. QED
    BY <1>1, <1>2, <1>3 DEF TypeOK, CellsOfAll, CellsShown, Kernels

\* Nothing is written outside of the buffer or of the video memory, whatever is
\* typed, deleted, scrolled and switched.
THEOREM TypeCorrectness == Spec => []TypeOK
  BY InOrderHolds, TypesInOrder, PTL

\* The video memory is the window of the buffer at the scroll position, but for
\* the deletion that ends the scrolling.
THEOREM VideoShowsBuffer == Spec => []ShowsStock
  <1>1. InOrder => ShowsStock
    BY DEF InOrder, Good, Shown, ShowsStock
  <1>2. QED
    BY <1>1, InOrderHolds, PTL

LEMMA RowsInOrder == InOrder => RowsAhead
  <1> SUFFICES ASSUME InOrder, kernel # "astray", NEW s \in Screens
               PROVE  tty.row_count[s] = CursorOf(s) \div VGA_COLS + phantoms[s]
    BY DEF RowsAhead
  <1>1. tty \in TTY /\ Sheet(Page(tty, s))
    BY DEF InOrder, Good, Sheets
  <1>2. Page(tty, s).at = CursorOf(s) /\ Page(tty, s).rows = tty.row_count[s]
    BY <1>1, PageFields DEF CursorIn, CursorOf, front
  <1>3. tty.row_count[s] - (CursorOf(s) \div VGA_COLS) = phantoms[s]
    BY <1>2 DEF InOrder, Standing, Ahead
  <1>4. tty.row_count[s] \in Nat /\ CursorOf(s) \div VGA_COLS \in Nat /\ phantoms[s] \in Nat
    <2>1. tty.row_count[s] \in Nat
      BY <1>1, TTYTypes, Constants
    <2>2. CursorOf(s) \in Nat
      BY <1>1, <1>2, Sizes DEF Sheet, Indices
    <2>3. QED
      BY <2>1, <2>2, RowOf DEF InOrder
  <1>5. QED
    BY <1>3, <1>4

\* Control characters and deletions at the limit are all that makes the row
\* counter run ahead of the cursor, and it is never behind.
THEOREM RowsAreCounted == Spec => []RowsAhead
  BY InOrderHolds, RowsInOrder, PTL

\* In front of the cursor is what was typed or the mark of the prompt.  With no
\* row counted too many, the screen cannot be full at its first cell.
LEMMA CaretInOrder == ASSUME VGA_ROWS >= 2 PROVE InOrder => CaretAtCursor
  <1> SUFFICES ASSUME InOrder, Offset(tty) = 0, phantoms[front] = 0
               PROVE  tty.caret = tty.cursor_pos - FirstShown(tty) * VGA_COLS
    BY DEF CaretAtCursor
  <1> DEFINE p == FrontPage(tty)
             at == tty.cursor_pos
             w == typed[front]
  <1>1. /\ Good(tty) /\ Sheets(tty) /\ Follows(tty) /\ front \in Screens
        /\ Sheet(p) /\ p.at = at /\ p.rows = Rows(tty) /\ at \in Nat /\ at < Size
        /\ tty \in TTY /\ Rows(tty) \in Nat
    BY SheetsFront, TTYTypes DEF InOrder, Good, front
  <1>2. Holds(p, w) /\ Ahead(p) = 0 /\ w \in Seq(Letters)
    BY <1>1 DEF InOrder, Standing, FrontPage, front
  <1> HIDE DEF p, at, w
  <1>3. Rows(tty) = at \div VGA_COLS
    <2>1. at \div VGA_COLS \in Nat /\ Rows(tty) - (at \div VGA_COLS) = 0
      BY <1>1, <1>2, RowOf DEF Ahead
    <2>2. QED
      BY <1>1, <2>1
  <1>4. at # 0
    <2> SUFFICES ASSUME at = 0 PROVE FALSE
      OBVIOUS
    <2>1. Rows(tty) = BUFFER_ROWS - 1
      <3>1. p.at <= Len(w)
        BY <1>1, <1>2
      <3>2. QED
        BY <1>1, <1>2, <3>1 DEF Holds
    <2>2. 0 \div VGA_COLS = 0 /\ BUFFER_ROWS - 1 # 0
      BY Constants, ZeroAt
    <2>3. QED
      BY <1>3, <2>1, <2>2
  <1>5. p.cells[at - 1] # "blank"
    <2>1. CASE Len(w) = 0
      <3>1. Len(w) < p.at /\ Len(w) + 1 = 1
        BY <1>1, <1>4, <2>1
      <3>2. QED
        BY <1>1, <1>2, <3>1 DEF Holds
    <2>2. CASE Len(w) # 0
      <3>1. 1 \in 1 .. Len(w) /\ 1 <= p.at /\ (Len(w) - 1) + 1 \in 1 .. Len(w)
        BY <1>1, <1>2, <1>4, <2>2
      <3>2. p.cells[p.at - 1] = w[(Len(w) - 1) + 1]
        BY <1>2, <3>1 DEF Holds
      <3>3. w[(Len(w) - 1) + 1] \in Letters
        BY <1>2, <3>1
      <3>4. QED
        BY <1>1, <3>2, <3>3, Constants
    <2>3. QED
      BY <2>1, <2>2
  <1>6. QED
    BY <1>1, <1>3, <1>4, <1>5 DEF Follows, p, at

\* Buffer, row counter, video memory and caret agree: the caret blinks where the
\* next character goes, on a display of two rows or more.  On one row a full row
\* is scrolled out as it ends, and last_char_index finds nothing but blanks.
THEOREM DisplayIsSound == ASSUME VGA_ROWS >= 2 PROVE Spec => []DisplaySound
  <1>1. InOrder => DisplaySound
    <2>1. InOrder => ShowsStock
      BY DEF InOrder, Good, Shown, ShowsStock
    <2>2. QED
      BY <2>1, TypesInOrder, RowsInOrder, CaretInOrder DEF DisplaySound
  <1>2. QED
    BY <1>1, InOrderHolds, PTL

\* Backspace erases nothing but what has been typed: not the prompt, not the
\* output of a command, not the banner.
THEOREM BackspaceStopsAtPrompt == Spec => []ErasesOnlyTyped
  <1>1. InOrder => ErasesOnlyTyped
    BY DEF InOrder, ErasesOnlyTyped
  <1>2. QED
    BY <1>1, InOrderHolds, PTL

\* What a page says about the fields that OthersUntouched names.
LEMMA SamePage ==
    ASSUME NEW t \in TTY, NEW u \in TTY, NEW s \in Screens, Page(u, s) = Page(t, s)
    PROVE  /\ \A i \in s * Size .. (s + 1) * Size - 1 : u.stock[i] = t.stock[i]
           /\ u.row_count[s] = t.row_count[s]
           /\ CursorIn(u, s) = CursorIn(t, s)
  <1>1. ASSUME NEW i \in s * Size .. (s + 1) * Size - 1 PROVE u.stock[i] = t.stock[i]
    <2>1. s \in Nat /\ Size \in Nat /\ s * Size \in Nat /\ (s + 1) * Size = s * Size + Size
      <3>1. s \in Nat /\ Size \in Nat
        BY Sizes, Constants
      <3>2. QED
        BY <3>1
    <2>2. PICK j \in Int : j = i - s * Size
      BY <2>1
    <2>3. j \in Indices /\ s * Size + j = i
      BY <2>1, <2>2 DEF Indices
    <2>4. Page(u, s).cells[j] = u.stock[s * Size + j] /\ Page(t, s).cells[j] = t.stock[s * Size + j]
      BY <2>3, PageFields
    <2>5. QED
      BY <2>3, <2>4
  <1>2. QED
    BY <1>1, PageFields

\* Each screen keeps its cells, its row counter and its cursor while another one
\* is in front, although all of them share one array and one cursor variable.
THEOREM ScreensDoNotMix == Spec => OthersUntouched
  <1>1. InOrder /\ InOrder' /\ [Next]_vars =>
          [\A s \in {q \in Screens : q # front \/ q # front'} :
             /\ \A i \in s * Size .. (s + 1) * Size - 1 : tty'.stock[i] = tty.stock[i]
             /\ tty'.row_count[s] = tty.row_count[s]
             /\ CursorOf(s)' = CursorOf(s)]_vars
    <2> SUFFICES ASSUME InOrder, InOrder', [Next]_vars,
                        NEW s \in Screens, s # front \/ s # front'
                 PROVE  /\ \A i \in s * Size .. (s + 1) * Size - 1 :
                             tty'.stock[i] = tty.stock[i]
                        /\ tty'.row_count[s] = tty.row_count[s]
                        /\ CursorOf(s)' = CursorOf(s)
      OBVIOUS
    <2>1. tty \in TTY /\ tty' \in TTY
      BY DEF InOrder, Good, Sheets
    <2>2. Beside(tty, tty') \/ SamePages(tty, tty')
      BY NextStep
    <2>3. Page(tty', s) = Page(tty, s)
      BY <2>2 DEF Beside, SamePages, front
    <2>4. CursorOf(s)' = CursorIn(tty', s) /\ CursorOf(s) = CursorIn(tty, s)
      BY DEF CursorOf, CursorIn, front
    <2>5. QED
      BY <2>1, <2>3, <2>4, SamePage
  <1>2. QED
    BY <1>1, InOrderHolds, PTL DEF Spec, OthersUntouched

----------------------------------------------------------------------------
(* The command that is run *)

\* A letter reads as itself, and nothing typed reads as a mark: the shell stops
\* at the prompt or at its limit, and reads what was typed in between.
LEMMA CommandRead ==
    ASSUME NEW t, Sheets(t), NEW w \in Seq(Letters), Holds(FrontPage(t), w), ~Underruns(t)
    PROVE  LET n == Min({Len(w), SHELL_CMD_BUFFER_SIZE})
           IN  /\ cmdcpy(t) = SubSeq(w, Len(w) - n + 1, Len(w))
               /\ Len(cmdcpy(t)) = n /\ n \in Nat
               /\ n = Len(w) \/ n = SHELL_CMD_BUFFER_SIZE
  <1> DEFINE p == FrontPage(t)
             at == t.cursor_pos
             len == Len(w)
             limit == SHELL_CMD_BUFFER_SIZE
             n == Min({len, limit})
             marks == {k \in 1 .. limit : k <= at /\ Cell(t, at - k) = "mark"}
             found == marks \cup {limit + 1}
  <1>1. /\ t \in TTY /\ t.active_screen \in Screens /\ p.at = at /\ at \in Nat /\ at < Size
        /\ len \in Nat /\ limit \in Nat /\ Size \in Nat
        /\ \A i \in 1 .. len : w[i] \in Letters
    BY SheetsFront, Constants, Sizes
  <1>2. ASSUME NEW k \in 1 .. at PROVE Cell(t, at - k) = p.cells[at - k]
    <2>1. PICK j \in Int : j = at - k
      BY <1>1
    <2>2. j \in Indices
      BY <1>1, <2>1 DEF Indices
    <2>3. p.cells[j] = t.stock[t.active_screen * Size + j]
      BY <1>1, <2>2, PageFields DEF FrontPage
    <2>4. QED
      BY <2>1, <2>3 DEF Cell, At
  <1> HIDE DEF p
  \* The cell k back is the last but k - 1 of what was typed.
  <1>3. ASSUME NEW k \in 1 .. at, k <= len
        PROVE  /\ Cell(t, at - k) = w[(len - k) + 1] /\ Cell(t, at - k) # "mark"
               /\ Char(Cell(t, at - k)) = w[(len - k) + 1]
    <2>1. k \in 1 .. len /\ (len - k) + 1 \in 1 .. len /\ k <= at
      BY <1>1, <1>3
    <2>2. p.cells[at - k] = w[(len - k) + 1]
      BY <1>1, <2>1 DEF Holds, p
    <2>3. w[(len - k) + 1] \in Letters
      BY <1>1, <2>1
    <2>4. QED
      BY <1>2, <2>2, <2>3, Constants DEF Char
  <1>4. ASSUME len < at PROVE Cell(t, at - (len + 1)) = "mark"
    <2>1. p.cells[at - (len + 1)] = "mark"
      BY <1>1, <1>4 DEF Holds, p
    <2>2. len + 1 \in 1 .. at
      BY <1>1, <1>4
    <2>3. QED
      BY <1>2, <2>1, <2>2
  <1>5. /\ Stop(t) \in found /\ Stop(t) \in Nat /\ Stop(t) - 1 <= at
        /\ \A x \in found : x \in Nat /\ Stop(t) <= x
    <2>1. Stop(t) = Min(found)
      BY DEF Stop
    <2>2. found \in SUBSET Nat /\ found # {}
      BY <1>1
    <2> HIDE DEF found
    <2>3. Min(found) \in found /\ \A x \in found : Min(found) <= x
      BY <2>2, MinOfNats
    <2>4. Stop(t) \in Nat
      BY <2>1, <2>2, <2>3
    <2>5. Stop(t) - 1 <= at
      BY <1>1, <2>4 DEF Underruns
    <2>6. QED
      BY <2>1, <2>2, <2>3, <2>4, <2>5
  <1>6. /\ n \in Nat /\ n <= len /\ n <= limit
        /\ n = len \/ n = limit
    <2>1. {len, limit} \in SUBSET Nat /\ {len, limit} # {}
      BY <1>1
    <2>2. n \in {len, limit} /\ \A x \in {len, limit} : n <= x
      BY <2>1, MinOfNats
    <2>3. QED
      BY <1>1, <2>2
  <1> HIDE DEF n
  <1>7. n + 1 <= Stop(t)
    <2>1. CASE Stop(t) \in marks
      <3>1. Stop(t) \in 1 .. at /\ Cell(t, at - Stop(t)) = "mark"
        BY <1>1, <2>1
      <3>2. ~ (Stop(t) <= len)
        BY <1>3, <3>1
      <3>3. QED
        BY <1>1, <1>5, <1>6, <3>2
    <2>2. CASE Stop(t) = limit + 1
      BY <1>1, <1>6, <2>2
    <2>3. QED
      BY <1>5, <2>1, <2>2
  <1>8. Stop(t) <= n + 1
    <2>1. CASE n = limit
      BY <1>5, <2>1
    <2>2. CASE n # limit
      <3>1. n = len /\ len < limit
        BY <1>1, <1>6, <2>2
      <3>2. len < at
        BY <1>1, <1>5, <1>6, <1>7, <3>1, <2>2
      <3>3. len + 1 \in marks
        <4>1. len + 1 \in 1 .. limit /\ len + 1 <= at
          BY <1>1, <3>1, <3>2
        <4>2. QED
          BY <1>4, <3>2, <4>1
      <3>4. QED
        BY <1>5, <3>1, <3>3
    <2>3. QED
      BY <2>1, <2>2
  <1> HIDE DEF marks, found
  <1>9. Stop(t) - 1 = n /\ n <= at
    BY <1>1, <1>5, <1>6, <1>7, <1>8
  <1>10. cmdcpy(t) = [i \in 1 .. n |-> Char(Cell(t, at - n + i - 1))]
    BY <1>9 DEF cmdcpy
  <1>11. ASSUME NEW i \in 1 .. n
         PROVE  Char(Cell(t, at - n + i - 1)) = w[i + (len - n + 1) - 1]
    <2>1. PICK k \in Int : k = n - i + 1
      BY <1>6
    <2>2. k \in 1 .. at /\ k <= len /\ at - k = at - n + i - 1
          /\ (len - k) + 1 = i + (len - n + 1) - 1
      BY <1>1, <1>6, <1>9, <2>1
    <2>3. Char(Cell(t, at - k)) = w[(len - k) + 1]
      BY <1>3, <2>2
    <2>4. QED
      BY <2>2, <2>3
  <1>12. /\ SubSeq(w, len - n + 1, len) = [i \in 1 .. n |-> w[i + (len - n + 1) - 1]]
         /\ Len(SubSeq(w, len - n + 1, len)) = n
    <2>0. len - n + 1 \in Int
      BY <1>1, <1>6
    <2>1. PICK a \in Int : a = len - n + 1
      BY <2>0, Zenon
    <2> DEFINE q == SubSeq(w, a, len)
    <2>2. /\ len \in Int /\ 1 .. len - a + 1 = 1 .. n /\ a .. len \subseteq 1 .. len
          /\ (a <= len) => len - a + 1 = n
          /\ ~(a <= len) => n = 0
          /\ \A i \in 1 .. n : a + i - 1 = i + (len - n + 1) - 1
      BY <1>1, <1>6, <2>1
    <2>3. \A i \in a .. len : w[i] \in Letters
      BY <1>1, <2>2
    <2>4. /\ q \in Seq(Letters)
          /\ Len(q) = IF a <= len THEN len - a + 1 ELSE 0
          /\ \A i \in 1 .. len - a + 1 : q[i] = w[a + i - 1]
      BY <2>2, <2>3, SubSeqProperties
    <2> HIDE DEF q
    <2>5. Len(q) = n /\ \A i \in 1 .. n : q[i] = w[i + (len - n + 1) - 1]
      BY <2>2, <2>4
    <2>6. q = [i \in 1 .. n |-> q[i]]
      BY <2>4, <2>5
    <2>7. QED
      BY <2>1, <2>5, <2>6 DEF q
  <1>13. cmdcpy(t) = SubSeq(w, len - n + 1, len)
    BY <1>10, <1>11, <1>12
  <1>14. QED
    BY <1>6, <1>12, <1>13 DEF n

LEMMA FrontHolds ==
    ASSUME InOrder
    PROVE  /\ Sheets(tty) /\ typed[front] \in Seq(Letters)
           /\ Holds(FrontPage(tty), typed[front])
  <1>1. Sheets(tty) /\ front \in Screens /\ FrontPage(tty) = Page(tty, front)
    BY SheetsFront DEF InOrder, Good, FrontPage, front
  <1>2. QED
    BY <1>1 DEF InOrder, Standing

\* What Enter runs is what was typed since the prompt, or the last characters of
\* it that the shell has room for, also when backspace, the control characters
\* and the scrolling of the buffer have been at work in between.
THEOREM CommandsAreTyped == Spec => []CommandIsTyped
  <1>1. InOrder => CommandIsTyped
    <2> SUFFICES ASSUME InOrder, ~Underruns(tty)
                 PROVE  LET n == Min({Len(typed[front]), SHELL_CMD_BUFFER_SIZE})
                        IN  cmdcpy(tty) = SubSeq(typed[front], Len(typed[front]) - n + 1,
                                                 Len(typed[front]))
      BY DEF CommandIsTyped
    <2>1. QED
      BY FrontHolds, CommandRead
  <1>2. QED
    BY <1>1, InOrderHolds, PTL

\* The words of the shell are shorter than its buffer: one that it finds there
\* is all that was typed.
LEMMA WordsAreTyped ==
    ASSUME InOrder, ~Underruns(tty), cmdcpy(tty) \in DOMAIN Commands
    PROVE  cmdcpy(tty) = typed[front]
  <1> DEFINE w == typed[front]
             n == Min({Len(w), SHELL_CMD_BUFFER_SIZE})
  <1>1. w \in Seq(Letters) /\ Len(w) \in Nat /\ SHELL_CMD_BUFFER_SIZE \in Nat
    BY FrontHolds, Constants
  <1>2. /\ cmdcpy(tty) = SubSeq(w, Len(w) - n + 1, Len(w))
        /\ Len(cmdcpy(tty)) = n /\ n \in Nat
        /\ n = Len(w) \/ n = SHELL_CMD_BUFFER_SIZE
    BY FrontHolds, CommandRead
  <1>3. Len(cmdcpy(tty)) < SHELL_CMD_BUFFER_SIZE
    BY Kfs2Assumption
  <1> HIDE DEF n
  <1>4. n = Len(w)
    BY <1>1, <1>2, <1>3
  <1> HIDE DEF w
  <1>5. Len(w) - n + 1 = 1
    BY <1>1, <1>4
  <1>6. SubSeq(w, 1, Len(w)) = w
    <2>1. PICK a \in Int : a = 1
      OBVIOUS
    <2>2. PICK b \in Int : b = Len(w)
      BY <1>1
    <2>3. \A i \in a .. b : w[i] \in Letters
      BY <1>1, <2>1, <2>2
    <2> DEFINE q == SubSeq(w, a, b)
    <2>4. /\ q \in Seq(Letters)
          /\ Len(q) = IF a <= b THEN b - a + 1 ELSE 0
          /\ \A i \in 1 .. b - a + 1 : q[i] = w[a + i - 1]
      BY <2>3, SubSeqProperties
    <2> HIDE DEF q
    <2>5. Len(q) = Len(w) /\ \A i \in 1 .. Len(w) : q[i] = w[i]
      BY <1>1, <2>1, <2>2, <2>4
    <2>6. q = w
      BY <1>1, <2>4, <2>5
    <2>7. QED
      BY <2>1, <2>2, <2>6 DEF q
  <1>7. QED
    BY <1>2, <1>5, <1>6 DEF w

\* The machine stops, restarts or goes off only on the command for it, typed in
\* full and with nothing else on the line.
THEOREM MachineStopsWhenTold == Spec => StopsWhenTold
  <1>1. InOrder /\ [Next]_vars =>
          [kernel' \in {"halted", "reset", "off"} /\ kernel = "running" =>
             /\ typed[front] \in DOMAIN Commands
             /\ Commands[typed[front]] =
                  CASE kernel' = "halted" -> "halt"
                    [] kernel' = "reset" -> "reboot"
                    [] kernel' = "off" -> "shutdown"]_vars
    <2> SUFFICES ASSUME InOrder, Next, kernel' \in {"halted", "reset", "off"},
                        kernel = "running"
                 PROVE  /\ typed[front] \in DOMAIN Commands
                        /\ Commands[typed[front]] =
                             CASE kernel' = "halted" -> "halt"
                               [] kernel' = "reset" -> "reboot"
                               [] kernel' = "off" -> "shutdown"
      BY DEF vars
    <2>1. \/ Halt \/ Reboot \/ (Shutdown /\ kernel' = "off")
      <3>1. ~ UNCHANGED kernel /\ kernel' # "astray"
        OBVIOUS
      <3>2. QED
        BY <3>1 DEF Next, TypeLetter, TypeControl, CursorUnderflows, Backspace, UnknownCommand,
           DisplayCommand, Shutdown, Ends, EnterUnderruns, ArrowUp, ArrowDown, Ctrl, CtrlDigit
    <2>2. PICK deed \in {"halt", "reboot", "shutdown"} :
            /\ Enter /\ Does(deed)
            /\ deed = CASE kernel' = "halted" -> "halt"
                        [] kernel' = "reset" -> "reboot"
                        [] kernel' = "off" -> "shutdown"
      BY <2>1 DEF Halt, Reboot, Shutdown
    <2>3. cmdcpy(tty) = typed[front]
      BY <2>2, WordsAreTyped DEF Enter, Does
    <2>4. QED
      BY <2>2, <2>3 DEF Does
  <1>2. QED
    BY <1>1, InOrderHolds, PTL DEF Spec, StopsWhenTold

=============================================================================
