------------------------------ MODULE Scrollback ------------------------------
(***************************************************************************)
(* What the screens of kfs3 bonus promise: each screen is a text of rows,  *)
(* of which the newest BufferRows are kept, one screen is in front, and    *)
(* printing goes to the one in front.  There is no cursor, no row counter  *)
(* and no padding here.                                                    *)
(***************************************************************************)
EXTENDS Integers, Sequences, SequencesExt

CONSTANTS
    Columns,     \* the length of a full row
    BufferRows,  \* how many rows a screen keeps
    Scripts,     \* what can be printed: sequences of characters and "newline"
    Greetings    \* screen -> what is printed on it before the user takes over

VARIABLES text,  \* screen -> its rows, the last one being written
          front  \* the screen in front

vars == <<text, front>>

\* The oldest row goes when there is one row too many.
Keep(rows) == IF Len(rows) > BufferRows THEN Tail(rows) ELSE rows

Put(rows, c) ==
    LET row == Append(Last(rows), c)
        written == ReplaceAt(rows, Len(rows), row)
    IN  CASE c = "newline" -> Keep(Append(rows, <<>>))
          [] c # "newline" /\ Len(row) = Columns -> Keep(Append(written, <<>>))
          [] OTHER -> written

Say(rows, script) == FoldLeft(Put, rows, script)

----------------------------------------------------------------------------
Init ==
    /\ text = [s \in DOMAIN Greetings |-> Say(<< <<>> >>, Greetings[s])]
    /\ front = 0

Write(script) ==
    /\ text' = [text EXCEPT ![front] = Say(@, script)]
    /\ UNCHANGED front

Restart(script) ==
    /\ text' = [text EXCEPT ![front] = Say(<< <<>> >>, script)]
    /\ UNCHANGED front

Show(s) == front' = s /\ UNCHANGED text

Next ==
    \/ \E script \in Scripts : Write(script) \/ Restart(script)
    \/ \E s \in DOMAIN text : Show(s)

Spec == Init /\ [][Next]_vars

=============================================================================
