------------------------------ MODULE MCConsole -------------------------------
(***************************************************************************)
(* The displays on 4 rows of 3 cells.  The reports of kfs2 have one row    *)
(* less than the display and a panic at most as many, as in the code.      *)
(***************************************************************************)
EXTENDS Console

TwoLetters == {"a", "b"}

=============================================================================
