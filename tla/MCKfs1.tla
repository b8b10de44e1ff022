--------------------------------- MODULE MCKfs1 ---------------------------------
(***************************************************************************)
(* Instances of kfs1 for TLC: two screens of two rows of two cells, with a *)
(* buffer of four rows.  One user plays with the modifier keys, one types  *)
(* on both screens, and one edits and scrolls.                             *)
(***************************************************************************)
EXTENDS Kfs1

Plain(codes) == {Key(FALSE, c) : c \in codes}
Shifting ==
    Plain({"lshift", "rshift", "ctrl", "1"}) \cup {Key(TRUE, "ctrl"), Key(TRUE, "lshift")}
Switching == Plain({"ctrl", "1", "2", "backspace"})
Editing ==
    Plain({"letter", "enter", "backspace", "fn", "caps"}) \cup {Key(TRUE, "up"), Key(TRUE, "down")}
Users == {Shifting, Switching, Editing}

=============================================================================
