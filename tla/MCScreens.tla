------------------------------- MODULE MCScreens -------------------------------
(***************************************************************************)
(* Instances of the screens for TLC: screens of two rows of three cells,   *)
(* with a buffer of three or four rows.                                    *)
(***************************************************************************)
EXTENDS Screens

OneRow == <<"mark", "k", "newline">>
NoControls == <<>>
ShortPrompt == <<"newline", "mark">>
Answers == {<<"mark", "k", "newline">>}
AllKeys == KeyKinds
NoEdit == {"letter", "enter", "ctrl"}
OneScreen == {"letter", "tab", "backspace", "enter", "arrow"}

=============================================================================
