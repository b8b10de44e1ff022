--------------------------------- MODULE MCKfs2 ---------------------------------
(***************************************************************************)
(* Instances of kfs2 for TLC: screens of three rows of three cells, with a *)
(* buffer of four rows.  One user types one command after another, one     *)
(* types on two screens, one edits and scrolls the first.                  *)
(***************************************************************************)
EXTENDS Kfs2, TLC

Greeting == <<"mark", "k">>
NoText == <<>>
ShortPrompt == <<"newline", "mark">>
Words ==
    <<"k">> :> "gdt" @@ <<"k", "k">> :> "print-stack" @@ <<"space">> :> "halt"
      @@ <<"space", "space">> :> "reboot" @@ <<"k", "space">> :> "shutdown"
Displays == [deed \in {"gdt", "print-stack"} |->
               IF deed = "gdt" THEN <<"k", "space", "mark">> ELSE <<"newline", "k">>]
Commanding == {"letter", "enter"}
Switching == {"letter", "backspace", "ctrl"}
Editing == {"letter", "tab", "backspace", "enter", "arrow"}
Users == {Commanding, Switching, Editing}

=============================================================================
