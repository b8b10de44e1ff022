------------------------------- MODULE PagePool -------------------------------
(***************************************************************************)
(* What a physical page allocator promises: it hands out pages of a fixed  *)
(* pool, no page to two clients at a time, and it is out of pages only     *)
(* when all of them are handed out.                                        *)
(***************************************************************************)
VARIABLES pool,     \* the pages of the machine that clients may have
          out,      \* those that are handed out
          refused   \* the latest call was refused for lack of pages

vars == <<pool, out, refused>>

Init == out = {} /\ refused = FALSE

Grant(p) ==
    /\ p \in pool \ out
    /\ out' = out \cup {p}
    /\ refused' = FALSE
    /\ UNCHANGED pool

Reclaim(p) ==
    /\ p \in out
    /\ out' = out \ {p}
    /\ refused' = FALSE
    /\ UNCHANGED pool

Refuse ==
    /\ out = pool
    /\ refused' = TRUE
    /\ UNCHANGED <<pool, out>>

\* A call that was misuse and did nothing.
Ignore == refused' = FALSE /\ UNCHANGED <<pool, out>>

Next == \/ \E p \in pool : Grant(p)
        \/ \E p \in out : Reclaim(p)
        \/ Refuse
        \/ Ignore

Spec == Init /\ [][Next]_vars

=============================================================================
