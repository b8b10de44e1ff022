----------------------------- MODULE AbstractAlloc -----------------------------
(***************************************************************************)
(* What a kernel allocator promises its clients: the regions it has handed *)
(* out lie inside the arena and never overlap; an allocation adds one      *)
(* region, a release removes one, and no other region moves or changes.    *)
(* Misuse (a double free) halts the machine and changes nothing else.      *)
(***************************************************************************)
EXTENDS Integers

CONSTANT Limit          \* the size of the arena

VARIABLES regions,      \* the set of [lo, hi) handed out
          halted

vars == <<regions, halted>>

Disjoint(r, s) == r.hi <= s.lo \/ s.hi <= r.lo

Init == regions = {} /\ halted = FALSE

Alloc(r) ==
    /\ ~halted
    /\ 0 <= r.lo /\ r.lo <= r.hi /\ r.hi <= Limit
    /\ \A s \in regions : Disjoint(r, s)
    /\ regions' = regions \cup {r}
    /\ UNCHANGED halted

Release(r) ==
    /\ ~halted
    /\ regions' = regions \ {r}
    /\ UNCHANGED halted

Halt ==
    /\ ~halted
    /\ halted' = TRUE
    /\ UNCHANGED regions

Next == \/ \E r \in regions' \ regions : Alloc(r)
        \/ \E r \in regions : Release(r)
        \/ Halt

Spec == Init /\ [][Next]_vars

=============================================================================
