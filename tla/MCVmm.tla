--------------------------------- MODULE MCVmm ---------------------------------
(***************************************************************************)
(* Instances of virtual memory for TLC: pages of 4 bytes, page tables of 3 *)
(* pages, and few frames, so that both the data pages and the page tables  *)
(* of a call can be what memory runs out for.                              *)
(***************************************************************************)
EXTENDS Vmm

\* Sizes on, below and above a page boundary.
Sizes == {1, 8, 11}
NoCalls == {}
OnePage == {4}
Huge == {62}
Moves == {5, 12, -3, -8}

\* A kernel uses one of the two interfaces.  With vbrk, other code may hold a
\* frame too, so that the lowest free frame is not always the next one.
Either == {"vmalloc", "vbrk"}
OnlyVmalloc == {"vmalloc"}
OnlyVbrk == {"vbrk"}
Together == {"both"}
WithVbrk == [a \in {"vmalloc", "vbrk"} |-> IF a = "vbrk" THEN 1 ELSE 0]
Nobody == [a \in {"vmalloc"} |-> 0]
VbrkAlone == [a \in {"vbrk"} |-> 1]
None == [a \in {"both"} |-> 0]

=============================================================================
