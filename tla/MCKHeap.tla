------------------------------- MODULE MCKHeap -------------------------------
(***************************************************************************)
(* Instances of the heap for TLC.  The header and minimum block sizes are  *)
(* the real ones; the arena is small enough for a handful of blocks.       *)
(***************************************************************************)
EXTENDS KHeap

\* 1 is rounded up to a word and splits most blocks, 45 may need a merge.
SmallRequests == {1, 45}
FewRequests == {4, 40}
NoCalls == {}
AlignedSizes == {<<5, 8>>, <<3, 16>>}
OneAligned == {<<3, 16>>}
\* 510 + 3 is 1 modulo 512: the aligned size is 0.
HugeRequests == {20, 510}
BreakMoves == {24, -24, 300}
\* The whole arena at once; a second time it is refused.
WholeBreak == {104}

=============================================================================
