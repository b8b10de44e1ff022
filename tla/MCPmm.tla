--------------------------------- MODULE MCPmm ---------------------------------
(***************************************************************************)
(* Instances of the page manager for TLC: pages of 8 bytes, bitmap words   *)
(* of 8 bits, 2 pages of low memory and a kernel that ends within a page.  *)
(***************************************************************************)
EXTENDS Pmm

Region(from, to, avail) == [addr |-> from, len |-> to - from, available |-> avail]

\* No memory information at all.
Blind == [mem |-> FALSE, has_mmap |-> FALSE, mem_upper |-> 0, mmap |-> <<>>]

\* Memory sizes but no map; a map with a hole whose edges are not on page
\* boundaries; a map that ends before and one that ends behind the memory.
Plain == [mem |-> TRUE, has_mmap |-> FALSE, mem_upper |-> 112, mmap |-> <<>>]
Holed == [mem |-> TRUE, has_mmap |-> TRUE, mem_upper |-> 120,
          mmap |-> <<Region(0, 13, TRUE), Region(13, 16, FALSE),
                     Region(16, 61, TRUE), Region(61, 75, FALSE),
                     Region(75, 140, TRUE)>>]
Short == [mem |-> TRUE, has_mmap |-> TRUE, mem_upper |-> 100,
          mmap |-> <<Region(0, 16, TRUE), Region(16, 83, TRUE),
                     Region(90, 114, FALSE)>>]
Small == {Blind, Plain, Holed, Short}

\* More memory than the identity mapping covers.
Big == {[mem |-> TRUE, has_mmap |-> TRUE, mem_upper |-> 88,
         mmap |-> <<Region(0, 16, TRUE), Region(16, 104, TRUE)>>]}

\* Two words full of pages and half a page more, in a map that has all of it.
Ragged == {[mem |-> TRUE, has_mmap |-> TRUE, mem_upper |-> 116,
            mmap |-> <<Region(0, 16, TRUE), Region(16, 140, TRUE)>>]}

=============================================================================
