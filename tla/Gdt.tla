---------------------------------- MODULE Gdt ----------------------------------
(***************************************************************************)
(* Segment descriptors, as the gdt.c of kfs2 and kfs3 write them and as    *)
(* the processor reads them.  A descriptor splits its base address over    *)
(* three fields and its limit over two, one of which also holds the flags. *)
(***************************************************************************)
EXTENDS Integers

\* Bit k of n, for the value 2^k of the bit.
Bit(n, value) == (n \div value) % 2

\* gdt_set_entry of kfs3, gdt_create_entry of kfs2.
gdt_set_entry(base, limit, access, gran) ==
    [limit_low |-> limit % 65536, base_low |-> base % 65536,
     base_middle |-> (base \div 65536) % 256, access |-> access,
     granularity |-> ((limit \div 65536) % 16) + 16 * ((gran \div 16) % 16),
     base_high |-> (base \div 16777216) % 256]

\* get_base_address of kfs2, and what the processor does.
get_base_address(e) ==
    e.base_low + e.base_middle * 65536 + e.base_high * 16777216

----------------------------------------------------------------------------
(* What the processor makes of a descriptor. *)

Limit(e)      == e.limit_low + (e.granularity % 16) * 65536
InPages(e)    == Bit(e.granularity, 128) = 1
Is32Bit(e)    == Bit(e.granularity, 64) = 1
Present(e)    == Bit(e.access, 128) = 1
Ring(e)       == (e.access \div 32) % 4
IsSegment(e)  == Bit(e.access, 16) = 1
Executable(e) == Bit(e.access, 8) = 1
Writable(e)   == Bit(e.access, 2) = 1
MaxLimit      == 1048575    \* 0xFFFFF

\* A kernel segment of all 4 GB, for code or for data and stack.
Flat(e) == /\ get_base_address(e) = 0
           /\ Limit(e) = MaxLimit /\ InPages(e) /\ Is32Bit(e)
           /\ Present(e) /\ IsSegment(e) /\ Ring(e) = 0
FlatCode(e) == Flat(e) /\ Executable(e)
FlatData(e) == Flat(e) /\ ~Executable(e) /\ Writable(e)

----------------------------------------------------------------------------
(* The table of setup_gdt and gdt_init: seven entries.  kfs2 passes 0xC0   *)
(* and kfs3 0xCF as the flags, of which only the upper half is kept.       *)

Entries == 0 .. 6
\* The access bytes 0x9A, 0x92, 0xFA and 0xF2.
Access == [i \in Entries |-> CASE i = 0 -> 0
                               [] i = 1 -> 154
                               [] i \in {2, 3} -> 146
                               [] i = 4 -> 250
                               [] i \in {5, 6} -> 242]

Descriptors(gran) ==
    [i \in Entries |-> IF i = 0 THEN gdt_set_entry(0, 0, 0, 0)
                       ELSE gdt_set_entry(0, MaxLimit, Access[i], gran)]

=============================================================================
