------------------------------ MODULE BootLayout ------------------------------
(***************************************************************************)
(* What kfs3 makes of the memory it finds at boot: which pages pmm_init    *)
(* leaves free, where it puts its bitmap, which addresses paging_init maps *)
(* and where kheap_init puts the heap.  All of it is a function of the     *)
(* multiboot information m and of the addresses the linker chose.          *)
(*                                                                         *)
(* m.mem and m.has_mmap are the flags MULTIBOOT_FLAG_MEM and _MMAP,        *)
(* m.mem_upper is the memory above LowMemory in bytes, and m.mmap is the   *)
(* memory map: a sequence of entries [addr, len, available].               *)
(***************************************************************************)
EXTENDS Integers, Sequences, FiniteSets

CONSTANTS
    PageSize,       \* PAGE_SIZE
    WordBits,       \* 32, the bits of an entry of the bitmap
    LowMemory,      \* 1 MB
    Word,           \* 2^32
    KernelStart, KernelEnd,   \* the linker's kernel_start and kernel_end
    PagesPerTable,  \* 1024
    KernelTables,   \* 4, the page tables paging_init fills
    HeapBytes,      \* 4 MB, what kheap_init takes
    Machines        \* the multiboot informations considered

Entry == [addr : Nat, len : Nat, available : BOOLEAN]

ASSUME LayoutAssumption ==
    /\ PageSize \in Nat \ {0} /\ WordBits \in Nat \ {0} /\ Word \in Nat \ {0}
    /\ LowMemory \in Nat /\ LowMemory % PageSize = 0
    /\ KernelStart \in Nat /\ KernelEnd \in Nat /\ KernelStart <= KernelEnd
    /\ PagesPerTable \in Nat /\ KernelTables \in Nat /\ HeapBytes \in Nat

ASSUME MachinesAssumption ==
    \A m \in Machines : /\ m.mem \in BOOLEAN /\ m.has_mmap \in BOOLEAN
                        /\ m.mem_upper \in Nat
                        /\ m.mmap \in Seq(Entry)

PageDown(a) == a \div PageSize
PageUp(a)   == (a + PageSize - 1) \div PageSize

pmm_total_memory(m) == (LowMemory + m.mem_upper) % Word
pmm_total_pages(m)  == PageDown(pmm_total_memory(m))

\* Mutant: the number of words of the bitmap is not rounded up.
pmm_bitmap_size_Down(m) == pmm_total_pages(m) \div WordBits
pmm_bitmap_size(m) == (pmm_total_pages(m) + WordBits - 1) \div WordBits
WordBytes == WordBits \div 8

\* The pages there is a bit for; the last word may have bits to spare.
Bits(m) == 0 .. pmm_bitmap_size(m) * WordBits - 1

\* The first whole page of a map entry.  Mutant: rounded the wrong way.
FirstPage_Down(e) == PageDown(e.addr)
FirstPage(e) == PageUp(e.addr)

\* The pages that one entry of the memory map makes free.
Clears(m, e) ==
    {p \in 0 .. pmm_total_pages(m) :
        /\ e.available
        /\ FirstPage(e) <= p /\ p < PageDown(e.addr + e.len)
        /\ p * PageSize < pmm_total_memory(m)}

\* The pages the memory map, or the default without one, makes free.
Freed(m) ==
    IF m.has_mmap THEN UNION {Clears(m, m.mmap[i]) : i \in DOMAIN m.mmap}
    ELSE PageDown(LowMemory) .. pmm_total_pages(m) - 1

\* How often pmm_used_pages is decremented while they are freed: once for
\* every entry a page is in.
MapSteps(m) == {s \in (DOMAIN m.mmap) \X (0 .. pmm_total_pages(m)) :
                  s[2] \in Clears(m, m.mmap[s[1]])}
Decrements(m) == IF m.has_mmap THEN Cardinality(MapSteps(m))
                 ELSE Cardinality(Freed(m))

BitmapStart == PageUp(KernelEnd) * PageSize
BitmapEnd(m) == BitmapStart + pmm_bitmap_size(m) * WordBytes

\* The pages of the kernel and of the bitmap.  Mutant: of the kernel only.
KernelArea_NoBitmap(m) == PageDown(KernelStart) .. PageUp(KernelEnd) - 1
KernelArea(m) == PageDown(KernelStart) .. PageUp(BitmapEnd(m)) - 1

\* The first megabyte: BIOS, VGA memory, and the GDT and page directory.
LowArea == 0 .. PageDown(LowMemory) - 1

\* The bits behind the last word of the bitmap that pmm_init clears all the
\* same: that of a last page which is there only in part, when the bitmap ends
\* with the page before and an entry of the map reaches past it.
Behind(m) == Freed(m) \ Bits(m)

\* The bits of the bitmap that pmm_init leaves set (for others see Behind).
AfterMap(m)    == Bits(m) \ Freed(m)
AfterKernel(m) == AfterMap(m) \cup KernelArea(m)
BootBitmap(m)  == AfterKernel(m) \cup LowArea

\* The pages of the first megabyte that were still free.  Mutant: all of it
\* is counted.
NewlyLow_All(m) == LowArea
NewlyLow(m) == LowArea \ AfterKernel(m)

BootUsedPages(m) ==
    (pmm_total_pages(m) - Decrements(m) + Cardinality(KernelArea(m) \ AfterMap(m))
       + Cardinality(NewlyLow(m))) % Word

\* paging_init maps the first 16 MB onto themselves, so that pmm_alloc_page
\* can write to a page at its physical address.
Mapped(p) == p < KernelTables * PagesPerTable

\* kheap_init: the heap starts at the first page boundary not below kernel_end
\* plus the size of the bitmap.
HeapStart(m) ==
    PageUp(KernelEnd + pmm_bitmap_size(m) * WordBytes) * PageSize
HeapLimit(m) == HeapStart(m) + HeapBytes
HeapArea(m) == PageDown(HeapStart(m)) .. PageUp(HeapLimit(m)) - 1

\* Map entries do not overlap, and none of them reaches past the memory size
\* reported next to the map.  (Not assumed of Machines.)
MapIsConsistent(m) ==
    /\ \A i, j \in DOMAIN m.mmap :
         i # j => Clears(m, m.mmap[i]) \cap Clears(m, m.mmap[j]) = {}
    /\ pmm_total_pages(m) \notin Freed(m)

\* The kernel runs, so the memory it and its bitmap need is there.
ASSUME KernelFits ==
    \A m \in Machines : m.mem => KernelArea(m) \cup LowArea
                                    \subseteq 0 .. pmm_total_pages(m) - 1

----------------------------------------------------------------------------
(* The memory clients may have, defined on bytes and not on the bitmap.     *)

Overlap(lo, hi, from, to) == lo < to /\ from < hi

\* Page p is usable when it lies in available memory that the machine reports
\* and touches neither the first megabyte nor the kernel nor the bitmap.
Usable(m, p) ==
    LET lo == p * PageSize
        hi == lo + PageSize
    IN  /\ LowMemory <= lo /\ hi <= pmm_total_memory(m)
        /\ ~Overlap(lo, hi, KernelStart, KernelEnd)
        /\ ~Overlap(lo, hi, BitmapStart, BitmapEnd(m))
        /\ m.has_mmap => \E i \in DOMAIN m.mmap :
                            /\ m.mmap[i].available
                            /\ m.mmap[i].addr <= lo
                            /\ hi <= m.mmap[i].addr + m.mmap[i].len

UsablePages(m) == {p \in 0 .. pmm_total_pages(m) : Usable(m, p)}

=============================================================================
