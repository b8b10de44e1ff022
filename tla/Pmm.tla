---------------------------------- MODULE Pmm ----------------------------------
(***************************************************************************)
(* The physical memory manager of kfs3: kernel/memory/pmm.c.               *)
(*                                                                         *)
(* A page is its number, a used page is a set bit of the bitmap.  Paging   *)
(* is on before anybody allocates, and pmm_alloc_page clears the page at   *)
(* its physical address: outside the identity mapping that is a page       *)
(* fault, and the kernel has no handler for one.                           *)
(*                                                                         *)
(* held and warning are history variables: the pages handed out and not    *)
(* given back, and the warning the latest call printed.                    *)
(***************************************************************************)
EXTENDS BootLayout

VARIABLES machine,          \* the multiboot information
          bitmap,           \* the pages whose bit is set
          pmm_used_pages,
          kernel, held, warning

vars == <<machine, bitmap, pmm_used_pages, kernel, held, warning>>

total == pmm_total_pages(machine)
NULL == 0

----------------------------------------------------------------------------

WordHasRoom(i) == \E p \in i * WordBits .. (i + 1) * WordBits - 1 : p \notin bitmap

\* pmm_find_free_page looks only into words that are not full.
Found(p) == /\ p \in Bits(machine) /\ WordHasRoom(p \div WordBits)
            /\ p < total /\ p \notin bitmap
FirstFree(p) == Found(p) /\ \A q \in Bits(machine) : Found(q) => p <= q

SetBit(bits, p) == bits \cup {p}
ClearBit(bits, p) == bits \ {p}

\* What pmm_free_page refuses: a page beyond the end of memory, a free page.
Invalid(p) == p >= total
DoubleFree(p) == p \notin bitmap

----------------------------------------------------------------------------

\* pmm_init
Init ==
    /\ machine \in Machines
    /\ bitmap = IF machine.mem THEN BootBitmap(machine) ELSE {}
    /\ pmm_used_pages = IF machine.mem THEN BootUsedPages(machine) ELSE 0
    /\ kernel = IF machine.mem THEN "running" ELSE "NO_MEMORY_INFO"
    /\ held = {}
    /\ warning = "none"

\* pmm_alloc_page
AllocPage ==
    /\ kernel = "running"
    /\ \E p \in Bits(machine) :
         /\ FirstFree(p)
         /\ bitmap' = SetBit(bitmap, p)
         /\ held' = held \cup {p}
         /\ kernel' = IF Mapped(p) THEN kernel ELSE "PAGE_FAULT"
    /\ pmm_used_pages' = (pmm_used_pages + 1) % Word
    /\ warning' = "none"
    /\ UNCHANGED machine

AllocFails ==
    /\ kernel = "running"
    /\ \A p \in Bits(machine) : ~Found(p)
    /\ warning' = "Out of memory!"
    /\ UNCHANGED <<machine, bitmap, pmm_used_pages, kernel, held>>

\* pmm_free_page
FreePage(page) ==
    LET page_num == PageDown(page) IN
    /\ kernel = "running"
    /\ page # NULL
    /\ ~Invalid(page_num) /\ ~DoubleFree(page_num)
    /\ bitmap' = ClearBit(bitmap, page_num)
    /\ pmm_used_pages' = (pmm_used_pages - 1) % Word
    /\ held' = held \ {page_num}
    /\ warning' = "none"
    /\ UNCHANGED <<machine, kernel>>

\* pmm_free_page of NULL, of an address beyond the end and of a free page.
FreeRefused(page) ==
    LET page_num == PageDown(page) IN
    /\ kernel = "running"
    /\ page = NULL \/ Invalid(page_num) \/ DoubleFree(page_num)
    /\ warning' = IF page = NULL THEN "none"
                  ELSE IF Invalid(page_num) THEN "Attempt to free invalid page"
                  ELSE "Double free detected"
    /\ UNCHANGED <<machine, bitmap, pmm_used_pages, kernel, held>>

\* What clients pass to pmm_free_page: a page they hold, a page that has been
\* freed already, NULL, and the first address behind the memory.  A used page
\* that pmm_init reserved is none of these: pmm_free_page would take it, but
\* the callers, test_memory and vmm.c, pass what pmm_alloc_page gave them.
FreePages == {p \in 0 .. total - 1 : p \notin bitmap}
Frees == {p * PageSize : p \in held \cup FreePages \cup {total}} \cup {NULL}

Next == \/ AllocPage
        \/ AllocFails
        \/ \E page \in Frees : FreePage(page)
        \/ \E page \in Frees : FreeRefused(page)

Spec == Init /\ [][Next]_vars

pmm_get_free_memory == ((total - pmm_used_pages) * PageSize) % Word

----------------------------------------------------------------------------
(* Properties *)

\* The bitmap has a bit for every page of the machine.
TypeOK ==
    /\ machine \in Machines
    /\ 0 .. total - 1 \subseteq Bits(machine)
    /\ bitmap \subseteq Bits(machine)
    /\ pmm_used_pages \in 0 .. Word - 1
    /\ kernel \in {"running", "NO_MEMORY_INFO", "PAGE_FAULT"}
    /\ held \subseteq 0 .. total - 1
    /\ warning \in {"none", "Out of memory!", "Attempt to free invalid page",
                    "Double free detected"}

\* The bitmap is what pmm_init left plus the pages handed out: no page is lost
\* and none is both handed out and kept by the kernel.
BitmapIsBootPlusHeld ==
    machine.mem => /\ bitmap = BootBitmap(machine) \cup held
                   /\ BootBitmap(machine) \cap held = {}

\* Clients may have all the usable memory of the machine and nothing else:
\* free pages and pages handed out together are the usable pages.
PoolIsUsableMemory ==
    machine.mem => FreePages \cup held = UsablePages(machine)

\* pmm_get_free_memory, which the kernel prints at boot and in its memory
\* information, is the size of the free pages: the counter never drifts.
FreeMemoryExact ==
    machine.mem => pmm_get_free_memory = Cardinality(FreePages) * PageSize

\* The warning "Out of memory!" is true: every usable page is handed out.
OutOfMemoryIsTrue ==
    warning = "Out of memory!" => held = UsablePages(machine)

\* What clients hold, what is free and what the kernel keeps divide the memory
\* of the machine exactly, and the manager gives up only when all is handed out.
PoolSound == BitmapIsBootPlusHeld /\ PoolIsUsableMemory /\ OutOfMemoryIsTrue

\* The page manager implements the pool of pages.
Pool == INSTANCE PagePool
        WITH pool <- UsablePages(machine), out <- held,
             refused <- warning = "Out of memory!"
ImplementsPagePool == Pool!Spec

\* No allocation faults: every page handed out can be cleared at its physical
\* address.  "Allocate a physical page" (memory.h:49) says no less.
NoPageFault == kernel # "PAGE_FAULT"

\* pmm.c:12: pmm_bitmap_size is the size of the bitmap in words, so pmm_init
\* clears no bit in a word behind them.
WritesStayInBitmap == machine.mem => Behind(machine) = {}

\* kmalloc.c:52: kheap_init reserves 4 MB for the kernel heap, so the page
\* manager gives none of those pages to anybody else.
HeapIsReserved == held \cap HeapArea(machine) = {}

\* kmalloc.c:48: the heap skips the bitmap of the page manager.
HeapSkipsBitmap == machine.mem => BitmapEnd(machine) <= HeapStart(machine)

=============================================================================
