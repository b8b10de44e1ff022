---------------------------------- MODULE Vmm ----------------------------------
(***************************************************************************)
(* Virtual memory of kfs3: kernel/memory/vmm.c, with the page tables of    *)
(* paging.c below it and a pool of physical frames below those.            *)
(*                                                                         *)
(* Virtual addresses are page numbers from KERNEL_HEAP_START; the break of *)
(* vbrk is in bytes from there.  The page manager is taken for what Pmm    *)
(* shows it to be, a pool that grants each frame once, the lowest one      *)
(* first.  All frames are identity mapped, as on a machine of 16 MB.       *)
(*                                                                         *)
(* live, warning, stranded and lost are history variables: the allocations *)
(* clients hold, as the page vmalloc returned and the bytes asked for, the *)
(* warning with which the latest call gave up, the pages that a vbrk which *)
(* failed half way left mapped, and the frames of mappings that a later    *)
(* mapping of the page replaced.  others stands for the code that calls    *)
(* the page manager itself, as kernel.c does.  api is which of the two     *)
(* interfaces to the address range the kernel uses.                        *)
(***************************************************************************)
EXTENDS Integers, Sequences, FiniteSets, SequencesExt

CONSTANTS
    PageSize,       \* PAGE_SIZE
    Word,           \* 2^32
    HeapPages,      \* pages between KERNEL_HEAP_START and KERNEL_HEAP_END
    MaxRegions,     \* VMM_MAX_REGIONS
    PagesPerTable,  \* PAGES_PER_TABLE
    Frames,         \* the numbers of the usable physical pages
    Requests,       \* the sizes passed to vmalloc
    Increments,     \* the increments passed to vbrk
    APIs,           \* the interfaces in use: vmalloc and vfree, or vbrk
    MaxOthers       \* api -> bound on the frames that other code holds

ASSUME VmmAssumption ==
    /\ PageSize \in Nat \ {0} /\ Word \in Nat \ {0} /\ HeapPages \in Nat \ {0}
    /\ MaxRegions \in Nat \ {0} /\ PagesPerTable \in Nat \ {0}
    /\ Frames \subseteq Nat /\ IsFiniteSet(Frames)
    /\ Requests \subseteq Nat \ {0} /\ Increments \subseteq Int \ {0}
    /\ APIs \subseteq {"vmalloc", "vbrk", "both"} /\ MaxOthers \in [APIs -> Nat]

VARIABLES vmm_regions,        \* the region list, in list order
          region_pool_index,
          vmm_heap_current,
          page_directory,     \* present page tables: slot -> frame
          pte,                \* present mappings: virtual page -> frame
          out,                \* the frames the page manager has handed out
          others,             \* those that other code has asked for
          kernel, live, warning, stranded, lost, api

vars == <<vmm_regions, region_pool_index, vmm_heap_current, page_directory,
          pte, out, others, kernel, live, warning, stranded, lost, api>>
mapVars == <<page_directory, pte, out, stranded, lost>>
allocVars == <<vmm_regions, region_pool_index, vmm_heap_current, live>>

PageUp(n) == (n + PageSize - 1) \div PageSize
Pages(start, n) == start .. start + n - 1
Slot(v) == v \div PagesPerTable

----------------------------------------------------------------------------
(* Backing pages with frames: the loop of pmm_alloc_page and              *)
(* paging_map_page over n pages from start.  Each page takes a frame, and  *)
(* the first page of a slot without a page table one more for the table.   *)

Free == Frames \ out
Supply == Cardinality(Free)
Rank(f) == Cardinality({g \in Free : g < f})
NthFree(k) == CHOOSE f \in Free : Rank(f) = k

\* The slots that get_page_table must make a table for.
NewSlots(start, n) == {Slot(v) : v \in Pages(start, n)} \ DOMAIN page_directory
FirstIn(start, s) == IF s * PagesPerTable < start THEN start
                     ELSE s * PagesPerTable

\* How many frames the loop takes before it asks for one for page v, and for
\* the page table of slot s.
PageTurn(start, n, v) ==
    v - start + Cardinality({s \in NewSlots(start, n) : FirstIn(start, s) < v})
TableTurn(start, n, s) == PageTurn(start, n, FirstIn(start, s)) + 1

Needed(start, n) == n + Cardinality(NewSlots(start, n))

\* The page at which frames run out, when that is when a page asks for one.
RunsOutAt(start, n, v) ==
    v \in Pages(start, n) /\ PageTurn(start, n, v) = Supply
\* The frames run out when a page table is needed: paging_map_page panics.
TableFails(start, n) ==
    \E s \in NewSlots(start, n) : TableTurn(start, n, s) = Supply

\* The mappings and tables made for the first m of the pages.
Mapped(start, n, m) ==
    [v \in DOMAIN pte \cup Pages(start, m) |->
        IF v \in Pages(start, m) THEN NthFree(PageTurn(start, n, v)) ELSE pte[v]]
NewTables(start, n, m) == {s \in NewSlots(start, n) : FirstIn(start, s) < start + m}
Tabled(start, n, m) ==
    [s \in DOMAIN page_directory \cup NewTables(start, n, m) |->
        IF s \in NewTables(start, n, m) THEN NthFree(TableTurn(start, n, s))
        ELSE page_directory[s]]
Taken(start, n, m) ==
    {NthFree(PageTurn(start, n, v)) : v \in Pages(start, m)}
      \cup {NthFree(TableTurn(start, n, s)) : s \in NewTables(start, n, m)}

\* paging_map_page overwrites the entry of a page that is mapped already.
Overmapped(start, m) == {pte[v] : v \in DOMAIN pte \cap Pages(start, m)}

Back(start, n, m) ==
    /\ pte' = Mapped(start, n, m)
    /\ lost' = lost \cup Overmapped(start, m)
    /\ page_directory' = Tabled(start, n, m)
    /\ out' = out \cup Taken(start, n, m)

\* The pages of [start, start + n) that are unmapped and whose frames go back.
Backed(start, n) == DOMAIN pte \cap Pages(start, n)
Unback(start, n) ==
    /\ pte' = [v \in DOMAIN pte \ Backed(start, n) |-> pte[v]]
    /\ out' = out \ {pte[v] : v \in Backed(start, n)}
    /\ UNCHANGED <<page_directory, stranded, lost>>

----------------------------------------------------------------------------
(* The region list *)

Region(start, size, allocated) ==
    [start |-> start, size |-> size, allocated |-> allocated]

\* Mutant: regions in use are found too.
find_free_region_AnyState(n) == SelectInSeq(vmm_regions, LAMBDA r : r.size >= n)
\* find_free_region: the index of the first region that is free and large
\* enough, 0 if there is none.
find_free_region(n) ==
    SelectInSeq(vmm_regions, LAMBDA r : ~r.allocated /\ r.size >= n)

\* find_region: the allocated region that starts at page v.
find_region(v) ==
    SelectInSeq(vmm_regions, LAMBDA r : r.start = v /\ r.allocated)

\* A region is split when it is too large and the pool has an entry left.
CanSplit(i, n) == vmm_regions[i].size > n /\ region_pool_index < MaxRegions

\* Region i cut down to n pages, its rest a free region behind it.  Mutant:
\* the rest is as large as the whole was.
Split_KeepsSize(i, n) ==
    LET r == vmm_regions[i]
    IN  InsertAt(ReplaceAt(vmm_regions, i, [r EXCEPT !.size = n]), i + 1,
                 Region(r.start + n, r.size, FALSE))
Split(i, n) ==
    LET r == vmm_regions[i]
    IN  InsertAt(ReplaceAt(vmm_regions, i, [r EXCEPT !.size = n]), i + 1,
                 Region(r.start + n, r.size - n, FALSE))

Fit(i, n) == IF CanSplit(i, n) THEN Split(i, n) ELSE vmm_regions
PoolAfter(i, n) == region_pool_index + IF CanSplit(i, n) THEN 1 ELSE 0

\* The list after every run of free regions has been merged into one.  Mutant:
\* a free region swallows the next one although it is in use.
Coalesce_NextUsed(rs) ==
    FoldLeft(LAMBDA done, r :
               IF done # <<>> /\ ~Last(done).allocated
               THEN [done EXCEPT ![Len(done)].size = @ + r.size]
               ELSE Append(done, r),
             <<>>, rs)
Coalesce(rs) ==
    FoldLeft(LAMBDA done, r :
               IF done # <<>> /\ ~Last(done).allocated /\ ~r.allocated
               THEN [done EXCEPT ![Len(done)].size = @ + r.size]
               ELSE Append(done, r),
             <<>>, rs)

----------------------------------------------------------------------------
(* Actions *)

\* vmm_init, with paging_init before it: no page of the range is mapped.
Init ==
    /\ vmm_regions = <<Region(0, HeapPages, FALSE)>>
    /\ region_pool_index = 1
    /\ vmm_heap_current = 0
    /\ page_directory = [s \in {} |-> 0]
    /\ pte = [v \in {} |-> 0]
    /\ out = {}
    /\ others = {}
    /\ kernel = "running"
    /\ live = {}
    /\ warning = "none"
    /\ stranded = {}
    /\ lost = {}
    /\ api \in APIs

PagesFor(size) == ((size + PageSize - 1) % Word) \div PageSize

\* vmalloc
Vmalloc(size) ==
    LET n == PagesFor(size)
        i == find_free_region(n)
        start == vmm_regions[i].start
    IN  /\ kernel = "running"
        /\ i # 0
        /\ Needed(start, n) <= Supply
        /\ Back(start, n, n)
        /\ vmm_regions' = [Fit(i, n) EXCEPT ![i].allocated = TRUE]
        /\ region_pool_index' = PoolAfter(i, n)
        /\ live' = live \cup {[page |-> start, bytes |-> size]}
        /\ warning' = "none"
        /\ UNCHANGED <<vmm_heap_current, kernel, others, stranded>>

VmallocNoRegion(size) ==
    /\ kernel = "running"
    /\ find_free_region(PagesFor(size)) = 0
    /\ warning' = "Out of virtual memory"
    /\ UNCHANGED <<vmm_regions, region_pool_index, vmm_heap_current, mapVars,
                   kernel, live, others>>

\* The pages the rollback undoes when there is no frame for page v.  Mutant:
\* the last one is forgotten.
Undone_OneLess(start, v) == start .. v - 2
Undone(start, v) == start .. v - 1

\* No frame for page v: what was mapped is unmapped again and its frames go
\* back, but page tables stay, and the region stays cut to size.
VmallocRollsBack(size) ==
    LET n == PagesFor(size)
        i == find_free_region(n)
        start == vmm_regions[i].start
    IN  /\ kernel = "running"
        /\ i # 0
        /\ \E v \in Pages(start, n) :
             /\ RunsOutAt(start, n, v)
             /\ LET m == v - start
                    mapped == Mapped(start, n, m)
                IN  /\ pte' = [w \in DOMAIN mapped \ Undone(start, v) |-> mapped[w]]
                    /\ page_directory' = Tabled(start, n, m)
                    /\ out' = (out \cup Taken(start, n, m))
                                \ {mapped[w] : w \in Undone(start, v)}
                    /\ lost' = lost \cup Overmapped(start, m)
        /\ vmm_regions' = Fit(i, n)
        /\ region_pool_index' = PoolAfter(i, n)
        /\ warning' = "Failed to allocate physical pages"
        /\ UNCHANGED <<vmm_heap_current, kernel, live, others, stranded>>

\* No frame for a page table: "Failed to get page table for mapping".  Nothing
\* runs after the panic, so what it leaves half done is left out.
VmallocPanics(size) ==
    LET n == PagesFor(size)
        i == find_free_region(n)
    IN  /\ kernel = "running"
        /\ i # 0
        /\ TableFails(vmm_regions[i].start, n)
        /\ kernel' = "PANIC"
        /\ UNCHANGED <<vmm_regions, region_pool_index, vmm_heap_current,
                       mapVars, live, warning, others>>

\* vfree of the start of an allocated region.
Vfree(v) ==
    LET i == find_region(v)
        r == vmm_regions[i]
    IN  /\ kernel = "running"
        /\ i # 0
        /\ Unback(r.start, r.size)
        /\ vmm_regions' = Coalesce([vmm_regions EXCEPT ![i].allocated = FALSE])
        /\ \E a \in live : a.page = v /\ live' = live \ {a}
        /\ warning' = "none"
        /\ UNCHANGED <<region_pool_index, vmm_heap_current, kernel, others>>

VfreeInvalid(v) ==
    /\ kernel = "running"
    /\ find_region(v) = 0
    /\ warning' = "Attempt to free invalid pointer"
    /\ UNCHANGED <<vmm_regions, region_pool_index, vmm_heap_current, mapVars,
                   kernel, live, others>>

\* vsize
Vsize(v) == LET i == find_region(v) IN
            IF i = 0 THEN 0 ELSE vmm_regions[i].size

\* vbrk upwards: the pages between the two breaks are backed.
VbrkGrows(increment) ==
    LET new == vmm_heap_current + increment
        start == PageUp(vmm_heap_current)
        n == PageUp(new) - start
    IN  /\ kernel = "running"
        /\ increment > 0 /\ new <= HeapPages * PageSize
        /\ Needed(start, n) <= Supply
        /\ Back(start, n, n)
        /\ vmm_heap_current' = new
        /\ stranded' = stranded \ Pages(start, n)
        /\ warning' = "none"
        /\ UNCHANGED <<vmm_regions, region_pool_index, kernel, live, others>>

\* The break stays where it was, but what was mapped stays mapped.
VbrkFails(increment) ==
    LET new == vmm_heap_current + increment
        start == PageUp(vmm_heap_current)
        n == PageUp(new) - start
    IN  /\ kernel = "running"
        /\ increment > 0 /\ new <= HeapPages * PageSize
        /\ \E v \in Pages(start, n) :
             /\ RunsOutAt(start, n, v)
             /\ Back(start, n, v - start)
             /\ stranded' = stranded \cup Pages(start, v - start)
        /\ warning' = "vbrk failed to allocate"
        /\ UNCHANGED <<vmm_regions, region_pool_index, vmm_heap_current,
                       kernel, live, others>>

VbrkPanics(increment) ==
    LET new == vmm_heap_current + increment
        start == PageUp(vmm_heap_current)
    IN  /\ kernel = "running"
        /\ increment > 0 /\ new <= HeapPages * PageSize
        /\ TableFails(start, PageUp(new) - start)
        /\ kernel' = "PANIC"
        /\ UNCHANGED <<vmm_regions, region_pool_index, vmm_heap_current,
                       mapVars, live, warning, others>>

\* The first page vbrk gives up.
FirstDropped(new) == PageUp(new)

\* vbrk downwards
VbrkShrinks(increment) ==
    LET new == vmm_heap_current + increment
        start == FirstDropped(new)
    IN  /\ kernel = "running"
        /\ increment < 0 /\ new >= 0
        /\ Unback(start, PageUp(vmm_heap_current) - start)
        /\ vmm_heap_current' = new
        /\ warning' = "none"
        /\ UNCHANGED <<vmm_regions, region_pool_index, kernel, live, others>>

\* Between heap start and end the 32-bit sum in vbrk cannot wrap around to an
\* address in bounds again.
VbrkOutOfBounds(increment) ==
    /\ kernel = "running"
    /\ vmm_heap_current + increment \notin 0 .. HeapPages * PageSize
    /\ warning' = "vbrk out of bounds"
    /\ UNCHANGED <<vmm_regions, region_pool_index, vmm_heap_current, mapVars,
                   kernel, live, others>>

\* Other code takes a page from the page manager, or gives one back.
OtherTakes ==
    /\ kernel = "running"
    /\ Supply > 0 /\ Cardinality(others) < MaxOthers[api]
    /\ out' = out \cup {NthFree(0)}
    /\ others' = others \cup {NthFree(0)}
    /\ UNCHANGED <<allocVars, page_directory, pte, kernel, warning, stranded,
                   lost>>

OtherReturns(f) ==
    /\ kernel = "running"
    /\ out' = out \ {f}
    /\ others' = others \ {f}
    /\ UNCHANGED <<allocVars, page_directory, pte, kernel, warning, stranded,
                   lost>>

\* Clients free what they hold, or an address that is not the start of an
\* allocation (any more).
UseVmalloc ==
    \/ \E size \in Requests :
         Vmalloc(size) \/ VmallocNoRegion(size) \/ VmallocRollsBack(size)
           \/ VmallocPanics(size)
    \/ \E a \in live : Vfree(a.page)
    \/ \E v \in 0 .. HeapPages - 1 : VfreeInvalid(v)

UseVbrk ==
    \E increment \in Increments :
         VbrkGrows(increment) \/ VbrkFails(increment) \/ VbrkPanics(increment)
           \/ VbrkShrinks(increment) \/ VbrkOutOfBounds(increment)

Next ==
    /\ \/ api \in {"vmalloc", "both"} /\ UseVmalloc
       \/ api \in {"vbrk", "both"} /\ UseVbrk
       \/ OtherTakes
       \/ \E f \in others : OtherReturns(f)
    /\ UNCHANGED api

Spec == Init /\ [][Next]_vars

----------------------------------------------------------------------------
(* Properties *)

PagesOf(a) == Pages(a.page, PagesFor(a.bytes))

TypeOK ==
    /\ \A i \in DOMAIN vmm_regions :
         vmm_regions[i] \in [start : 0 .. HeapPages, size : 0 .. HeapPages,
                            allocated : BOOLEAN]
    /\ region_pool_index \in 1 .. MaxRegions
    /\ Len(vmm_regions) <= region_pool_index
    /\ vmm_heap_current \in 0 .. HeapPages * PageSize
    /\ DOMAIN page_directory \subseteq 0 .. Slot(HeapPages - 1)
    /\ DOMAIN pte \subseteq 0 .. HeapPages - 1
    /\ Range(pte) \cup Range(page_directory) \subseteq Frames
    /\ out \subseteq Frames /\ others \subseteq Frames
    /\ kernel \in {"running", "PANIC"} /\ api \in APIs

\* The regions tile the address range without a gap or an overlap.
RegionsTile ==
    /\ vmm_regions[1].start = 0
    /\ \A i \in DOMAIN vmm_regions :
         vmm_regions[i].start + vmm_regions[i].size =
           IF i = Len(vmm_regions) THEN HeapPages ELSE vmm_regions[i + 1].start

\* The allocated regions are the live allocations, and each is large enough.
RegionsAreLive ==
    /\ {r.start : r \in {q \in Range(vmm_regions) : q.allocated}}
         = {a.page : a \in live}
    /\ \A a \in live : Vsize(a.page) >= PagesFor(a.bytes)

\* Two pages never share a frame, no page shares one with a page table or with
\* other code, and the page manager knows all these frames as handed out.
FramesExclusive ==
    /\ IsInjective(pte) /\ IsInjective(page_directory)
    /\ Range(pte) \cap Range(page_directory) = {}
    /\ (Range(pte) \cup Range(page_directory)) \cap others = {}
    /\ Range(pte) \cup Range(page_directory) \subseteq out

\* A frame that has been handed out backs a page, is a page table, belongs to
\* other code, or was lost when the page it backed was mapped again.  vmalloc
\* and vfree lose none, also when a vmalloc runs out of frames half way and
\* rolls back.
FramesKept == Range(pte) \cup Range(page_directory) \cup others
NoFrameLeaks ==
    /\ api # "both" => out = FramesKept \cup lost /\ lost \cap FramesKept = {}
    /\ api = "vmalloc" => lost = {}

\* What is mapped is what clients hold: the pages of the live allocations and
\* nothing that has been freed or rolled back; or the pages below the break and
\* those above it that a vbrk left behind when it failed half way.
MappedIsLive ==
    /\ api = "vmalloc" => DOMAIN pte = UNION {PagesOf(a) : a \in live}
    /\ api = "vbrk" =>
         LET below == 0 .. PageUp(vmm_heap_current) - 1
         IN  DOMAIN pte = below \cup stranded /\ below \cap stranded = {}

\* A live allocation keeps its frames, so its contents survive other calls.
LiveKeepsFrames ==
    [][\A a \in live \cap live' : \A v \in PagesOf(a) : pte'[v] = pte[v]]_vars

\* The address ranges handed out behave like those of AbstractAlloc.
Ranges == {[lo |-> r.start, hi |-> r.start + r.size] :
              r \in {q \in Range(vmm_regions) : q.allocated}}
Abstract == INSTANCE AbstractAlloc
            WITH Limit <- HeapPages, regions <- Ranges,
                 halted <- kernel # "running"
ImplementsAllocator == Abstract!Spec

\* Everything below the break is backed.
BreakIsBacked == 0 .. PageUp(vmm_heap_current) - 1 \subseteq DOMAIN pte

\* As long as region entries are left, an allocation has the pages asked for
\* and not one more, through every split, merge and rollback.
SizeUnlessExhausted ==
    region_pool_index < MaxRegions =>
        \A a \in live : Vsize(a.page) = PagesFor(a.bytes)

\* The region list describes the address range, through every split, merge and
\* rollback, and every live allocation with its size.
RegionsSound == TypeOK /\ RegionsTile /\ RegionsAreLive /\ SizeUnlessExhausted

\* The page tables back what clients hold with frames of their own.  No call
\* shares a frame.  vmalloc, vfree and a shrinking break lose none; a vbrk that
\* fails half way strands the pages it has mapped (vmm.c:243), and the only
\* frames ever lost are those of stranded pages that are mapped again.
FramesSound == FramesExclusive /\ NoFrameLeaks /\ MappedIsLive /\ BreakIsBacked

(* What the comments of the code say, and the code does not do. *)

\* paging.c:174 reports a page that is mapped already and maps it anew.  Were
\* that only worth a report, every frame handed out would still be in use.
FramesAccounted == out = FramesKept

\* memory.h:95: vsize is the size of the allocation.
SizeIsAsked == \A a \in live : Vsize(a.page) = PagesFor(a.bytes)

\* vmm.c:72: find_free_region finds a free region of at least the size asked
\* for, so it finds one when that many pages in a row belong to nobody.
SpaceIsFound ==
    \A n \in 1 .. HeapPages :
        (\E v \in 0 .. HeapPages - n :
            \A a \in live : Pages(v, n) \cap PagesOf(a) = {})
          => find_free_region(n) # 0

\* vmm.c:72: the region found is of at least the size asked for, also when that
\* is so large that rounding it up to pages wraps around.
ServedInFull == \A a \in live : Vsize(a.page) >= PageUp(a.bytes)

\* memory.h:98: vbrk is like sbrk, so the pages below the break are the
\* caller's alone and no region of vmalloc lies there.
BreakIsExclusive ==
    \A r \in Range(vmm_regions) :
        r.allocated => vmm_heap_current <= r.start * PageSize

=============================================================================
