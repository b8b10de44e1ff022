-------------------------------- MODULE KHeap --------------------------------
(***************************************************************************)
(* The kernel heap of kfs3: kernel/memory/kmalloc.c.                       *)
(*                                                                         *)
(* The heap is one arena of HeapSize bytes, cut into blocks.  A block is a *)
(* packed header followed by its data; the headers form a doubly linked    *)
(* list.  Addresses are byte offsets from heap_base, and NULL is -1.       *)
(*                                                                         *)
(* hdr maps the address of every linked header to its fields.  A header    *)
(* that merge_blocks unlinks is not erased: its magic word stays readable  *)
(* in the middle of the widened block until somebody writes over it, and   *)
(* kfree relies on it.  remnant is the set of those addresses.             *)
(*                                                                         *)
(* live and last_freed are history variables: live records, per used       *)
(* block, the pointer its client holds and the size it asked for;          *)
(* last_freed is the pointer the latest call freed, if it freed one.       *)
(*                                                                         *)
(* kernel is "running" until a panic halts the machine, or until an        *)
(* aligned request that wraps around has a word stored over a header: the  *)
(* kernel is then "astray", and what it does next is not modelled.         *)
(***************************************************************************)
EXTENDS Integers, FiniteSets, FiniteSetsExt

CONSTANTS
    HeaderSize,       \* sizeof(heap_block_t), 17 bytes packed
    MinBlock,         \* MIN_BLOCK_SIZE
    HeapSize,         \* heap_limit - heap_base, 4 MB in the kernel
    HeapBase,         \* heap_base, page aligned
    Word,             \* 2^32: arithmetic on size_t and uint32_t is modulo Word
    Requests,         \* the sizes clients pass to kmalloc
    AlignedRequests,  \* the <<size, alignment>> they pass to kmalloc_aligned
    Increments        \* the increments they pass to kbrk

ASSUME LayoutAssumption ==
    /\ HeaderSize \in Nat \ {0} /\ MinBlock \in Nat
    /\ HeapSize \in Nat /\ HeaderSize <= HeapSize
    /\ HeapBase \in Nat \ {0}
    /\ Word \in Nat /\ HeapBase + HeapSize + HeaderSize + MinBlock < Word

ASSUME CallsAssumption ==
    /\ Requests \subseteq Nat \ {0}
    /\ AlignedRequests \subseteq (Nat \ {0}) \X (Nat \ {0})
    /\ \A r \in AlignedRequests : \E i \in 0 .. r[2] : r[2] = 2 ^ i
    /\ Increments \subseteq Int \ {0}

VARIABLES hdr, heap_end, heap_current, heap_total_allocated, heap_total_free,
          remnant, kernel, live, last_freed

heapVars == <<hdr, heap_end, heap_total_allocated, heap_total_free, remnant>>
vars == <<hdr, heap_end, heap_current, heap_total_allocated, heap_total_free,
          remnant, kernel, live, last_freed>>

NULL == -1
HEAP_MAGIC == "HEAP_MAGIC"
HEAP_MAGIC_FREE == "HEAP_MAGIC_FREE"
MagicBytes == 4

Blocks == DOMAIN hdr
DataStart(a) == a + HeaderSize
BlockEnd(h, a) == a + HeaderSize + h[a].size

\* What a read of the magic word at address a yields: that of a linked
\* header, that of a header merged away, or bytes that are neither magic.
Magic(a) == IF a \in Blocks THEN hdr[a].magic
            ELSE IF a \in remnant THEN HEAP_MAGIC_FREE ELSE "other"

\* The remnants a write to the bytes lo .. hi-1 damages.
Overwritten(lo, hi) == {r \in remnant : r < hi /\ lo < r + MagicBytes}

NotFreed == [ptr |-> NULL, size |-> 0]

----------------------------------------------------------------------------
(* The steps the handlers are made of, as functions of the header list h. *)

AlignSize(n) == LET up == (n + 3) % Word IN up - (up % 4)

Fits(a, n) == hdr[a].free = 1 /\ hdr[a].size >= n

\* The list is in address order (Tiled), so the first fit in the list is the
\* fit at the lowest address.
FirstFit(a, n) == /\ a \in Blocks /\ Fits(a, n)
                  /\ \A c \in Blocks : c < a => ~Fits(c, n)

\* Mutant of Splits: a block with no room for a new header is split.
Splits_NoRoom(h, b, n) == h[b].size > n
Splits(h, b, n) == h[b].size > n + HeaderSize + MinBlock

\* Mutants of Split: the successor keeps its old prev link; the new block is
\* sized as if its header took no room.
Split_StalePrev(h, b, n) ==
    LET new == b + HeaderSize + n
        linked == [h EXCEPT ![b].size = n, ![b].next = new]
    IN  [a \in DOMAIN h \cup {new} |->
            IF a = new
            THEN [magic |-> HEAP_MAGIC_FREE, size |-> h[b].size - n - HeaderSize,
                  free |-> 1, next |-> h[b].next, prev |-> b]
            ELSE linked[a]]
Split_NoHeader(h, b, n) ==
    LET new == b + HeaderSize + n
        linked == [h EXCEPT ![b].size = n, ![b].next = new]
        relinked == IF h[b].next = NULL THEN linked
                    ELSE [linked EXCEPT ![h[b].next].prev = new]
    IN  [a \in DOMAIN h \cup {new} |->
            IF a = new
            THEN [magic |-> HEAP_MAGIC_FREE, size |-> h[b].size - n,
                  free |-> 1, next |-> h[b].next, prev |-> b]
            ELSE relinked[a]]

\* split_block: block b keeps n bytes, a new free block takes the rest.
Split(h, b, n) ==
    LET new == b + HeaderSize + n
        linked == [h EXCEPT ![b].size = n, ![b].next = new]
        relinked == IF h[b].next = NULL THEN linked
                    ELSE [linked EXCEPT ![h[b].next].prev = new]
    IN  [a \in DOMAIN h \cup {new} |->
            IF a = new
            THEN [magic |-> HEAP_MAGIC_FREE, size |-> h[b].size - n - HeaderSize,
                  free |-> 1, next |-> h[b].next, prev |-> b]
            ELSE relinked[a]]

MarkUsed(h, b) == [h EXCEPT ![b].magic = HEAP_MAGIC, ![b].free = 0]

\* Mutant of MarkFree: the magic is forgotten.
MarkFree_KeepsMagic(h, b) == [h EXCEPT ![b].free = 1]
MarkFree(h, b) == [h EXCEPT ![b].magic = HEAP_MAGIC_FREE, ![b].free = 1]

NextIsFree(h, b) == h[b].next # NULL /\ h[h[b].next].free = 1

PrevIsFree(h, b) == h[b].prev # NULL /\ h[h[b].prev].free = 1

\* merge_blocks, one merge: block a swallows the block after it.  Merging a
\* block into its predecessor is the same step taken at the predecessor.
Absorb(h, a) ==
    LET gone == h[a].next
        wide == [h EXCEPT ![a].size = @ + HeaderSize + h[gone].size,
                          ![a].next = h[gone].next]
        linked == IF h[gone].next = NULL THEN wide
                  ELSE [wide EXCEPT ![h[gone].next].prev = a]
    IN  [c \in DOMAIN h \ {gone} |-> linked[c]]

\* Where heap_end is once block a has swallowed the block after it.
EndAfter(last, h, a) == IF last = h[a].next THEN a ELSE last

\* What kfree subtracts from heap_total_allocated.  Mutant: the size is read
\* after the merge.
ReleasedSize_Merged(b) ==
    IF NextIsFree(hdr, b) THEN hdr[b].size + HeaderSize + hdr[hdr[b].next].size
    ELSE hdr[b].size
ReleasedSize(b) == hdr[b].size

----------------------------------------------------------------------------
(* Actions.  Interrupts are off and the kernel has one thread, so a call   *)
(* runs to its end; unless kernel = "running" nothing runs.                *)

\* kheap_init
Init ==
    /\ hdr = [a \in {0} |-> [magic |-> HEAP_MAGIC_FREE,
                             size |-> HeapSize - HeaderSize,
                             free |-> 1, next |-> NULL, prev |-> NULL]]
    /\ heap_end = 0
    /\ heap_current = 0
    /\ heap_total_free = HeapSize - HeaderSize
    /\ heap_total_allocated = 0
    /\ remnant = {}
    /\ kernel = "running"
    /\ live = [a \in {} |-> [ptr |-> NULL, req |-> 0]]
    /\ last_freed = NotFreed

\* kmalloc once find_free_block has returned b: split, mark used, account.
Take(b, n) ==
    LET cut == Splits(hdr, b, n)
        new == b + HeaderSize + n
        h1  == IF cut THEN Split(hdr, b, n) ELSE hdr
    IN  /\ hdr' = MarkUsed(h1, b)
        /\ heap_end' = IF cut /\ heap_end = b THEN new ELSE heap_end
        /\ heap_total_allocated' = (heap_total_allocated + h1[b].size) % Word
        /\ heap_total_free' =
             (heap_total_free + (IF cut THEN h1[new].size ELSE 0) - h1[b].size)
               % Word

\* find_free_block panics when the free block it finds has another magic.
Checked(b) == IF hdr[b].magic = HEAP_MAGIC_FREE THEN kernel ELSE "HEAP_CORRUPTION"

\* The client's record of a new allocation in block b.
HandOut(b, p, req) ==
    live' = [a \in DOMAIN live \cup {b} |->
                IF a = b THEN [ptr |-> p, req |-> req] ELSE live[a]]

\* The bytes the split wrote its new header to.
NewHeaderBytes(b, n) ==
    IF Splits(hdr, b, n)
    THEN Overwritten(b + HeaderSize + n, b + HeaderSize + n + HeaderSize)
    ELSE {}

Kmalloc(req) ==
    LET n == AlignSize(req) IN
    /\ kernel = "running"
    /\ \E b \in Blocks :
         /\ FirstFit(b, n)
         /\ Take(b, n)
         /\ kernel' = Checked(b)
         /\ remnant' = remnant \ NewHeaderBytes(b, n)
         /\ HandOut(b, DataStart(b), req)
    /\ last_freed' = NotFreed
    /\ UNCHANGED heap_current

\* "kmalloc: Out of memory" is a warning; the caller gets NULL.
KmallocFails(req) ==
    /\ kernel = "running"
    /\ \A b \in Blocks : ~Fits(b, AlignSize(req))
    /\ last_freed' = NotFreed
    /\ UNCHANGED <<heapVars, heap_current, kernel, live>>

\* The mask ~(alignment - 1) clears the low bits of the sum, which is a 32-bit
\* word: alignment is a power of two (CallsAssumption).
AlignUp(addr, alignment) ==
    LET up == (addr + alignment - 1) % Word IN up - (up % alignment)

\* The pointer kmalloc_aligned returns for the data area starting at p.
AlignedPtr(p, alignment) == AlignUp(HeapBase + p + 4, alignment) - HeapBase

\* What it asks kmalloc for.  Mutant: no slack for the rounding.
AlignedTotal_NoSlack(size, alignment) == (size + 4) % Word
AlignedTotal(size, alignment) == (size + alignment + 4) % Word

\* A write to the bytes lo .. hi-1 damages a header of the list h.
HitsHeader(h, lo, hi) == \E a \in DOMAIN h : a < hi /\ lo < a + HeaderSize

\* kmalloc_aligned stores a 4-byte offset just below the pointer it returns.
\* When the sum of size, alignment and 4 wraps around, the block is too small
\* and that is behind its end, where there may be a header.
KmallocAligned(size, alignment) ==
    LET total == AlignedTotal(size, alignment)
        n     == AlignSize(total)
    IN  /\ kernel = "running"
        /\ total # 0
        /\ \E b \in Blocks :
             LET p == AlignedPtr(DataStart(b), alignment) IN
             /\ FirstFit(b, n)
             /\ Take(b, n)
             /\ kernel' = IF Checked(b) = "running" /\ HitsHeader(hdr', p - 4, p)
                          THEN "astray" ELSE Checked(b)
             /\ remnant' = remnant \ (NewHeaderBytes(b, n)
                                        \cup Overwritten(p - 4, p))
             /\ HandOut(b, p, size)
        /\ last_freed' = NotFreed
        /\ UNCHANGED heap_current

\* kfree of a block whose magic is HEAP_MAGIC, with merge_blocks.  The loop
\* that merges forward is taken once; if its condition still held, the value
\* of kernel would be "merging on", which NoCorruption shows never happens.
Release(b) ==
    LET marked == MarkFree(hdr, b)
        fwd    == NextIsFree(marked, b)
        next   == marked[b].next
        h1     == IF fwd THEN Absorb(marked, b) ELSE marked
        end1   == IF fwd THEN EndAfter(heap_end, marked, b) ELSE heap_end
        back   == PrevIsFree(h1, b)
        prev   == h1[b].prev
        h2     == IF back THEN Absorb(h1, prev) ELSE h1
        front  == IF back THEN prev ELSE b
    IN  /\ hdr' = h2
        /\ heap_end' = IF back THEN EndAfter(end1, h1, prev) ELSE end1
        /\ heap_total_allocated' = (heap_total_allocated - ReleasedSize(b)) % Word
        /\ heap_total_free' =
             (heap_total_free - (IF fwd THEN marked[next].size ELSE 0)
                - (IF back THEN h1[prev].size ELSE 0) + h2[front].size) % Word
        /\ remnant' = remnant \cup (Blocks \ DOMAIN h2)
        /\ kernel' = IF \/ fwd /\ marked[next].magic # HEAP_MAGIC_FREE
                        \/ back /\ h1[prev].magic # HEAP_MAGIC_FREE
                     THEN "HEAP_CORRUPTION"
                     ELSE IF NextIsFree(h1, b) THEN "merging on" ELSE kernel
        /\ live' = [a \in DOMAIN live \ {b} |-> live[a]]

\* kfree of a pointer whose header checks out.
Kfree(ptr) ==
    LET b == ptr - HeaderSize IN
    /\ kernel = "running"
    /\ Magic(b) = HEAP_MAGIC
    /\ Release(b)
    /\ last_freed' = [ptr |-> ptr, size |-> hdr[b].size]
    /\ UNCHANGED heap_current

\* kfree of any other pointer panics, and a panic halts the machine.
KfreePanics(ptr) ==
    /\ kernel = "running"
    /\ Magic(ptr - HeaderSize) # HEAP_MAGIC
    /\ kernel' = IF Magic(ptr - HeaderSize) = HEAP_MAGIC_FREE
                 THEN "DOUBLE_FREE" ELSE "INVALID_POINTER"
    /\ UNCHANGED <<heapVars, heap_current, live, last_freed>>

\* ksize: 0 when there is no header in front of the pointer.
Ksize(ptr) == LET b == ptr - HeaderSize IN
              IF Magic(b) = HEAP_MAGIC THEN hdr[b].size ELSE 0

\* kbrk moves heap_current within the arena.
Kbrk(increment) ==
    LET new_brk == (HeapBase + heap_current + increment) % Word IN
    /\ kernel = "running"
    /\ HeapBase <= new_brk /\ new_brk <= HeapBase + HeapSize
    /\ heap_current' = new_brk - HeapBase
    /\ last_freed' = NotFreed
    /\ UNCHANGED <<heapVars, kernel, live>>

\* A client fills the bytes it asked for.  Clients do not forge headers, so
\* all this can do is destroy remnants that lie in them.
ClientWrite(b) ==
    /\ kernel = "running"
    /\ remnant' = remnant \ Overwritten(live[b].ptr, live[b].ptr + live[b].req)
    /\ last_freed' = NotFreed
    /\ UNCHANGED <<hdr, heap_end, heap_total_allocated, heap_total_free,
                   heap_current, kernel, live>>

\* The pointers a client may pass to kfree: those it holds, and stale ones,
\* for which the magic word of a free header is in place.
HeldPtrs  == {live[b].ptr : b \in DOMAIN live}
StalePtrs == {DataStart(a) : a \in {c \in Blocks : hdr[c].free = 1} \cup remnant}

Next ==
    \/ \E req \in Requests : Kmalloc(req) \/ KmallocFails(req)
    \/ \E r \in AlignedRequests : KmallocAligned(r[1], r[2])
    \/ \E ptr \in HeldPtrs : Kfree(ptr)
    \/ \E ptr \in HeldPtrs \cup StalePtrs : KfreePanics(ptr)
    \/ \E increment \in Increments : Kbrk(increment)
    \/ \E b \in DOMAIN live : ClientWrite(b)

Spec == Init /\ [][Next]_vars

----------------------------------------------------------------------------
(* Properties *)

Header == [magic : {HEAP_MAGIC, HEAP_MAGIC_FREE}, size : Nat, free : {0, 1},
           next : Int, prev : Int]

TypeOK ==
    /\ Blocks \subseteq 0 .. HeapSize - HeaderSize
    /\ hdr \in [Blocks -> Header]
    /\ heap_end \in Blocks
    /\ heap_current \in 0 .. HeapSize
    /\ heap_total_allocated \in 0 .. Word - 1
    /\ heap_total_free \in 0 .. Word - 1
    /\ remnant \subseteq 0 .. HeapSize
    /\ kernel \in {"running", "DOUBLE_FREE", "INVALID_POINTER",
                   "HEAP_CORRUPTION", "merging on", "astray"}
    /\ live \in [DOMAIN live -> [ptr : Int, req : Nat]]
    /\ last_freed \in [ptr : Int, size : Nat]

\* The headers tile the arena: each block ends where the next one starts, the
\* last one at heap_limit, the links in both directions say so, and heap_end
\* is the last block.  This is what kfree needs to merge by adding sizes.
TiledList(h) ==
    /\ 0 \in DOMAIN h
    /\ \A a \in DOMAIN h :
         /\ BlockEnd(h, a) <= HeapSize
         /\ IF BlockEnd(h, a) = HeapSize THEN h[a].next = NULL
            ELSE /\ h[a].next = BlockEnd(h, a)
                 /\ h[a].next \in DOMAIN h
                 /\ h[h[a].next].prev = a
         /\ IF a = 0 THEN h[a].prev = NULL
            ELSE h[a].prev \in DOMAIN h /\ BlockEnd(h, h[a].prev) = a
         /\ \A c \in DOMAIN h : a < c => BlockEnd(h, a) <= c
Tiled == TiledList(hdr) /\ BlockEnd(hdr, heap_end) = HeapSize

\* Coalescing is eager: no two neighbouring blocks are ever both free.
Coalesced == \A a \in Blocks : hdr[a].free = 1 => ~NextIsFree(hdr, a)

\* The panics of find_free_block and merge_blocks on a free block with the
\* wrong magic never fire, and the forward merge loop never runs twice.
NoCorruption == kernel \notin {"HEAP_CORRUPTION", "merging on"}

\* Used blocks and allocations correspond, so nothing leaks inside the heap.
UsedIsLive == {a \in Blocks : hdr[a].free = 0} = DOMAIN live

\* Every client owns the bytes it asked for: they lie inside its own block, and
\* the offset below an aligned pointer is stored over no header.
ClientsServed ==
    /\ \A b \in DOMAIN live : /\ DataStart(b) <= live[b].ptr
                              /\ live[b].ptr + live[b].req <= BlockEnd(hdr, b)
    /\ kernel # "astray"

\* Once everything is freed the heap is the single block kheap_init made,
\* whatever the order of the calls: no lasting fragmentation.
WholeWhenEmpty ==
    DOMAIN live = {} => /\ Blocks = {0}
                        /\ hdr[0].size = HeapSize - HeaderSize

\* The block list is sound after any calls, up to one that leads astray: it
\* tiles the arena, free neighbours are merged, merging never meets a corrupt
\* header, and what is in use is what clients hold, down to the empty heap.
BlockListSound ==
    TypeOK /\ Tiled /\ Coalesced /\ NoCorruption /\ UsedIsLive /\ WholeWhenEmpty

\* heap_total_allocated, printed by kheap_print_info, is the sum of what ksize
\* tells the clients of their allocations.
AllocatedAccounting ==
    heap_total_allocated =
        MapThenSumSet(LAMBDA b : Ksize(DataStart(b)), DOMAIN live)

\* Right after a kfree, a second kfree of the same pointer would panic with
\* DOUBLE_FREE, even when merging has unlinked its header.
DoubleFreeCaught ==
    last_freed # NotFreed => Magic(last_freed.ptr - HeaderSize) = HEAP_MAGIC_FREE

\* The bytes just freed, from the pointer to the end of what was its block, lie
\* in the data of one free block: kmalloc can hand them out again.
FreedIsReusable ==
    last_freed # NotFreed =>
        \E a \in Blocks : /\ hdr[a].free = 1
                          /\ DataStart(a) <= last_freed.ptr
                          /\ last_freed.ptr + last_freed.size <= BlockEnd(hdr, a)

\* A block is really free when its kfree returns: a second kfree sees it, and
\* so does kmalloc.
FreedIsFree == DoubleFreeCaught /\ FreedIsReusable

\* No call moves, resizes or writes a header into an allocation that is live
\* before and after it.
AllocationsStable ==
    [][\A b \in DOMAIN live \cap DOMAIN live' :
         /\ live'[b] = live[b]
         /\ hdr'[b].size = hdr[b].size
         /\ \A a \in DOMAIN hdr' \ {b} :
              a + HeaderSize <= b \/ BlockEnd(hdr, b) <= a]_vars

\* The heap implements the allocator of AbstractAlloc, up to a call that leads
\* astray.
Regions == {[lo |-> DataStart(a), hi |-> BlockEnd(hdr, a)] :
               a \in {c \in Blocks : hdr[c].free = 0}}
Abstract == INSTANCE AbstractAlloc
            WITH Limit <- HeapSize, regions <- Regions,
                 halted <- kernel \notin {"running", "astray"}
ImplementsAllocator == Abstract!Spec

(* What the comments of the code say, and the code does not do. *)

\* kmalloc.c:124: the size split_block adds to heap_total_free "will be
\* subtracted when block is marked used", so it is the size of the free blocks.
FreeAccounting ==
    heap_total_free =
        MapThenSumSet(LAMBDA a : hdr[a].size, {a \in Blocks : hdr[a].free = 1})

\* memory.h:112: kfree frees kernel memory, so every pointer handed out has a
\* header in front of it that kfree accepts.
HeldPtrsCanBeFreed == \A ptr \in HeldPtrs : Magic(ptr - HeaderSize) = HEAP_MAGIC

\* memory.h:118: kbrk extends the heap, so the bytes below the break are the
\* caller's and no block of the allocator lies in them.
BreakIsExclusive == \A a \in Blocks : heap_current <= a

=============================================================================
