# AllKfs in TLA+

A verification project for AllKfs, three teaching kernels for i386: `kfs1`
(print to the screen), `kfs2` (GDT, several screens, a shell) and `kfs3` (memory
management), each with a mandatory and a bonus version. The project models all
three: the memory managers of kfs3, the screens and keyboards of every version,
the shells, `kprintf`, the descriptor tables, and the boot that puts these
together. TLC checks the models on small instances; TLAPS proves the results
that hold for every size.

## The system

| Part | State | Operations | Who calls it | Module |
|---|---|---|---|---|
| Physical memory manager, `kfs3/*/kernel/memory/pmm.c` | bitmap of pages, `pmm_used_pages` | `pmm_init`, `pmm_alloc_page`, `pmm_free_page` | `vmalloc`, `vbrk`, page tables | `Pmm` |
| Paging, `paging.c` | page directory, page tables | `paging_init`, `paging_enable`, map, unmap, look up | `vmalloc`, `vfree`, `vbrk` | `Kernel`, `Vmm` |
| Virtual memory manager, `vmm.c` | region list, region pool, break | `vmalloc`, `vfree`, `vsize`, `vbrk` | kernel code, `test_memory` | `Vmm` |
| Kernel heap, `kmalloc.c` | block list with headers in the heap itself, totals, break | `kmalloc`, `kmalloc_aligned`, `kfree`, `ksize`, `kbrk` | kernel code, shell | `KHeap` |
| Screens of kfs3 bonus, `utils/screen.c` | cell buffers, cursor, row counters, scroll offsets, video memory | print, delete, clear, scroll, switch | everything | `Screens` |
| Screens and shell of kfs2 bonus, `utils/screen.c`, `scroll.c`, `kernel.c` | the same, with blanks of two colours | the same, and the commands | keyboard loop | `Kfs2` |
| Screens and keyboard of kfs1 bonus, `utils/keyboard.c`, `scroll.c`, `screen.c` | modifier flags, counters of the screens | poll, scroll, switch, type, delete | `main`, last call | `Kfs1` |
| Screens of the mandatory parts, `utils/screen.c` | one display, cursor | print, new line, clear | `main`, `kernel_panic` | `Console` |
| `kprintf` and the other number functions, `printf/srcs`, `utils/str.c` | what is left of the format, the count | convert and print | everything in kfs1 and kfs2, `shell.c` | `Printf`, `Numbers` |
| Shell of kfs3 bonus, `shell/shell.c` | list of test allocations | read a command back from the screen, run it | keyboard loop | `Screens`, `Kernel` |
| GDT, `gdt.c` | table at 0x800 | set up, print | `boot.asm`, `main`, shell | `Gdt`, `Kernel` |
| Boot, `boot.asm`, `kernel.c` | segment registers, stack, page 0 | screen, pmm, paging, vmm, heap, in this order; `test_memory` | GRUB | `Kernel` |
| Panic, `panic.c` | none | print, halt; or warn and go on | all managers | `Console`, and a final state of the others |

They interact by plain calls and by shared memory nobody owns alone: physical
pages are taken by the page manager, page tables, `vmalloc` and the heap;
virtual addresses from `KERNEL_HEAP_START` by `vmalloc` and `vbrk`; the bytes of
the heap by `kmalloc` and `kbrk`; page 0 by the descriptors and the page
directory; the screen buffer by whoever prints, and read back by the shell.

**What is hard here.** There is one processor, interrupts are switched off at
the first instruction (`cli`, `boot.asm:37`) and never on again, and the
keyboard is polled. The only actor beside the processor is the keyboard
controller, which delivers the bytes of a key one at a time (`Kfs1`). Nothing is
persistent. What goes wrong in such code is the long sequence of legal
calls: neighbours freed in an unlucky order, a pool that is used up by splits, a
call that fails half way, a counter that drifts from what it counts, sums that
wrap near 2^32, and two parts that each believe a range is theirs. The hazards
of `PROJECT.json` list these places line by line.

**Fairness.** Three specifications state it, each for the code alone and never
for the user, who need not press a key.

- `Kfs1`: `WF_vars(Poll)`, as `keyboard_handler` polls in an endless loop that
  nothing can interrupt, and `WF_vars(Deliver)`, as the controller passes on what
  the keyboard sends. `AllRead`: if the user stops, everything typed is read.
- `Printf`: `WF_vars(Next)`, as `kprintf` runs until it returns. `Returns`.
- `Kernel`: `WF_vars(Execute)`, as the processor runs unless it is halted.
  `EveryRoutineEnds`: boot comes to the prompt or halts, `memtest` comes back.

In the other modules a handler is one step, so there is nothing to be fair to.
All configurations say `CHECK_DEADLOCK FALSE`: after a panic or `halt`, with all
memory handed out, or with the bound on typing reached, the system may really
stop.

## Modules

| Module | What it is |
|---|---|
| `AbstractAlloc` | what an allocator promises: disjoint ranges, handed out, given back, never moved |
| `KHeap` | `kmalloc.c`, on byte offsets from `heap_base` |
| `KHeapProofs` | theorems about `KHeap` |
| `PagePool` | what a page manager promises: each usable page has at most one owner |
| `BootLayout` | the pure part of booting: the bitmap `pmm_init` computes from a memory map, the areas it reserves, the identity map, where the heap goes |
| `Pmm` | `pmm.c` on top of `BootLayout` |
| `PmmProofs` | theorems about both |
| `Vmm` | `vmm.c` with the page tables of `paging.c` on a pool of frames |
| `Scrollback` | what a screen promises: a text of rows that loses only its oldest |
| `Screens` | kfs3 bonus: `screen.c`, driven by the keyboard loop and the command reader of the shell |
| `Console` | the displays of the mandatory parts and what `kernel_panic` prints on one |
| `Kfs1` | kfs1 bonus: the keyboard driver byte by byte, and the counters it drives |
| `Kfs2` | kfs2 bonus: screens, prompt, command reader and commands |
| `Numbers` | the conversions between numbers and text |
| `Printf` | one call of `kprintf`, with a format that is taken apart as the code does |
| `Gdt` | segment descriptors, as `gdt.c` writes them and as the processor reads them |
| `Kernel` | boot of kfs2 and kfs3, and the commands of the shell on the heap |
| `KernelProofs` | theorems about `Gdt`, the boot of `Kernel`, and the heap and the pointers of its shell |
| `VmmProofs`, `Kfs1Proofs`, `Kfs2Proofs`, `ScreensProofs` | theorems about `Vmm`, `Kfs1`, `Kfs2`, `Screens` |
| `NatFacts` | lemmas the proofs share: division, induction on sets of numbers and on finite sets, least elements, what folds and sums compute |
| `MC...` | instances for TLC, one for each of the modules that are run |

`KHeap` and `Vmm` implement `AbstractAlloc`, `Pmm` implements `PagePool`,
`Screens` and `Console` implement `Scrollback`, each by `INSTANCE ... WITH` and a
run that has the abstract `Spec` as a property. `Pmm` builds on `BootLayout`,
`Printf` on `Numbers`, `Kernel` on `Gdt`. `Kernel` composes with the heap: it has
the heap's variables, instantiates `KHeap` on them, and its `malloc`, `free` and
`memtest` are steps of `KHeap`. `Vmm` does not compose with `Pmm`'s bitmap but
with what `Pmm` is shown to be: a pool that gives out the lowest free frame, and
each frame to one owner.

A property that a run checks is often a conjunction of named parts, which the
proofs and this text refer to by their own names: `BlockListSound` (KHeap),
`PoolSound` (Pmm), `RegionsSound` and `FramesSound` (Vmm), `ScreenSound`
(Screens), `RowsCounted`, `DisplayFollows` and `NoStuckModifier` (Kfs1),
`DisplaySound` (Kfs2), `PrintsFormat` (Printf), `LowMemorySound` and `ShellSound`
(Kernel), `PrintingSound` (Console). The type invariant `TypeOK` of a module is a
property of its own or the first of these parts.

Definitions whose name ends in `_Something` after the name of another
definition (`Split_StalePrev`) are mutants: the other definition with a
plausible bug. `PROJECT.json` pairs each property with a mutant that breaks it;
no run uses them otherwise.

### KHeap

A block is a header of `HeaderSize` bytes and its data. `hdr` maps the address
of a header to its fields; `heap_end`, the two totals and the
break are variables as in the code. Each call is one action: `Kmalloc`
(`FirstFit`, `Split`, `MarkUsed`), `KmallocFails`, `KmallocAligned`, `Kfree`
(`Release` with both merges), `KfreePanics`, `Kbrk`. Merged headers are not
erased in the code either: they stay as `remnant`, so a double free finds what
it finds in memory. Clients write their data (`ClientWrite`) and are assumed not
to forge headers. `find_free_block` may find a free block with another magic:
that is `Checked`, and the kernel panics. `kmalloc_aligned` writes an offset below
the pointer it returns; when the sum of its arguments wraps around, that may lie
in a header behind the block (`HitsHeader`) and the kernel is `"astray"`. The loop
of `merge_blocks` that continues merging forward is
taken once; `NoCorruption` shows that there is never a second block to merge.

### BootLayout and Pmm

`BootLayout` computes bitmap and counter from the multiboot information as
`pmm_init` does: all bits set, cleared for the pages of available entries, set
again for kernel image, bitmap and the first megabyte. What memory is *usable*
is defined beside it on bytes, without bitmap, rounding or order. A bit that
`pmm_init` clears behind the bitmap's last word is in `Behind`. `Pmm` then
allocates the first free bit, word by word, and frees with its two warnings.
Frees are of held pages, of pages that are free already, of NULL and of an
address behind the memory. `pmm_free_page` would also take a page that the kernel
keeps; no caller passes one, and the model has no such step.
A page is cleared through its physical address while paging is on, so an
allocation outside the identity map is a page fault: `kernel = "PAGE_FAULT"`.

### Vmm

`vmm_regions` is the region list as a sequence, `pte` and `page_directory` the
present entries, `out` the frames that are handed out. The loop that backs pages
is computed in closed form: `PageTurn` and `TableTurn` say after how many frames
a page, or the page table it needs first, gets its own. When the frames run out
at a page, `VmallocRollsBack` undoes what `vmalloc` undoes; when they run out at
a page table, `paging_map_page` panics. `vbrk` has its own actions. `api` says
which of the two interfaces a behaviour uses. Frames are identity mapped
throughout: what happens beyond that is the subject of `MCPmm_fault.cfg`. Other
code that calls the page manager directly, as `test_memory` of `kernel.c` does,
is `OtherTakes` and `OtherReturns`. Two history variables follow what a `vbrk`
that fails half way leaves behind: `stranded` has the pages above the break that
it has mapped, and `lost` the frames of pages that were mapped a second time.

### Screens

`tty` is a record of the globals of `screen.c` and of the position in the VGA
cursor registers; `stock` is flat, as in memory. Printing a string, a command's
output and the following prompt is one step, as no key is read in between. A
cell is blank, the green space that ends a prompt, or a letter. Commands are
abstracted to the texts they print (`Outputs`) and `clear`. `Init` is computed
by the model's own operators from the calls `main` makes. When an index leaves
the screen (`CursorUnderflows`, `EnterUnderruns`) the kernel is `"astray"` and
the behaviour ends, since what happens next depends on the linker.

### Console

The three mandatory parts print on one display. Those of kfs1 and kfs2 have no
bound in their code and rely on what their `main` prints; kfs3 scrolls when the
cursor leaves the display. The steps are what the programs do: `main` of kfs1
centres its text, `main` of kfs2 prints its report row by row, kfs3 prints
letters, new lines and strings, and may panic at any time. The display of kfs3
is the end of a text, so `Scrollback` is implemented by a mapping (`Text`) that
needs no history: the abstract text is read off the display and loses its oldest
row whenever the display does.

### Kfs1

Here the interesting part is the keyboard. `queue` holds the bytes the keyboard
sends, `port` the one that can be read, and `Poll` is one turn of
`keyboard_handler`. An extended code is two bytes and the handler reads the
second without asking whether it has arrived (`ReadExtended`); when it has not,
the late byte is taken for another key, and `torn` records of which modifiers an
extended press was read that way. Keys are control, both shifts, and the extended
codes: arrows, right control, and the shift that a keyboard sends by itself around
the codes of its arrow keys, which no hand holds (`Holds`). Of a screen
there is the cursor, the row counter, the scroll offset and the row drawn at the
top; the cells are left to `Kfs2`, where the same functions are a step further.
`phantoms` counts the rows that were counted without the cursor entering them.

### Kfs2

As `Screens`, from kfs2's own code: rows are padded with white spaces, every
screen has a prompt, backspace counts rows down again, and a deletion that ends
the scrolling does not redraw. The shell's commands are the words of `Commands`;
the machine may halt, reset or go off only by them (`StopsWhenTold`).
`stale`, `typed`, `spoiled` and `phantoms` are history variables.

### Numbers and Printf

`Numbers` has the conversions as recursive functions and operators on sequences
of characters, `Printf` the loop of `kprintf`: plain text up to the next `%`, one
specifier with its argument, an error, or the end. `taken` records what was
printed for each argument, and `Replaced` is the reference: the format with each
directive replaced, defined without the loop. `va_start` writes through a pointer
that has no value; `arg` says what it happens to point to.

### Gdt and Kernel

A program is a sequence of calls (`Boot`), taken from its `start` and `main`;
`Execute` runs the call at `pc`. `low` is page 0, one word per directory entry,
where the descriptor table and the page directory both lie: `page_directory` is
never given a value. `memtest` is a routine of the same kind, whose calls are
interleaved with nothing but leave their pointers in `locals`. The heap starts as
`kheap_init` leaves it and is used through `KHeap`'s actions. `TestPages` stands
for the parts of `test_memory` that use `vmalloc` and physical pages.

## Runs

| Run | Instance | Shows |
|---|---|---|
| `heap_calls` | arena of 104 bytes, real header and minimum sizes (17 and 16), requests of 1 and 45 bytes, an aligned one of 3 at 16, one `kbrk` of the whole arena | the block list tiles the arena in both directions, free neighbours are merged, the total in use is exact, double frees are caught right after the first free, freed bytes are at once in one free block, every client owns the bytes it asked for (no request wraps around), `AbstractAlloc` is implemented |
| `pmm_pages` | four memory maps: unaligned entries, holes, a bitmap of two words, reserved regions | under allocations and frees of held, free and missing pages, clients get exactly the usable memory, used pages are boot plus held, the counter is exact, failure means nothing is left, `PagePool` is implemented |
| `pmm_heap` | | *violated*: the heap is pages 3 and 4; page 3 is the bitmap's and reserved, and page 4, the second page of the heap, is the first that is handed out |
| `vmm_calls` | 6 pages of addresses, 5 region entries, 6 frames, tables of 3 pages; `vmalloc` and `vfree`, or `vbrk` with four increments beside other code that may take a frame | regions tile the range and have the size asked for while entries last, frames have one owner, `vmalloc` and `vfree` lose none, also by rollback, and a failing `vbrk` only those of stranded pages that are mapped again; exactly the live pages are mapped, or those below the break and the stranded ones, all below the break is backed, live allocations keep their frames, `AbstractAlloc` is implemented |
| `term_screens` | two screens of 2 by 3 cells, buffers of 3 rows, two letters, up to 3 typed at a prompt | `Scrollback` is implemented, row counter and caret agree with the cursor, commands are what was typed, screens do not touch each other |
| `term_edit` | one screen, buffer of 5 rows, all keys, up to 10 typed | the screen shows the buffer, backspace erases only what was typed, a command read within the buffer is what was typed and not deleted |
| `kfs1` | two screens of 2 by 2 cells, buffers of 4 rows, up to 2 scrolls; three users: one plays with the modifiers, one types on both screens, one edits and scrolls | a row counter is ahead of its cursor by the rows that control characters count, the display starts where it should or one row too low after a deletion, a modifier sticks only when an extended press of it was read in two halves, hidden screens keep counters and cursor, all input is read |
| `kfs2` | two screens of 3 by 3 cells, buffers of 4 rows, up to 4 typed; three users: one gives commands, one types on both screens, one edits and scrolls | the command run is the one typed, the machine stops only when told to, backspace stays behind the prompt, display, caret and row counter follow the buffer |
| `printf` | words of two hexadecimal digits, every format of up to three characters over eleven, and those of four that can hold two directives | each format is printed with its arguments in place, counted, and refused only if malformed; every number reads back as itself; every call returns |
| `kernel` | all four programs, directory of 18 entries, heap of 2600 bytes, a list of 3 allocations, the real sizes of `memtest`, up to 6 commands | flat segments throughout, a sound directory, descriptors of kfs2 that stand; a list of allocations that agrees with the heap, no panic, `memtest` leaves no trace even when it fails half way, every routine ends |
| `kernel_gdt` | the same | *violated*: `print_gdt` of kfs3 shows seven empty descriptors, because `paging_init` has cleared the page they lie in |
| `console` | 4 by 3 cells, reports of 3 rows, panics of 1 to 2 rows and 2 more | nothing is written behind the display, a panic is shown in full wherever the cursor was, `Scrollback` is implemented |

**Why the bounds are enough.** In each instance every resource runs out: arena,
frames, regions, page tables, rows, the list of allocations. Three to four
blocks are enough for a block with two free, two used or mixed neighbours, which
is all `split_block` and `merge_blocks` look at. The Pmm instances put boundaries
inside a page and inside a bitmap word. In Vmm a call can fail before, at and
after a page table. In the screens the buffers scroll after a few rows, so the
row counter reaches its limit in every order with the other keys, and in `kfs1`
it passes it until the cursor leaves the buffer. In `console` the report has one
row less than the display and a panic exactly fills it, as in the code (24 and 17
+ 5 + 2 of 25 rows). Two hexadecimal digits have the smallest and largest
signed number, numbers of one to three decimal digits, and all carries. In
`kernel` `memtest` runs out of heap once a few blocks are allocated.
`MaxCommands` is needed because `heap_total_free` drifts (see below) and would
otherwise never repeat. `Word` is 2^32 scaled down: larger than every sum of the
passing runs, so nothing wraps there but where the code wraps too:
`Rows - VGA_ROWS` on a screen that is not full, and the cursor of `kfs1` below 0.

### Divergences known beside the runs

Stated in the modules and shown by the configuration named, not part of the
regular runs. A configuration with several properties checks one; the others
are there as comments, since TLC stops at the first violation.

| Definition | Configuration | What happens |
|---|---|---|
| `FreeAccounting` (KHeap) | `MCKHeap_divergences.cfg` | `heap_total_free` counts the rest of a split block twice (`kmalloc.c:124`, `:153`) |
| `ClientsServed` (KHeap) | `MCKHeap_huge.cfg` | a request within 3 bytes of 2^32 gets a block of 0 bytes (`kmalloc.c:38`) |
| `BreakIsExclusive` (KHeap) | `MCKHeap_divergences.cfg` | `kbrk` hands out bytes the block list lives in (`kmalloc.c:294`) |
| `HeldPtrsCanBeFreed` (KHeap) | `MCKHeap_divergences.cfg` | a pointer of `kmalloc_aligned` cannot be freed, `kfree` panics (`kmalloc.c:179`) |
| `HeapSkipsBitmap` (Pmm) | `MCPmm_bitmap.cfg` | with `kernel_end` inside a page the first heap header lies on the bitmap (`kmalloc.c:50`, `pmm.c:72`) |
| `WritesStayInBitmap` (Pmm) | `MCPmm_bitmap.cfg` | when the whole pages fill the bitmap's words and the map has the last page whole, its bit is cleared in the word behind the bitmap (`pmm.c:98`) |
| `NoPageFault` (Pmm) | `MCPmm_fault.cfg` | allocation faults once the mapped pages are gone: `make run` gives QEMU 512 MB, the map covers 16 (`pmm.c:155`) |
| `FramesAccounted` (Vmm) | `MCVmm_leak.cfg` | a `vbrk` that fails half way leaves its pages mapped; the next maps them again and their frames are lost (`vmm.c:243`) |
| `SpaceIsFound` (Vmm) | `MCVmm_space.cfg` | the rollback of `vmalloc` leaves its region split, and free addresses are not found (`vmm.c:132`) |
| `ServedInFull` (Vmm) | `MCVmm_huge.cfg` | a request within a page of 2^32 gets a region of 0 pages (`vmm.c:95`) |
| `SizeIsAsked` (Vmm) | `MCVmm_exhausted.cfg` | after the pool of entries is used up, an allocation gets a whole region (`vmm.c:33`) |
| `BreakIsExclusive` (Vmm) | `MCVmm_shared.cfg` | `vbrk` and `vmalloc` hand out the same addresses (`vmm.c:226`) |
| `DisplayUpdated` (Kfs1) | `MCKfs1_divergences.cfg` | a deletion that ends the scrolling does not redraw, and the display stays one row too low (`kfs1/bonus`, `screen.c:171`) |
| `ModifiersEnd` (Kfs1) | `MCKfs1_divergences.cfg` | an extended control or shift whose second byte comes late is taken for the key itself, and sticks (`keyboard.c:134`) |
| `ErasesOnlyTyped` (Screens) | `MCScreens_prompt.cfg` | on screens 2 and 3, before their first prompt, backspace deletes the banner (`kernel.c:22`) |
| `CommandInBuffer` (Screens) | `MCScreens_command.cfg` | the cursor is driven to cell 0 and a command is read in front of the buffer (`shell.c:15`) |
| `VariablesKept` (Printf) | `MCPrintf_divergences.cfg` | `va_start` writes through a pointer without a value (`ft_printf.h:50`) |
| `ReturnsLength` (Printf) | `MCPrintf_divergences.cfg` | `kprintf` counts one too many for `%x` of `LONG_MIN` (`ft_choice.c:123`) |
| `HeapIsReserved` (Kernel) | `MCKernel_heap.cfg` | `vmalloc` in `test_memory` clears the first header of the heap (`kmalloc.c:52`) |

`ScreenShowsStock` of Kfs2 is also stated beside the runs: a deletion that ends
the scrolling leaves the display one row down (`kfs2/bonus`, `screen.c:135`);
`DisplaySound` says exactly when.

Met while modelling and part of the models as they are: `malloc` reads its size
as hexadecimal, the first report of kfs2 mandatory is written from address 0 on,
`merge_blocks` of the bonus part has no magic check, and scancode 0x3A is looked
up one past the end of the tables (any character, in `Chars` of Kfs1).

## Proofs

`tlapm` checks seven modules of theorems (`KHeapProofs`, `PmmProofs`,
`VmmProofs`, `KernelProofs`, `Kfs1Proofs`, `Kfs2Proofs`, `ScreensProofs`) and
the lemmas they share (`NatFacts`). A theorem holds for every value of the
constants that satisfies the named assumptions of the model's module. Where a
theorem needs more, its statement says so, and a configuration shows what
happens otherwise.

| Hypothesis | Of | Why it is needed |
|---|---|---|
| `NoWrap`: no request wraps around when it is rounded up | `EveryRequestServed`, all of `VmmProofs` | `MCKHeap_huge.cfg`, `MCVmm_huge.cfg`: a block of 0 bytes |
| `OneInterface`: `vbrk` and `vmalloc` are not used together | `FramesAccountedFor`, `ContentsSurvive` | `MCVmm_shared.cfg`: `vfree` unmaps pages below the break |
| `MapIsConsistent`: the entries of the memory map are disjoint | `FreeMemoryIsExact` | the counter takes an overlap off twice |
| usable memory is identity mapped | `NoFaultInMappedMemory` | `MCPmm_fault.cfg` |
| `StaysHome`: one screen, or no ctrl key | `BackspaceStopsAtPrompt`, `PromptIsKept`, `CommandsStayInBuffer` | `MCScreens_prompt.cfg`: screens 2 and 3 have no prompt at first |
| `NoEditing`: no backspace, tab or escape | `ScreensAreSound`, `CommandsAreTyped`, `CommandsStayInBuffer`, `ScreensImplementScrollback` | they let the row counter run ahead of the cursor, `MCScreens_command.cfg` |
| `Rows >= 2`, `VGA_ROWS >= 2` | `ScreensAreSound`, `DisplayIsSound` | on a single row nothing is left to see when it is full, and the caret goes to its second cell |
| `CommandSize <= Top` | `CommandsAreTyped`, `CommandsStayInBuffer` | a command longer than the buffer less its last row is not kept; the code has 80 and 99 * 80 |

**KHeap** (`KHeapProofs`). The inductive invariant is the conjunction of the
type invariant, `HeapOK` (the header fields of every block, its links and what
precedes it), `BlockEnd(heap_end) = HeapSize`, `Coalesced`, `NoCorruption` and
`UsedIsLive`. Tiling alone is not inductive: that a merge leaves correct links
needs to know that the neighbour's neighbour is in use, which is `Coalesced`, and
that `kfree` is called on a block needs `UsedIsLive`. One lemma per list
operation (split, merge forward, merge backward) carries the argument; each call
is then one step. From it follow `TypeCorrectness`, `HeapIsTiled`,
`EagerCoalescing`, `ChecksNeverFire` (the corruption checks in `merge_blocks`),
`NothingLeaks`, `EmptyHeapIsWhole`, together `BlockListIsSound`;
`AllocationsNeverMove`, `HeapImplementsAllocator`, and `EveryRequestServed`.
`FreedBlocksAreFree` adds that, until the next call, the bytes just freed lie in
the data of one free block and the header in front of the pointer reads as freed,
so that a second `kfree` of it is caught and the bytes can be handed out again. `AllocatedIsAccounted` is about a sum: `heap_total_allocated`
is the sum of the sizes of the blocks in use. `NatFacts` has what it takes, that
a sum over a finite set changes by one summand when a block comes, goes or
changes, and that sums of disjoint ranges stay below `HeapSize`, hence below
`Word`: the total never wraps.

**Pmm** (`PmmProofs`). The invariant is the type invariant, `BitmapIsBootPlusHeld`
(used bits are those of boot plus those held) and that nothing is held before
boot. The weight is in the lemma `BootFreesUsable`: for every memory map, what
`pmm_init` leaves free is exactly the usable memory, which is defined on bytes;
its proof is arithmetic on rounding up and down. `CounterExact` does the same for
`pmm_used_pages`. From these follow `TypeCorrectness` (of the bits in the bitmap;
about the word behind it see `MCPmm_bitmap.cfg`), `NoPageLost`,
`ExactlyUsableMemory`, `OutOfMemoryTrue`, together `PoolIsSound`;
`PmmImplementsPagePool`, `FreeMemoryIsExact` and `NoFaultInMappedMemory`.
`KernelFits`, that image and bitmap lie in memory, is an assumption of
`BootLayout`.

**Vmm** (`VmmProofs`). `IInv` has three parts. `RegionsInv`: the region list
tiles the addresses, is no longer than the pool has entries, and its allocated
regions are the live allocations, of the size asked for while entries last.
`StateInv` has the types. `FramesInv` (`Exclusive`): no frame is twice in the page
tables, in the directory or with others, and all that are there have been handed
out. Frames are where the work is. The loop over the pages of a call is computed
in closed form (`PageTurn`, `TableTurn`, the k-th free frame), so the proof shows
that the k-th free frame exists for every k below the supply, that different
turns take different frames, and that a rollback returns what the pages took and
keeps what the page tables took. From `IInv` follow `RegionListIsSound`,
`AllocationsServedInFull`, `FramesAreExclusive` and `VmmImplementsAllocator`.
`UseInv` adds what frames are used for. With `vmalloc`, none is lost and exactly the
pages of live allocations are mapped. With `vbrk`, the pages mapped are those below
the break and those stranded, and the frames handed out are those in use and those
of stranded pages that were mapped again. It needs `OneInterface`, and gives `FramesAccountedFor` and `ContentsSurvive`, that no call changes a
frame of an allocation that lives on, also when the call fails half way.

**Gdt and Kernel** (`KernelProofs`). `DescriptorsEncode`: what `gdt_set_entry`
spreads over six fields the processor reads back, for every base and limit.
For the boot the invariant `IInv` says where a routine stands (`Position`), that
without paging the table stands once it is set up (`TableKept`), that from
`paging_init` on the directory is clean (`DirectoryKept`), and `SegmentsFlat`. It
needs lemmas on the code itself: which call stands at which place of each
program, that nothing after `paging_init` loads a segment, and that `memtest` and
the tests of `main` have none of the calls that touch page 0. From it follow
`AlwaysFlat`, `TableAlwaysStands`, `DirectoryAlwaysSound`, together
`LowMemoryIsSound`. `KernelAssumption` asks that the table lies in the directory
above the identity mapping and below the heap's entry, as 0x800 and
`KERNEL_HEAP_START` do.

**Shell commands and the heap** (`KernelProofs`). `ShellInv` says how the pointers
of the kernel's own code and the heap belong together. `PendingInv`: a pointer of
the running routine that is still to be freed is a block in use, held once.
`StackInv`: the allocations of the shell are a stack at the start of the heap, the
blocks of `memtest` lie behind them in the order of their addresses, and what is
free lies behind all of them but for one gap, which `memtest` leaves in front of
the blocks it still holds. `TraceInv`: the list `memtest` started from has the
same test allocations. Lemmas on the code say that every pointer is allocated
once and freed once and later; those on the heap are taken from `KHeapProofs`,
instantiated on `Kernel`'s variables. Two lists with the same blocks in use and no
gap are the same list (`ListDetermined`), which gives `MemtestRestores`. The others
are `PanicsOnlyAtMagic` (no command makes `kmalloc` or `kfree` panic; both panics
reach `cpu`), `PointersMatchHeap` (between any two calls an allocation is in
`test_ptrs` or still to be freed by `memtest`, and in one of them only),
`ShellNeverFragments`, `KernelTyped` and `ShellIsSound`. `KernelAssumption` has the
heap's layout assumption as well, and that the sizes of `memtest` are positive.

**Kfs1** (`Kfs1Proofs`). Two halves that share only which screen is in front. On
the globals, `ScreenInv`: the display is drawn from the row the counters say or,
after a deletion has ended the scrolling, one row too far down (`Follows`), the
scroll offset stays in its bound, and the row counter is the cursor's row plus the
rows counted without the cursor entering them (`Counted`); each operation of
`screen.c` has a lemma, on lemmas about the row and column of a cell. On the bytes, `KeyInv`: `Shape` says which bytes can be in
flight (one key's code at a time, the two bytes of an extended code next to each
other unless torn), `ShiftInv` and `CtrlInv` that a modifier that is on, or will be
once these bytes are read, belongs to a key that is held, unless an extended press
of that very modifier has been `torn`. `UpInv` connects the
two: arrow-up is read in the state it was pressed for. Results:
`RowCountersFollow`, `DisplayFollowsRows`, `ModifiersAreReleased`,
`HiddenScreensKept`, which is about row counters, scroll offsets and cursors.
`KeyAssumption` says that 0xE0 is no key's own code.

**Screens** (`ScreensProofs`). A *page* is one screen by itself: cells, cursor, row
counter. Each operation of `screen.c` on the shared globals is shown to be an
operation on the page in front that leaves the other pages alone, although the
cells are one flat array and the cursor one variable. `Good` (every page's cursor
in the buffer and no row below the counter, the video memory equal to its window
of the buffer) is kept by every operation and, as printing a string is a fold, by
strings of any length; so it holds from `main` on, whatever is pressed:
`TypeCorrectness`, `VideoShowsBuffer`, `ScreensDoNotMix`. `Holds` says that the
cells in front of the cursor hold what was typed since the last prompt and that
the prompt's mark is just before it, as far as the buffer, whose row counter is at
its limit then, has kept them. It is inductive for all keys: printing and tab move
these cells together by a row or not at all (`Shifts`), and backspace takes the
last character from both sides. With it `OnlyBannersAreErased`,
`BackspaceStopsAtPrompt`, `EditedCommandsAreTyped` and `PromptIsKept`, also for a cursor that
tab and backspace have driven astray. A page that nothing is deleted from is
*straight*: counter and cursor agree, nothing is behind the cursor. On straight
pages the buffer is full only when the cursor is in its last row, so a command is
found before the first cell, which gives `CommandsAreTyped`,
`CommandsStayInBuffer` and `ScreensAreSound`.
A straight page is *neat* when its last row has no blank in front of the cursor.
The text of a neat page (`PageText`) gains a character or a row exactly as
`Scrollback` says, whether the row is padded, is filled by the character, or makes
the buffer scroll. Both sides print a string by a fold, so they are compared
character by character; `init_screens` greets the screens one after the other,
each by itself. That is `ScreensImplementScrollback`.

**Kfs2** (`Kfs2Proofs`). Pages as for `Screens`, but here `vga_newline` pads a row
with spaces before it counts it, a deletion counts rows down again, and a deletion that ends the scrolling draws nothing. `Good` says that every
page is in order, that the video memory is the window of the page in front unless
it is `stale`, and that the caret `Follows` the cursor; it is kept by every
operation of `screen.c` and of the keyboard loop, and by strings of any length.
`init_screens` goes round the screens three times, each a fold that is compared
visit by visit with the page it works on. `InOrder`, the invariant, adds what the
history knows: the rows a page has counted ahead of its cursor are its `phantoms`,
and `Holds` finds what was typed in the cells in front of the cursor and the
prompt's mark in the cell before those, as far as the buffer, which is then full,
has kept them. Every screen has a prompt from the start, so that no hypothesis on
the keys is needed; the control characters count a row or scroll but write no
cell. A deletion stops at the mark, which is no letter; when the prompt has scrolled out,
`Holds` says that what stands in front of the cursor has been typed. Results:
`TypeCorrectness`, `VideoShowsBuffer`, `RowsAreCounted`, together with the caret
`DisplayIsSound`; `BackspaceStopsAtPrompt`, `ScreensDoNotMix`, `CommandsAreTyped`,
and `MachineStopsWhenTold`, which rests on the latter and on the command buffer
being longer than every command (`Kfs2Assumption`).

**Only model-checked**: everything about `Console` and `Printf`. For
`Console` that is work left to do, see the plan. Beyond the prover: the three liveness properties (`AllRead`, `Returns`,
`EveryRoutineEnds`), and what the conversions of `Numbers` compute for every word,
since they are recursive operators, for which the prover has no arithmetic.

## Not modelled

Headers, linker scripts, build and GRUB configuration. Colours, except those
that tell a prompt or a blank apart, and the wording of what is printed. What
`kernel_panic` of kfs3 bonus does to its screens: it resets the cursor but not
the row counter, so on a scrolled screen its message is not shown. Commands that
only print (`help`, `stack`, `meminfo` and the like) are no steps of `Kernel`.
The hardware steps of paging (CR3, CR0, TLB) are one step each, straight line
code without a second actor.

## Plan

1. Proofs about `Console`, with the lemmas on pages.
2. `kernel_panic` on the screens of kfs3 bonus.
3. `PhysicalRegions`: which regions boot writes, in order, and which of them
   overlap.
