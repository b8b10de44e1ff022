-------------------------------- MODULE Kernel --------------------------------
(***************************************************************************)
(* From the boot loader to the prompt, and what the shell's commands do to *)
(* memory: boot.asm, kernel.c, gdt.c and paging_init of kfs2 and kfs3, and *)
(* the commands of kfs3's shell.c on top of the heap of KHeap.             *)
(*                                                                         *)
(* A program is the sequence of calls that its start and main make (Boot). *)
(* pc is the position in the code of routine: in boot, or in the command   *)
(* memtest.  After the end of boot a program without a shell halts, one    *)
(* with a shell waits for commands.                                        *)
(*                                                                         *)
(* low is the physical page 0, where the descriptor table of gdt.c and the *)
(* page directory of paging.c both lie: kfs3 never gives its pointer       *)
(* page_directory a value.  A word of it is junk, zero, a descriptor (one  *)
(* word here), a present entry of the directory, or text: kfs2 mandatory   *)
(* prints before it gives vga_buffer a value.                              *)
(*                                                                         *)
(* before is a history variable: the block list when memtest started.      *)
(***************************************************************************)
EXTENDS Gdt, Sequences, FiniteSets

CONSTANTS
    Programs,       \* the kernels considered
    HeaderSize, MinBlock, HeapSize, HeapBase, Word,   \* as in KHeap
    DirectorySize,  \* 1024, the entries of the page directory
    GdtSlot,        \* the entry of the directory that is at GDT_ADDRESS
    ReportSlots,    \* the entries that the report of gdt_init would cover
    KernelTables,   \* 4: paging_init fills 4 page tables
    HeapStartSlot,  \* the entry for KERNEL_HEAP_START
    TableBytes,     \* 4 MB: the bytes one entry of the directory maps
    PageSize,
    FirstFrames,    \* where the first free page may be, in pages of the heap
    MaxTests,       \* 10, the length of test_ptrs
    MemtestSizes,   \* the array sizes of memory_test_allocations
    MallocSizes,    \* the sizes that users type after malloc
    DumpAddresses, DumpSizes,  \* what they type after memdump
    MaxCommands     \* bound on the commands typed

KFS3 == {"kfs3_mandatory", "kfs3_bonus"}

ASSUME KernelAssumption ==
    /\ Programs \subseteq KFS3 \cup {"kfs2_mandatory", "kfs2_bonus"}
    /\ HeaderSize \in Nat \ {0} /\ MinBlock \in Nat /\ HeapBase \in Nat \ {0}
    /\ HeapSize \in Nat /\ HeaderSize <= HeapSize
    /\ Word \in Nat /\ HeapBase + HeapSize + HeaderSize + MinBlock < Word
    /\ DirectorySize \in Nat /\ KernelTables \in Nat \ {0}
    /\ GdtSlot \in Nat /\ GdtSlot >= KernelTables
    /\ ReportSlots \in Nat /\ ReportSlots <= GdtSlot
    /\ HeapStartSlot \in Nat /\ HeapStartSlot > GdtSlot + 6
    /\ HeapStartSlot < DirectorySize
    /\ TableBytes \in Nat \ {0} /\ PageSize \in Nat \ {0}
    /\ FirstFrames \subseteq Nat /\ MaxTests \in Nat \ {0}
    /\ MemtestSizes \in Seq(Nat \ {0})
    /\ MallocSizes \subseteq Nat
    /\ DumpAddresses \subseteq Nat /\ DumpSizes \subseteq Nat
    /\ MaxCommands \in Nat

Slots == 0 .. DirectorySize - 1

VARIABLES
    program, magic_ok,    \* whether the loader passed MULTIBOOT_MAGIC
    first_frame,          \* the first free page, counted from the heap's
    cpu, routine, pc,
    low, segments, paging_enabled,
    locals,               \* the pointers that the running routine holds
    test_ptrs, test_count,
    commands,             \* how many have been typed
    shown,                \* the access bytes that print_gdt printed last
    before,
    hdr, heap_end, heap_current, heap_total_allocated, heap_total_free,
    remnant, kernel, live, last_freed   \* the heap's

heapVars == <<hdr, heap_end, heap_current, heap_total_allocated,
              heap_total_free, remnant, kernel, live, last_freed>>
machineVars == <<low, segments, paging_enabled>>
shellVars == <<test_ptrs, test_count, commands>>
bootVars == <<program, magic_ok, first_frame>>
vars == <<bootVars, cpu, routine, pc, machineVars, locals, shellVars, shown,
          before, heapVars>>

Heap == INSTANCE KHeap WITH Requests <- {1}, AlignedRequests <- {},
                            Increments <- {}
NULL == Heap!NULL

----------------------------------------------------------------------------
(* The programs *)

Call(op, slot, size) == [op |-> op, slot |-> slot, size |-> size]
Do(op) == Call(op, 0, 0)

\* test_memory of kernel.c; the last call stands for the parts on vmalloc and
\* on physical pages.
test_memory ==
    <<Call("kmalloc", 1, 100), Call("kmalloc", 2, 256), Call("kmalloc", 3, 1024),
      Call("write", 1, 6), Call("kfree", 2, 0), Call("kmalloc", 4, 128),
      Call("kfree", 1, 0), Call("kfree", 3, 0), Call("kfree", 4, 0),
      Do("test_pages")>>

\* memory_test_allocations.  Mutant: the last pointer is not freed.
memtest_ForgetsOne ==
    [i \in 1 .. Len(MemtestSizes) |-> Call("kmalloc", i, MemtestSizes[i])]
      \o [i \in 1 .. Len(MemtestSizes) - 1 |-> Call("kfree", i, 0)]
      \o <<Do("return")>>
memtest ==
    [i \in 1 .. Len(MemtestSizes) |-> Call("kmalloc", i, MemtestSizes[i])]
      \o [i \in 1 .. Len(MemtestSizes) |-> Call("kfree", i, 0)]
      \o <<Do("return")>>

Start(p) == CASE p \in KFS3 -> <<Do("setup_gdt"), Do("load_segments")>>
              [] p = "kfs2_mandatory" -> <<Do("setup_gdt")>>
              [] p = "kfs2_bonus" -> <<>>

\* main of kfs3.
Managers == <<Do("check_magic"), Do("pmm_init"), Do("paging_init"),
              Do("paging_enable"), Do("vmm_init"), Do("kheap_init")>>

Main(p) == CASE p = "kfs3_mandatory" ->
                  Managers \o <<Do("print_gdt")>> \o test_memory \o <<Do("halt")>>
             [] p = "kfs3_bonus" -> Managers
             [] p = "kfs2_mandatory" ->
                  <<Do("setup_gdt"), Do("print_gdt"), Do("halt")>>
             [] p = "kfs2_bonus" -> <<Do("setup_gdt")>>

Boot == [p \in Programs |-> Start(p) \o Main(p)]
Code == IF routine = "memtest" THEN memtest ELSE Boot[program]
Calls(op) == cpu = "running" /\ pc <= Len(Code) /\ Code[pc].op = op
This == Code[pc]
HasShell == program = "kfs3_bonus"
AtPrompt == cpu = "running" /\ HasShell /\ pc > Len(Code)

\* A command is typed at the prompt.
Typed == AtPrompt /\ commands < MaxCommands /\ commands' = commands + 1

----------------------------------------------------------------------------
(* What is in memory *)

gran == IF program \in KFS3 THEN 207 ELSE 192    \* 0xCF and 0xC0

\* The descriptor the processor finds in entry i of the table.
Descriptor(i) == IF low[GdtSlot + i] = "gdt" THEN Descriptors(gran)[i]
                 ELSE gdt_set_entry(0, 0, 0, 0)

\* The access byte print_gdt reads there.
AccessByte(i) == Descriptor(i).access

\* Whether an access to address a succeeds: the directory is at physical 0.
Mapped(a) == paging_enabled =>
    a \div TableBytes \in Slots /\ low[a \div TableBytes] = "table"

----------------------------------------------------------------------------
(* The initial state, which a reset returns to.  The multiboot loader      *)
(* enters the kernel with flat segments of its own and paging off.         *)

Registers == {"cs", "ds", "ss"}
GrubSegments == [r \in Registers |->
                    gdt_set_entry(0, MaxLimit, IF r = "cs" THEN 154 ELSE 146, 192)]
NoPointers(n) == [i \in 1 .. n |-> NULL]
NoBlocks == [a \in {} |-> NULL]
MaxLocals == IF Len(MemtestSizes) > 4 THEN Len(MemtestSizes) ELSE 4

EmptyPage == [s \in Slots |-> "junk"]

Init ==
    /\ program \in Programs /\ magic_ok \in BOOLEAN
    /\ first_frame \in FirstFrames
    /\ cpu = "running" /\ routine = "boot" /\ pc = 1
    /\ low = EmptyPage /\ segments = GrubSegments /\ paging_enabled = FALSE
    /\ locals = NoPointers(MaxLocals)
    /\ test_ptrs = NoPointers(MaxTests) /\ test_count = 0 /\ commands = 0
    /\ shown = <<>> /\ before = NoBlocks
    /\ hdr = NoBlocks /\ heap_end = NULL /\ heap_current = 0
    /\ heap_total_allocated = 0 /\ heap_total_free = 0 /\ remnant = {}
    /\ kernel = "running" /\ live = NoBlocks /\ last_freed = Heap!NotFreed

----------------------------------------------------------------------------
(* The calls *)

Returns == pc' = pc + 1

\* gdt_init of kfs2 ends with a report.  In the mandatory part the boot code
\* calls it before main sets vga_buffer, and the report goes to address 0.
ReportAstray == program = "kfs2_mandatory" /\ pc = 1

\* Where the first report ends.
ReportEnd == ReportSlots

\* setup_gdt and gdt_init write the seven descriptors.
SetupGdt ==
    /\ Calls("setup_gdt")
    /\ low' = [s \in Slots |-> IF ReportAstray /\ s < ReportEnd THEN "text"
                              ELSE IF s - GdtSlot \in Entries THEN "gdt"
                              ELSE low[s]]
    /\ Returns
    /\ UNCHANGED <<bootVars, cpu, routine, segments, paging_enabled, locals,
                   shellVars, shown, before, heapVars>>

\* boot.asm: lgdt, the far jump to 0x08, and 0x10 and 0x18 for the data and
\* the stack.
LoadSegments ==
    /\ Calls("load_segments")
    /\ segments' = [cs |-> Descriptor(1), ds |-> Descriptor(2), ss |-> Descriptor(3)]
    /\ Returns
    /\ UNCHANGED <<bootVars, cpu, routine, low, paging_enabled, locals,
                   shellVars, shown, before, heapVars>>

\* What kernel_panic leaves: a message on the screen, and a processor that
\* halts with interrupts off.
kernel_panic == "panicked"

\* main of kfs3 panics when it was not started by a multiboot loader.
CheckMagic ==
    /\ Calls("check_magic")
    /\ cpu' = IF magic_ok THEN cpu ELSE kernel_panic
    /\ Returns
    /\ UNCHANGED <<bootVars, routine, machineVars, locals, shellVars, shown,
                   before, heapVars>>

\* paging_init clears the directory and enters the kernel's page tables.
\* Mutant: it is not cleared.
PagingInit_NotCleared ==
    /\ Calls("paging_init")
    /\ low' = [s \in Slots |-> IF s < KernelTables THEN "table" ELSE low[s]]
    /\ Returns
    /\ UNCHANGED <<bootVars, cpu, routine, segments, paging_enabled, locals,
                   shellVars, shown, before, heapVars>>
PagingInit ==
    /\ Calls("paging_init")
    /\ low' = [s \in Slots |-> IF s < KernelTables THEN "table" ELSE "zero"]
    /\ Returns
    /\ UNCHANGED <<bootVars, cpu, routine, segments, paging_enabled, locals,
                   shellVars, shown, before, heapVars>>

PagingEnable ==
    /\ Calls("paging_enable")
    /\ paging_enabled' = TRUE
    /\ Returns
    /\ UNCHANGED <<bootVars, cpu, routine, low, segments, locals, shellVars,
                   shown, before, heapVars>>

\* pmm_init and vmm_init leave this state alone: they are in Pmm and Vmm.
OtherManagers ==
    /\ Calls("pmm_init") \/ Calls("vmm_init")
    /\ Returns
    /\ UNCHANGED <<bootVars, cpu, routine, machineVars, locals, shellVars,
                   shown, before, heapVars>>

KheapInit ==
    /\ Calls("kheap_init")
    /\ hdr' = [a \in {0} |-> [magic |-> Heap!HEAP_MAGIC_FREE,
                              size |-> HeapSize - HeaderSize,
                              free |-> 1, next |-> NULL, prev |-> NULL]]
    /\ heap_end' = 0
    /\ heap_total_free' = HeapSize - HeaderSize
    /\ Returns
    /\ UNCHANGED <<bootVars, cpu, routine, machineVars, locals, shellVars,
                   shown, before, heap_current, heap_total_allocated, remnant,
                   kernel, live, last_freed>>

PrintGdt ==
    /\ Calls("print_gdt")
    /\ shown' = [i \in 1 .. 7 |-> AccessByte(i - 1)]
    /\ Returns
    /\ UNCHANGED <<bootVars, cpu, routine, machineVars, locals, shellVars,
                   before, heapVars>>

\* What kmalloc returns: the data of the first block that fits, or NULL.
Fit(size) == {b \in Heap!Blocks : Heap!FirstFit(b, Heap!AlignSize(size))}
Allocated(size) == IF Fit(size) = {} THEN NULL
                   ELSE Heap!DataStart(CHOOSE b \in Fit(size) : TRUE)

\* A panic of the heap's halts the machine.
HeapPanics == cpu' = IF kernel' = "running" THEN cpu ELSE kernel_panic

\* kmalloc panics when the free block it finds is corrupt.
kmalloc(size) ==
    /\ IF Fit(size) = {} THEN Heap!KmallocFails(size) ELSE Heap!Kmalloc(size)
    /\ HeapPanics

\* kfree ignores NULL, and panics for a pointer it does not know.
kfree(ptr) ==
    /\ IF ptr = NULL THEN UNCHANGED heapVars
       ELSE IF Heap!Magic(ptr - HeaderSize) = Heap!HEAP_MAGIC THEN Heap!Kfree(ptr)
       ELSE Heap!KfreePanics(ptr)
    /\ HeapPanics

\* The calls of test_memory and of memory_test_allocations.
CallsKmalloc ==
    /\ Calls("kmalloc")
    /\ kmalloc(This.size)
    /\ locals' = [locals EXCEPT ![This.slot] = Allocated(This.size)]
    /\ Returns
    /\ UNCHANGED <<bootVars, routine, machineVars, shellVars, shown,
                   before>>

\* Mutant: the loop over the pointers does not get past one that is NULL.
CallsKfree_StuckAtNull ==
    /\ Calls("kfree")
    /\ kfree(locals[This.slot])
    /\ pc' = IF locals[This.slot] = NULL THEN pc ELSE pc + 1
    /\ UNCHANGED <<bootVars, routine, machineVars, locals, shellVars, shown,
                   before>>
CallsKfree ==
    /\ Calls("kfree")
    /\ kfree(locals[This.slot])
    /\ Returns
    /\ UNCHANGED <<bootVars, routine, machineVars, locals, shellVars, shown,
                   before>>

\* The text written to ptr1, which the heap does not see unless it lands on
\* the header of a block merged away.
CallsWrite ==
    /\ Calls("write")
    /\ remnant' = remnant \ Heap!Overwritten(locals[This.slot],
                                             locals[This.slot] + This.size)
    /\ Returns
    /\ UNCHANGED <<bootVars, cpu, routine, machineVars, locals, shellVars,
                   shown, before, hdr, heap_end, heap_current,
                   heap_total_allocated, heap_total_free, kernel, live,
                   last_freed>>

\* The second half of test_memory takes four pages, and a page table is one of
\* them: pmm_alloc_page clears what it hands out, and the heap's own pages are
\* among the free ones.
PagesTaken == 4
Cleared(a) == /\ first_frame * PageSize <= a
              /\ a < (first_frame + PagesTaken) * PageSize
TestPages ==
    /\ Calls("test_pages")
    /\ low' = [low EXCEPT ![HeapStartSlot] = "table"]
    /\ hdr' = [a \in Heap!Blocks |->
                  IF Cleared(a) THEN [magic |-> "zero", size |-> 0, free |-> 0,
                                      next |-> 0, prev |-> 0]
                  ELSE hdr[a]]
    /\ remnant' = {a \in remnant : ~Cleared(a)}
    /\ Returns
    /\ UNCHANGED <<bootVars, cpu, routine, segments, paging_enabled, locals,
                   shellVars, shown, before, heap_end, heap_current,
                   heap_total_allocated, heap_total_free, kernel, live,
                   last_freed>>

Halts ==
    /\ Calls("halt")
    /\ cpu' = "halted"
    /\ Returns
    /\ UNCHANGED <<bootVars, routine, machineVars, locals, shellVars, shown,
                   before, heapVars>>

\* memtest is over, and with it its array of pointers.
MemtestReturns ==
    /\ Calls("return")
    /\ routine' = "boot"
    /\ pc' = Len(Boot[program]) + 1
    /\ locals' = NoPointers(MaxLocals)
    /\ before' = NoBlocks
    /\ UNCHANGED <<bootVars, cpu, machineVars, shellVars, shown, heapVars>>

----------------------------------------------------------------------------
(* The commands of the shell of kfs3 that change something *)

\* malloc: the size is hexadecimal, and nothing or 0 means 64 bytes.  Mutant:
\* a failed allocation is entered too.
Malloc_CountsFailure(typed) ==
    LET size == IF typed = 0 THEN 64 ELSE typed IN
    /\ Typed
    /\ test_count < MaxTests
    /\ kmalloc(size)
    /\ test_ptrs' = [test_ptrs EXCEPT ![test_count + 1] = Allocated(size)]
    /\ test_count' = test_count + 1
    /\ UNCHANGED <<bootVars, routine, pc, machineVars, locals, shown, before>>
Malloc(typed) ==
    LET size == IF typed = 0 THEN 64 ELSE typed
        ptr  == Allocated(size)
    IN
    /\ Typed
    /\ test_count < MaxTests
    /\ kmalloc(size)
    /\ test_ptrs' = IF ptr = NULL THEN test_ptrs
                    ELSE [test_ptrs EXCEPT ![test_count + 1] = ptr]
    /\ test_count' = IF ptr = NULL THEN test_count ELSE test_count + 1
    /\ UNCHANGED <<bootVars, routine, pc, machineVars, locals, shown, before>>

\* free gives the newest allocation back.  Mutant: the count is left
\* alone.
Free_KeepsCount ==
    /\ Typed
    /\ test_count > 0
    /\ kfree(test_ptrs[test_count])
    /\ UNCHANGED <<bootVars, routine, pc, machineVars, locals, test_ptrs,
                   test_count, shown, before>>
Free ==
    /\ Typed
    /\ test_count > 0
    /\ kfree(test_ptrs[test_count])
    /\ test_ptrs' = [test_ptrs EXCEPT ![test_count] = NULL]
    /\ test_count' = test_count - 1
    /\ UNCHANGED <<bootVars, routine, pc, machineVars, locals, shown, before>>

Memtest ==
    /\ Typed
    /\ routine' = "memtest"
    /\ pc' = 1
    /\ before' = hdr
    /\ UNCHANGED <<bootVars, cpu, machineVars, locals, test_ptrs, test_count,
                   shown, heapVars>>

\* memdump reads at most 256 bytes.  There are no interrupt handlers, so a
\* page fault ends in a reset of the machine.
Dumped(typed) == IF typed = 0 THEN 64 ELSE IF typed > 256 THEN 256 ELSE typed
Memdump(addr, typed) ==
    /\ Typed
    /\ addr # 0
    /\ cpu' = IF Mapped(addr) /\ Mapped(addr + Dumped(typed) - 1) THEN cpu
              ELSE "faulted"
    /\ UNCHANGED <<bootVars, routine, pc, machineVars, locals, test_ptrs,
                   test_count, shown, before, heapVars>>

GdtCommand ==
    /\ Typed
    /\ shown' = [i \in 1 .. 7 |-> AccessByte(i - 1)]
    /\ UNCHANGED <<bootVars, cpu, routine, pc, machineVars, locals, test_ptrs,
                   test_count, before, heapVars>>

Halt ==
    /\ Typed
    /\ cpu' = "halted"
    /\ UNCHANGED <<bootVars, routine, pc, machineVars, locals, test_ptrs,
                   test_count, shown, before, heapVars>>

\* reboot pulses the reset line: everything is loaded and started again.
Reboot ==
    /\ Typed
    /\ pc' = 1
    /\ low' = EmptyPage /\ segments' = GrubSegments /\ paging_enabled' = FALSE
    /\ test_ptrs' = NoPointers(MaxTests) /\ test_count' = 0
    /\ shown' = <<>>
    /\ hdr' = NoBlocks /\ heap_end' = NULL
    /\ heap_total_allocated' = 0 /\ heap_total_free' = 0 /\ remnant' = {}
    /\ live' = NoBlocks /\ last_freed' = Heap!NotFreed
    /\ UNCHANGED <<bootVars, cpu, routine, locals, before, heap_current, kernel>>

\* The port shutdown writes to turns QEMU off and is nothing elsewhere.
Shutdown ==
    /\ Typed
    /\ cpu' \in {"running", "off"}
    /\ UNCHANGED <<bootVars, routine, pc, machineVars, locals, test_ptrs,
                   test_count, shown, before, heapVars>>

Execute ==
    \/ SetupGdt \/ LoadSegments \/ CheckMagic \/ PagingInit \/ PagingEnable
    \/ OtherManagers \/ KheapInit \/ PrintGdt
    \/ CallsKmalloc \/ CallsKfree \/ CallsWrite \/ TestPages \/ Halts
    \/ MemtestReturns
Command ==
    \/ \E size \in MallocSizes : Malloc(size)
    \/ Free \/ Memtest
    \/ \E addr \in DumpAddresses, size \in DumpSizes : Memdump(addr, size)
    \/ GdtCommand \/ Halt \/ Reboot \/ Shutdown
Next == Execute \/ Command

\* The processor runs while it is not halted; nobody has to type a command.
Spec == Init /\ [][Next]_vars /\ WF_vars(Execute)

----------------------------------------------------------------------------
(* Properties *)

HeapReady == hdr # NoBlocks
Distinct(f, S) == \A i, j \in S : i # j => f[i] # f[j]

TypeOK ==
    /\ program \in Programs /\ magic_ok \in BOOLEAN /\ first_frame \in FirstFrames
    /\ cpu \in {"running", "halted", "panicked", "faulted", "off"}
    /\ routine \in {"boot", "memtest"} /\ pc \in 1 .. Len(Code) + 1
    /\ low \in [Slots -> {"junk", "zero", "text", "gdt", "table"}]
    /\ DOMAIN segments = Registers /\ paging_enabled \in BOOLEAN
    /\ locals \in [1 .. MaxLocals -> NULL .. HeapSize]
    /\ test_ptrs \in [1 .. MaxTests -> NULL .. HeapSize]
    /\ test_count \in 0 .. MaxTests /\ commands \in 0 .. MaxCommands
    /\ shown \in {<<>>} \cup [1 .. 7 -> 0 .. 255]
    /\ HeapReady /\ (\A a \in Heap!Blocks : hdr[a].magic # "zero") => Heap!TypeOK

\* The processor always runs on flat ring 0 segments, although paging_init
\* destroys the table they were loaded from: no register is loaded after it.
SegmentsFlat == /\ FlatCode(segments["cs"])
                /\ FlatData(segments["ds"]) /\ FlatData(segments["ss"])

\* Without paging the table stays as it was set up, although kfs2 mandatory
\* prints over the page it lies in.
TableStands ==
    program \notin KFS3 /\ pc > 1 =>
        \A i \in Entries : low[GdtSlot + i] = "gdt"

\* While paging is on, the directory holds page tables and nothing else:
\* neither what the firmware left in page 0 nor a descriptor is taken for one.
DirectorySound ==
    paging_enabled => /\ \A s \in Slots : low[s] \in {"zero", "table"}
                      /\ \A s \in 0 .. KernelTables - 1 : low[s] = "table"

\* The processor's tables can be relied on, although boot puts the page
\* directory over the descriptors and prints at address 0.
LowMemorySound == SegmentsFlat /\ TableStands /\ DirectorySound

\* The entries of test_ptrs in use, and those of memtest's array that hold an
\* allocation not freed yet: memtest's first half fills entry after entry, its
\* second half frees entry after entry.
Held == {i \in DOMAIN test_ptrs : i <= test_count}
MemtestHeld ==
    {i \in 1 .. Len(MemtestSizes) : /\ routine = "memtest" /\ locals[i] # NULL
                                    /\ i < pc /\ pc <= Len(MemtestSizes) + i}

\* The list of test allocations and the pointers memtest still holds are,
\* without repetition, the allocations of the heap: none is lost and none is
\* in two places.
PointersAreAllocations ==
    HasShell =>
      /\ Distinct(test_ptrs, Held) /\ Distinct(locals, MemtestHeld)
      /\ \A i \in DOMAIN test_ptrs : i \in Held <=> test_ptrs[i] # NULL
      /\ \A i \in Held, j \in MemtestHeld : test_ptrs[i] # locals[j]
      /\ {test_ptrs[i] : i \in Held} \cup {locals[j] : j \in MemtestHeld}
           = Heap!HeldPtrs

\* No sequence of commands makes the heap panic, neither kmalloc for a corrupt
\* free block nor kfree for a pointer it does not know: the only panic is that
\* of a kernel that was not started by a multiboot loader.
OnlyMagicPanics == cpu = "panicked" => ~magic_ok

\* Since the newest allocation is freed first, the shell never fragments the
\* heap: at the prompt at most one block is free.
NeverFragmented ==
    AtPrompt => Cardinality({a \in Heap!Blocks : hdr[a].free = 1}) <= 1

\* The shell's own list and the heap agree in any mix of malloc, free, memtest
\* and memdump.
ShellSound == TypeOK /\ PointersAreAllocations /\ NeverFragmented

\* memtest leaves the block list as it found it, also when the heap is so full
\* that some of its allocations fail.
MemtestLeavesNoTrace == [][MemtestReturns => hdr' = before]_vars

\* Every routine that is entered is left: boot comes to the prompt or halts,
\* and memtest comes back to the prompt.
EveryRoutineEnds ==
    []<>(pc > Len(Code) \/ cpu # "running")

(* What the comments of the code say, and the code does not do. *)

\* kfs3/mandatory/kernel/utils/gdt.c:28: the descriptors have these access
\* bytes, so print_gdt shows them.
GdtIsShown == shown # <<>> => \A i \in Entries : shown[i + 1] = Access[i]

\* kmalloc.c:52: 4 MB are reserved for the heap, so nobody else clears them.
HeapIsReserved == HeapReady => Heap!Tiled

=============================================================================
