----------------------------- MODULE KernelProofs -----------------------------
(***************************************************************************)
(* Theorems about the descriptors of Gdt and about the boot of Kernel, for *)
(* every size of page directory, heap and list of tests; and about the     *)
(* calls that boot, memtest and the commands of the shell make on the      *)
(* heap, for every heap, every list of memtest sizes and every sizes typed.*)
(***************************************************************************)
EXTENDS Kernel, FiniteSetTheorems, TLAPS

----------------------------------------------------------------------------
(* Descriptors *)

\* gdt_set_entry spreads the base over three fields and the limit over two;
\* the processor puts every 32-bit base and 20-bit limit together again.
THEOREM DescriptorsEncode ==
    ASSUME NEW base \in Nat, base < 65536 * 65536,
           NEW limit \in Nat, limit <= MaxLimit, NEW access, NEW flags \in Nat
    PROVE  LET e == gdt_set_entry(base, limit, access, flags) IN
             get_base_address(e) = base /\ Limit(e) = limit
  <1> DEFINE e == gdt_set_entry(base, limit, access, flags)
  <1>1. get_base_address(e) = base
    BY DEF gdt_set_entry, get_base_address
  <1>2. Limit(e) = limit
    <2> DEFINE high == limit \div 65536
               k    == (flags \div 16) % 16
    <2>1. /\ high \in 0 .. 15 /\ k \in 0 .. 15
          /\ limit = (limit % 65536) + high * 65536
      <3>1. limit \in Nat /\ limit < 16 * 65536 /\ flags \in Nat
        BY DEF MaxLimit
      <3>2. high \in 0 .. 15 /\ limit = (limit % 65536) + high * 65536
        <4>1. high \in Nat /\ high * 65536 <= limit
          BY <3>1
        <4> QED BY <3>1, <4>1
      <3>3. k \in 0 .. 15
        <4>1. flags \div 16 \in Nat
          BY <3>1
        <4> QED BY <4>1
      <3> QED BY <3>2, <3>3
    <2>2. Limit(e) = (limit % 65536) + (((high % 16) + 16 * k) % 16) * 65536
      BY DEF gdt_set_entry, Limit
    <2> HIDE DEF high, k
    <2>3. ((high % 16) + 16 * k) % 16 = high
      BY <2>1
    <2> QED BY <2>1, <2>2, <2>3
  <1> QED BY <1>1, <1>2

\* Entries 1 to 3 of the table are flat ring 0 segments, with the flags 0xC0
\* and 0xCF, and so are those the loader leaves.
LEMMA KernelDescriptors ==
    ASSUME NEW flags \in {192, 207}
    PROVE  /\ FlatCode(Descriptors(flags)[1])
           /\ FlatData(Descriptors(flags)[2]) /\ FlatData(Descriptors(flags)[3])
  <1>1. \A a \in {154, 146} : Flat(gdt_set_entry(0, MaxLimit, a, flags))
    BY DEF Flat, gdt_set_entry, get_base_address, Limit, MaxLimit, InPages,
           Is32Bit, Present, Ring, IsSegment, Bit
  <1>2. Executable(gdt_set_entry(0, MaxLimit, 154, flags))
    BY DEF Executable, Bit, gdt_set_entry
  <1>3. LET e == gdt_set_entry(0, MaxLimit, 146, flags) IN
          ~Executable(e) /\ Writable(e)
    BY DEF Executable, Writable, Bit, gdt_set_entry
  <1>4. /\ Descriptors(flags)[1] = gdt_set_entry(0, MaxLimit, 154, flags)
        /\ Descriptors(flags)[2] = gdt_set_entry(0, MaxLimit, 146, flags)
        /\ Descriptors(flags)[3] = gdt_set_entry(0, MaxLimit, 146, flags)
    <2>1. Access[1] = 154 /\ Access[2] = 146 /\ Access[3] = 146
      BY DEF Access, Entries
    <2> QED BY <2>1 DEF Descriptors, Entries
  <1> QED BY <1>1, <1>2, <1>3, <1>4 DEF FlatCode, FlatData

LEMMA LoaderSegments ==
    /\ FlatCode(GrubSegments["cs"])
    /\ FlatData(GrubSegments["ds"]) /\ FlatData(GrubSegments["ss"])
  <1>1. /\ GrubSegments["cs"] = Descriptors(192)[1]
        /\ GrubSegments["ds"] = Descriptors(192)[2]
        /\ GrubSegments["ss"] = Descriptors(192)[3]
    BY DEF GrubSegments, Registers, Descriptors, Entries, Access
  <1> QED BY <1>1, KernelDescriptors

----------------------------------------------------------------------------
(* The code of boot and of memtest: which call stands where. *)

Ops == {"setup_gdt", "load_segments", "check_magic", "pmm_init", "paging_init",
        "paging_enable", "vmm_init", "kheap_init", "print_gdt", "kmalloc",
        "kfree", "write", "test_pages", "halt", "return"}
CallRecords == [op : Ops, slot : Nat, size : Nat]
Starting == {"setup_gdt", "load_segments", "paging_init", "paging_enable",
             "return"}

LEMMA CallsAreRecords ==
    /\ \A op \in Ops, slot, size \in Nat :
         Call(op, slot, size) \in CallRecords /\ Call(op, slot, size).op = op
    /\ \A op \in Ops : Do(op) \in CallRecords /\ Do(op).op = op
  BY DEF Call, Do, CallRecords

Quiet(s) == s \in Seq(CallRecords) /\ \A i \in 1 .. Len(s) : s[i].op \notin Starting

\* In main of kfs3, paging_init is call 3 and paging_enable call 4.
PagingInMain(s) ==
    /\ s \in Seq(CallRecords) /\ Len(s) >= 6
    /\ s[3].op = "paging_init" /\ s[4].op = "paging_enable"
    /\ \A i \in 1 .. Len(s) \ {3, 4} : s[i].op \notin Starting
    /\ \A i \in 1 .. 4 : s[i].op # "test_pages"

LEMMA Concatenated ==
    ASSUME NEW s \in Seq(CallRecords), NEW t \in Seq(CallRecords)
    PROVE  /\ s \o t \in Seq(CallRecords) /\ Len(s \o t) = Len(s) + Len(t)
           /\ \A i \in 1 .. Len(s) : (s \o t)[i] = s[i]
           /\ \A i \in Len(s) + 1 .. Len(s) + Len(t) :
                /\ (s \o t)[i] = t[i - Len(s)]
                /\ i - Len(s) \in 1 .. Len(t)
  OBVIOUS

LEMMA QuietAfterMain ==
    ASSUME NEW s, PagingInMain(s), NEW t, Quiet(t)
    PROVE  PagingInMain(s \o t)
  <1>1. s \in Seq(CallRecords) /\ t \in Seq(CallRecords) /\ Len(s) \in Nat
        /\ Len(t) \in Nat /\ Len(s) >= 6
    BY DEF PagingInMain, Quiet
  <1> QED BY <1>1, Concatenated DEF PagingInMain, Quiet

LEMMA ManagersPaging == PagingInMain(Managers)
  <1>1. Managers \in Seq(CallRecords) /\ Len(Managers) = 6
    BY CallsAreRecords DEF Managers, Ops
  <1>2. /\ Managers[3].op = "paging_init" /\ Managers[4].op = "paging_enable"
        /\ Managers[1].op = "check_magic" /\ Managers[2].op = "pmm_init"
        /\ Managers[5].op = "vmm_init" /\ Managers[6].op = "kheap_init"
    BY CallsAreRecords DEF Managers, Ops
  <1>3. \A i \in 1 .. 6 \ {3, 4} : i \in {1, 2, 5, 6}
    OBVIOUS
  <1>4. \A i \in 1 .. 4 : i \in {1, 2, 3, 4}
    OBVIOUS
  <1> QED BY <1>1, <1>2, <1>3, <1>4 DEF PagingInMain, Starting

LEMMA TestsQuiet ==
    /\ Quiet(<<Do("print_gdt")>>) /\ Quiet(<<Do("halt")>>)
    /\ Quiet(test_memory)
  <1>1. \A op \in {"print_gdt", "halt"} : Quiet(<<Do(op)>>)
    BY CallsAreRecords DEF Quiet, Ops, Starting
  <1>2. Quiet(test_memory)
    <2> DEFINE M(i, n) == Call("kmalloc", i, n)
               F(i) == Call("kfree", i, 0)
               W == Call("write", 1, 6)
               P == Do("test_pages")
    <2>a. /\ \A i, n \in Nat : M(i, n) \in CallRecords /\ M(i, n).op = "kmalloc"
          /\ \A i \in Nat : F(i) \in CallRecords /\ F(i).op = "kfree"
          /\ W \in CallRecords /\ W.op = "write"
          /\ P \in CallRecords /\ P.op = "test_pages"
      BY CallsAreRecords DEF Ops
    <2>b. test_memory = <<M(1, 100), M(2, 256), M(3, 1024), W, F(2), M(4, 128),
                          F(1), F(3), F(4), P>>
      BY DEF test_memory
    <2> HIDE DEF M, F, W, P
    <2>1. test_memory \in Seq(CallRecords) /\ Len(test_memory) = 10
      BY <2>a, <2>b
    <2>2. /\ test_memory[1].op = "kmalloc" /\ test_memory[2].op = "kmalloc"
          /\ test_memory[3].op = "kmalloc" /\ test_memory[6].op = "kmalloc"
          /\ test_memory[4].op = "write" /\ test_memory[10].op = "test_pages"
      BY <2>a, <2>b
    <2>3. /\ test_memory[5].op = "kfree" /\ test_memory[7].op = "kfree"
          /\ test_memory[8].op = "kfree" /\ test_memory[9].op = "kfree"
      BY <2>a, <2>b
    <2>4. \A i \in 1 .. 10 : i \in {1, 2, 3, 6} \cup {5, 7, 8, 9} \cup {4, 10}
      OBVIOUS
    <2> QED BY <2>1, <2>2, <2>3, <2>4 DEF Quiet, Starting
  <1> QED BY <1>1, <1>2

\* kfs3 sets the table up first, loads the segments next, and enters its page
\* tables before it turns paging on.
Kfs3Code(s) ==
    /\ Len(s) \in Nat /\ Len(s) >= 8
    /\ \A i \in 1 .. Len(s) :
         /\ i = 1 <=> s[i].op = "setup_gdt"
         /\ i = 2 <=> s[i].op = "load_segments"
         /\ i = 5 <=> s[i].op = "paging_init"
         /\ i = 6 <=> s[i].op = "paging_enable"
         /\ s[i].op # "return"
         /\ i <= 6 => s[i].op # "test_pages"

LEMMA BootOfKfs3 ==
    ASSUME NEW p \in Programs, p \in KFS3
    PROVE  Kfs3Code(Boot[p])
  <1>1. PagingInMain(Main(p))
    <2>1. CASE p = "kfs3_mandatory"
      <3>1. Main(p) = Managers \o <<Do("print_gdt")>> \o test_memory \o <<Do("halt")>>
        BY <2>1 DEF Main
      <3> QED BY <3>1, ManagersPaging, TestsQuiet, QuietAfterMain
    <2>2. CASE p = "kfs3_bonus"
      BY <2>2, ManagersPaging DEF Main
    <2> QED BY <2>1, <2>2 DEF KFS3
  <1> DEFINE S == <<Do("setup_gdt"), Do("load_segments")>>
  <1>2. Boot[p] = S \o Main(p)
    BY DEF Boot, Start, KFS3
  <1>3. /\ S \in Seq(CallRecords) /\ Len(S) = 2
        /\ S[1].op = "setup_gdt" /\ S[2].op = "load_segments"
    BY CallsAreRecords DEF Ops
  <1>4. Main(p) \in Seq(CallRecords) /\ Len(Main(p)) \in Nat /\ Len(Main(p)) >= 6
    BY <1>1 DEF PagingInMain
  <1> HIDE DEF S
  <1> DEFINE b == S \o Main(p)
  <1>5. /\ Len(b) = 2 + Len(Main(p))
        /\ b[1] = S[1] /\ b[2] = S[2]
        /\ \A i \in 3 .. Len(b) : b[i] = Main(p)[i - 2] /\ i - 2 \in 1 .. Len(Main(p))
    <2>1. /\ Len(b) = Len(S) + Len(Main(p))
          /\ \A i \in 1 .. Len(S) : b[i] = S[i]
          /\ \A i \in Len(S) + 1 .. Len(S) + Len(Main(p)) :
               b[i] = Main(p)[i - Len(S)] /\ i - Len(S) \in 1 .. Len(Main(p))
      BY <1>3, <1>4, Concatenated
    <2> HIDE DEF b
    <2> QED BY <1>3, <1>4, <2>1
  <1> HIDE DEF b
  <1>6. \A i \in 3 .. Len(b) :
          /\ i = 5 <=> b[i].op = "paging_init"
          /\ i = 6 <=> b[i].op = "paging_enable"
          /\ b[i].op \notin {"setup_gdt", "load_segments", "return"}
          /\ i <= 6 => b[i].op # "test_pages"
    BY <1>1, <1>4, <1>5 DEF PagingInMain, Starting
  <1>7. Kfs3Code(b)
    BY <1>3, <1>4, <1>5, <1>6 DEF Kfs3Code
  <1> QED BY <1>2, <1>7 DEF b

\* kfs2 neither loads its segments nor has paging, and sets its table up in
\* its first call, in the mandatory part again in its second.
LEMMA BootOfKfs2 ==
    ASSUME NEW p \in Programs, p \notin KFS3
    PROVE  /\ Len(Boot[p]) \in Nat
           /\ \A i \in 1 .. Len(Boot[p]) :
                /\ Boot[p][i].op \in {"setup_gdt", "print_gdt", "halt"}
                /\ Boot[p][i].op \notin Starting \ {"setup_gdt"}
                /\ i = 1 => Boot[p][i].op = "setup_gdt"
  <1>1. p \in {"kfs2_mandatory", "kfs2_bonus"}
    BY KernelAssumption
  <1>2. CASE p = "kfs2_mandatory"
    <2>1. Boot[p] = <<Do("setup_gdt")>> \o
                    <<Do("setup_gdt"), Do("print_gdt"), Do("halt")>>
      BY <1>2 DEF Boot, Start, Main, KFS3
    <2> DEFINE S == <<Do("setup_gdt")>>
               M == <<Do("setup_gdt"), Do("print_gdt"), Do("halt")>>
    <2>2. /\ S \in Seq(CallRecords) /\ Len(S) = 1 /\ S[1].op = "setup_gdt"
          /\ M \in Seq(CallRecords) /\ Len(M) = 3 /\ M[1].op = "setup_gdt"
          /\ M[2].op = "print_gdt" /\ M[3].op = "halt"
      BY CallsAreRecords DEF Ops
    <2>3. Boot[p] = S \o M
      BY <2>1
    <2> HIDE DEF S, M
    <2>4. /\ Len(S \o M) = Len(S) + Len(M)
          /\ \A i \in 1 .. Len(S) : (S \o M)[i] = S[i]
          /\ \A i \in Len(S) + 1 .. Len(S) + Len(M) :
               (S \o M)[i] = M[i - Len(S)] /\ i - Len(S) \in 1 .. Len(M)
      BY <2>2, Concatenated
    <2>5. \A i \in 1 .. 3 : M[i].op \in {"setup_gdt", "print_gdt", "halt"}
      <3>1. \A i \in 1 .. 3 : i \in {1, 2, 3}
        OBVIOUS
      <3> QED BY <2>2, <3>1
    <2>6. Len(Boot[p]) = 4 /\ Boot[p][1].op = "setup_gdt"
      BY <2>2, <2>3, <2>4
    <2>7. \A i \in 2 .. 4 : Boot[p][i].op \in {"setup_gdt", "print_gdt", "halt"}
      BY <2>2, <2>3, <2>4, <2>5
    <2>8. \A i \in 1 .. 4 : i = 1 \/ i \in 2 .. 4
      OBVIOUS
    <2> QED BY <2>6, <2>7, <2>8 DEF Starting
  <1>3. CASE p = "kfs2_bonus"
    <2>1. Boot[p] = <<>> \o <<Do("setup_gdt")>>
      BY <1>3 DEF Boot, Start, Main, KFS3
    <2>2. Boot[p] = <<Do("setup_gdt")>>
      BY <2>1
    <2> QED BY <2>2 DEF Do, Call, Starting
  <1> QED BY <1>1, <1>2, <1>3

\* memtest allocates, frees and returns, in its last call and only there.
LEMMA CodeOfMemtest ==
    /\ Len(memtest) \in Nat \ {0}
    /\ \A i \in 1 .. Len(memtest) :
         /\ memtest[i].op \in {"kmalloc", "kfree", "return"}
         /\ memtest[i].op = "return" <=> i = Len(memtest)
  <1> DEFINE n == Len(MemtestSizes)
             A == [i \in 1 .. n |-> Call("kmalloc", i, MemtestSizes[i])]
             F == [i \in 1 .. n |-> Call("kfree", i, 0)]
             R == <<Do("return")>>
  <1>1. n \in Nat /\ \A i \in 1 .. n : MemtestSizes[i] \in Nat
    BY KernelAssumption
  <1>2. /\ A \in Seq(CallRecords) /\ Len(A) = n
        /\ \A i \in 1 .. n : A[i].op = "kmalloc"
    <2>1. \A i \in 1 .. n : /\ A[i] \in CallRecords
                           /\ A[i].op = "kmalloc"
      <3>1. "kmalloc" \in Ops
        BY DEF Ops
      <3>2. ASSUME NEW i \in 1 .. n
            PROVE  /\ Call("kmalloc", i, MemtestSizes[i]) \in CallRecords
                   /\ Call("kmalloc", i, MemtestSizes[i]).op = "kmalloc"
        <4>1. i \in Nat /\ MemtestSizes[i] \in Nat
          BY <1>1
        <4> QED BY <3>1, <4>1, CallsAreRecords
      <3>3. \A i \in 1 .. n : A[i] = Call("kmalloc", i, MemtestSizes[i])
        OBVIOUS
      <3> HIDE DEF A
      <3> QED BY <3>2, <3>3
    <2>2. DOMAIN A = 1 .. n /\ A = [i \in DOMAIN A |-> A[i]]
      OBVIOUS
    <2> HIDE DEF A
    <2>3. A \in [1 .. n -> CallRecords]
      BY <2>1, <2>2
    <2>4. A \in Seq(CallRecords) /\ Len(A) = n
      BY <1>1, <2>3
    <2> QED BY <2>1, <2>4
  <1>3. /\ F \in Seq(CallRecords) /\ Len(F) = n
        /\ \A i \in 1 .. n : F[i].op = "kfree"
    <2>1. \A i \in 1 .. n : /\ F[i] \in CallRecords
                           /\ F[i].op = "kfree"
      <3>1. "kfree" \in Ops
        BY DEF Ops
      <3>2. ASSUME NEW i \in 1 .. n
            PROVE  /\ Call("kfree", i, 0) \in CallRecords
                   /\ Call("kfree", i, 0).op = "kfree"
        <4>1. i \in Nat /\ 0 \in Nat
          BY <1>1
        <4> QED BY <3>1, <4>1, CallsAreRecords
      <3>3. \A i \in 1 .. n : F[i] = Call("kfree", i, 0)
        OBVIOUS
      <3> HIDE DEF F
      <3> QED BY <3>2, <3>3
    <2>2. DOMAIN F = 1 .. n /\ F = [i \in DOMAIN F |-> F[i]]
      OBVIOUS
    <2> HIDE DEF F
    <2>3. F \in [1 .. n -> CallRecords]
      BY <2>1, <2>2
    <2>4. F \in Seq(CallRecords) /\ Len(F) = n
      BY <1>1, <2>3
    <2> QED BY <2>1, <2>4
  <1>4. R \in Seq(CallRecords) /\ Len(R) = 1 /\ R[1].op = "return"
    BY CallsAreRecords DEF Ops
  <1>5. memtest = A \o F \o R
    BY DEF memtest
  <1> HIDE DEF A, F, R, n
  <1>6. /\ A \o F \in Seq(CallRecords) /\ Len(A \o F) = n + n
        /\ \A i \in 1 .. n + n : (A \o F)[i].op \in {"kmalloc", "kfree"}
    <2>1. /\ A \o F \in Seq(CallRecords) /\ Len(A \o F) = Len(A) + Len(F)
          /\ \A i \in 1 .. Len(A) : (A \o F)[i] = A[i]
          /\ \A i \in Len(A) + 1 .. Len(A) + Len(F) :
               (A \o F)[i] = F[i - Len(A)] /\ i - Len(A) \in 1 .. Len(F)
      BY <1>2, <1>3, Concatenated
    <2> QED BY <1>1, <1>2, <1>3, <2>1
  <1> DEFINE m == A \o F
  <1> HIDE DEF m
  <1>7. /\ Len(m \o R) = n + n + 1
        /\ \A i \in 1 .. n + n : (m \o R)[i] = m[i]
        /\ (m \o R)[n + n + 1] = R[1]
    <2>1. m \in Seq(CallRecords) /\ Len(m) = n + n
      BY <1>6 DEF m
    <2>2. /\ Len(m \o R) = Len(m) + Len(R)
          /\ \A i \in 1 .. Len(m) : (m \o R)[i] = m[i]
          /\ \A i \in Len(m) + 1 .. Len(m) + Len(R) : (m \o R)[i] = R[i - Len(m)]
      BY <1>4, <2>1, Concatenated
    <2> QED BY <1>1, <1>4, <2>1, <2>2
  <1>8. \A i \in 1 .. n + n : m[i].op \in {"kmalloc", "kfree"}
    BY <1>6 DEF m
  <1>9. memtest = m \o R
    BY <1>5 DEF m
  <1>10. \A i \in 1 .. n + n + 1 : i \in 1 .. n + n \/ i = n + n + 1
    BY <1>1
  <1>11. n + n + 1 \in Nat \ {0} /\ \A i \in 1 .. n + n : i # n + n + 1
    BY <1>1
  <1> QED BY <1>4, <1>7, <1>8, <1>9, <1>10, <1>11

----------------------------------------------------------------------------
(* The invariant: where boot stands, and what page 0 holds there *)

\* In kfs3 the table stands from the first call to paging_init, in kfs2 for
\* ever; the directory stands from paging_init on, which is before paging is
\* turned on; memtest runs only in the shell, and so with paging on.
Position ==
    /\ program \in Programs /\ pc \in Nat \ {0}
    /\ routine \in {"boot", "memtest"}
    /\ routine = "memtest" => program \in KFS3 /\ pc <= Len(memtest)

TableKept ==
    (program \notin KFS3 /\ pc > 1) \/ (routine = "boot" /\ pc \in 2 .. 5)
      => \A i \in Entries : low[GdtSlot + i] = "gdt"

DirectoryEntered == /\ \A s \in Slots : low[s] \in {"zero", "table"}
                    /\ \A s \in 0 .. KernelTables - 1 : low[s] = "table"

DirectoryKept ==
    /\ paging_enabled => program \in KFS3 /\ DirectoryEntered
    /\ routine = "boot" /\ pc <= 6 => ~paging_enabled
    /\ routine = "memtest" => DirectoryEntered
    /\ program \in KFS3 /\ pc > 5 /\ routine = "boot" => DirectoryEntered

IInv == Position /\ TableKept /\ DirectoryKept /\ SegmentsFlat

LEMMA SlotsOfTable ==
    /\ \A i \in Entries : /\ GdtSlot + i \in Slots /\ GdtSlot + i >= ReportSlots
                          /\ (GdtSlot + i) - GdtSlot \in Entries
    /\ 0 .. KernelTables - 1 \subseteq Slots
    /\ HeapStartSlot \in Slots /\ HeapStartSlot >= KernelTables
  BY KernelAssumption DEF Slots, Entries

LEMMA InitIInv == Init => IInv
  <1> SUFFICES ASSUME Init PROVE IInv
    OBVIOUS
  <1>1. Position /\ DirectoryKept /\ TableKept
    BY KernelAssumption DEF Init, Position, DirectoryKept, TableKept
  <1>2. SegmentsFlat
    BY LoaderSegments DEF Init, SegmentsFlat
  <1> QED BY <1>1, <1>2 DEF IInv

\* The calls that leave page 0, the segments and paging alone and go on to the
\* next call.
LEMMA OtherCalls ==
    ASSUME IInv, cpu = "running", pc <= Len(Code),
           UNCHANGED <<program, routine, low, segments, paging_enabled>>,
           pc' = pc + 1,
           Code[pc].op \notin {"setup_gdt", "paging_init", "paging_enable", "return"}
    PROVE  IInv'
  <1>1. Position'
    <2>1. routine = "memtest" => pc < Len(memtest)
      BY CodeOfMemtest DEF IInv, Position, Code
    <2> QED BY <2>1, CodeOfMemtest DEF IInv, Position
  <1>2. TableKept' /\ DirectoryKept'
    <2>1. CASE routine = "memtest"
      BY <2>1 DEF IInv, Position, TableKept, DirectoryKept, DirectoryEntered
    <2>2. CASE routine = "boot" /\ program \in KFS3
      <3>1. Code = Boot[program] /\ Kfs3Code(Boot[program])
        BY <2>2, BootOfKfs3 DEF Code, IInv, Position
      <3>2. pc # 1 /\ pc # 5 /\ pc # 6 /\ pc \in Nat /\ pc' = pc + 1
        BY <3>1 DEF Kfs3Code, IInv, Position
      <3> QED BY <2>2, <3>2 DEF IInv, TableKept, DirectoryKept, DirectoryEntered
    <2>3. CASE routine = "boot" /\ program \notin KFS3
      <3>1. Code = Boot[program]
        BY <2>3 DEF Code
      <3>2. pc # 1 /\ pc \in Nat
        BY <2>3, <3>1, BootOfKfs2 DEF IInv, Position
      <3> QED BY <2>3, <3>2 DEF IInv, TableKept, DirectoryKept, DirectoryEntered
    <2> QED BY <2>1, <2>2, <2>3 DEF IInv, Position
  <1>3. SegmentsFlat'
    BY DEF IInv, SegmentsFlat
  <1> QED BY <1>1, <1>2, <1>3 DEF IInv

\* What nothing of the invariant depends on may change at the prompt.
LEMMA NothingMoved ==
    ASSUME IInv,
           UNCHANGED <<program, routine, pc, low, segments, paging_enabled>>
    PROVE  IInv'
  BY DEF IInv, Position, TableKept, DirectoryKept, DirectoryEntered, SegmentsFlat

\* Boot is over at the prompt.
LEMMA PromptAfterBoot ==
    ASSUME IInv, AtPrompt
    PROVE  /\ routine = "boot" /\ program \in KFS3 /\ pc > 5
           /\ DirectoryEntered
  <1>1. program \in KFS3
    BY DEF AtPrompt, HasShell, KFS3
  <1>2. routine = "boot"
    BY DEF AtPrompt, Code, IInv, Position
  <1>3. Code = Boot[program] /\ Kfs3Code(Boot[program])
    BY <1>1, <1>2, BootOfKfs3 DEF Code, IInv, Position
  <1>4. pc > 5
    BY <1>3 DEF Kfs3Code, AtPrompt, IInv, Position
  <1> QED BY <1>1, <1>2, <1>4 DEF IInv, DirectoryKept

LEMMA NextIInv == IInv /\ [Next]_vars => IInv'
  <1> SUFFICES ASSUME IInv, [Next]_vars PROVE IInv'
    OBVIOUS
  <1>0. Position /\ TableKept /\ DirectoryKept /\ SegmentsFlat
    BY DEF IInv
  \* In which code a call of boot is made, and at which place.
  <1>p. ASSUME NEW op \in Starting \ {"return"}, Calls(op)
        PROVE  /\ routine = "boot" /\ pc \in 1 .. Len(Boot[program])
               /\ Boot[program][pc].op = op
    <2>1. routine # "memtest"
      BY <1>p, <1>0, CodeOfMemtest DEF Calls, Code, Position, Starting
    <2>2. routine = "boot" /\ Code = Boot[program]
      BY <2>1, <1>0 DEF Position, Code
    <2>3. Len(Boot[program]) \in Nat
      BY <1>0, BootOfKfs3, BootOfKfs2 DEF Position, Kfs3Code
    <2> QED BY <2>2, <2>3, <1>p, <1>0 DEF Calls, Position
  <1>1. CASE SetupGdt
    <2>1. routine = "boot" /\ pc \in 1 .. Len(Boot[program])
          /\ Boot[program][pc].op = "setup_gdt"
      BY <1>1, <1>p DEF SetupGdt, Starting
    <2>2. program \in KFS3 => pc = 1
      BY <2>1, <1>0, BootOfKfs3 DEF Position, Kfs3Code
    <2>3. ~paging_enabled
      BY <2>1, <2>2, <1>0 DEF DirectoryKept
    <2>4. UNCHANGED <<program, routine, segments, paging_enabled>> /\ pc' = pc + 1
      BY <1>1 DEF SetupGdt, Returns, bootVars
    <2>5. \A i \in Entries : low'[GdtSlot + i] = "gdt"
      <3>1. \A s \in Slots : s \in Nat /\ s >= ReportSlots /\ s - GdtSlot \in Entries
                               => low'[s] = "gdt"
        BY <1>1, KernelAssumption DEF SetupGdt, ReportEnd, Slots
      <3>2. \A i \in Entries : GdtSlot + i \in Nat
        BY KernelAssumption DEF Entries
      <3> QED BY <3>1, <3>2, SlotsOfTable
    <2>6. Position'
      BY <2>1, <2>4, <1>0 DEF Position
    <2>7. TableKept'
      BY <2>5 DEF TableKept
    <2>8. DirectoryKept'
      BY <2>1, <2>2, <2>3, <2>4, <1>0 DEF DirectoryKept, Position
    <2>9. SegmentsFlat'
      BY <2>4, <1>0 DEF SegmentsFlat
    <2> QED BY <2>6, <2>7, <2>8, <2>9 DEF IInv
  <1>2. CASE LoadSegments
    <2>1. routine = "boot" /\ pc \in 1 .. Len(Boot[program])
          /\ Boot[program][pc].op = "load_segments"
      BY <1>2, <1>p DEF LoadSegments, Starting
    <2>2. program \in KFS3
      BY <2>1, <1>0, BootOfKfs2 DEF Position, Starting
    <2>3. pc = 2
      BY <2>1, <2>2, <1>0, BootOfKfs3 DEF Position, Kfs3Code
    <2>4. \A i \in Entries : low[GdtSlot + i] = "gdt"
      BY <2>1, <2>3, <1>0 DEF TableKept
    <2>5. \A i \in {1, 2, 3} : Descriptor(i) = Descriptors(207)[i]
      BY <2>2, <2>4 DEF Descriptor, Entries, gran
    <2>6. segments' = [cs |-> Descriptor(1), ds |-> Descriptor(2),
                       ss |-> Descriptor(3)]
      BY <1>2 DEF LoadSegments
    <2>7. SegmentsFlat'
      BY <2>5, <2>6, KernelDescriptors DEF SegmentsFlat
    <2>8. UNCHANGED <<program, routine, low, paging_enabled>> /\ pc' = pc + 1
      BY <1>2 DEF LoadSegments, Returns, bootVars
    <2>9. Position' /\ TableKept' /\ DirectoryKept'
      BY <2>1, <2>2, <2>3, <2>4, <2>8, <1>0
      DEF Position, TableKept, DirectoryKept, DirectoryEntered
    <2> QED BY <2>7, <2>9 DEF IInv
  <1>3. CASE PagingInit
    <2>1. routine = "boot" /\ pc \in 1 .. Len(Boot[program])
          /\ Boot[program][pc].op = "paging_init"
      BY <1>3, <1>p DEF PagingInit, Starting
    <2>2. program \in KFS3
      BY <2>1, <1>0, BootOfKfs2 DEF Position, Starting
    <2>3. pc = 5
      BY <2>1, <2>2, <1>0, BootOfKfs3 DEF Position, Kfs3Code
    <2>4. UNCHANGED <<program, routine, segments, paging_enabled>> /\ pc' = pc + 1
      BY <1>3 DEF PagingInit, Returns, bootVars
    <2>5. DirectoryEntered'
      <3>1. low' = [s \in Slots |-> IF s < KernelTables THEN "table" ELSE "zero"]
        BY <1>3 DEF PagingInit
      <3>2. \A s \in 0 .. KernelTables - 1 : s \in Slots /\ s < KernelTables
        BY SlotsOfTable, KernelAssumption
      <3> QED BY <3>1, <3>2 DEF DirectoryEntered
    <2>6. Position' /\ TableKept' /\ DirectoryKept'
      BY <2>1, <2>2, <2>3, <2>4, <2>5, <1>0
      DEF Position, TableKept, DirectoryKept
    <2>7. SegmentsFlat'
      BY <2>4, <1>0 DEF SegmentsFlat
    <2> QED BY <2>6, <2>7 DEF IInv
  <1>4. CASE PagingEnable
    <2>1. routine = "boot" /\ pc \in 1 .. Len(Boot[program])
          /\ Boot[program][pc].op = "paging_enable"
      BY <1>4, <1>p DEF PagingEnable, Starting
    <2>2. program \in KFS3
      BY <2>1, <1>0, BootOfKfs2 DEF Position, Starting
    <2>3. pc = 6
      BY <2>1, <2>2, <1>0, BootOfKfs3 DEF Position, Kfs3Code
    <2>4. UNCHANGED <<program, routine, low, segments>> /\ pc' = pc + 1
      BY <1>4 DEF PagingEnable, Returns, bootVars
    <2>5. DirectoryEntered
      BY <2>1, <2>2, <2>3, <1>0 DEF DirectoryKept
    <2>6. Position' /\ TableKept' /\ DirectoryKept'
      BY <2>1, <2>2, <2>3, <2>4, <2>5, <1>0
      DEF Position, TableKept, DirectoryKept, DirectoryEntered
    <2>7. SegmentsFlat'
      BY <2>4, <1>0 DEF SegmentsFlat
    <2> QED BY <2>6, <2>7 DEF IInv
  <1>5. CASE OtherManagers \/ KheapInit \/ PrintGdt \/ CheckMagic \/ CallsKmalloc
             \/ CallsKfree \/ CallsWrite \/ Halts
    <2>1. PICK op \in {"check_magic", "pmm_init", "vmm_init", "kheap_init",
                       "print_gdt", "kmalloc", "kfree", "write", "halt"} : Calls(op)
      BY <1>5 DEF OtherManagers, KheapInit, PrintGdt, CheckMagic, CallsKmalloc,
                  CallsKfree, CallsWrite, Halts
    <2>2. cpu = "running" /\ pc <= Len(Code)
          /\ Code[pc].op \notin {"setup_gdt", "paging_init", "paging_enable", "return"}
      BY <2>1 DEF Calls
    <2>3. UNCHANGED <<program, routine, low, segments, paging_enabled>>
          /\ pc' = pc + 1
      BY <1>5 DEF OtherManagers, KheapInit, PrintGdt, CheckMagic, CallsKmalloc,
                  CallsKfree, CallsWrite, Halts, Returns, bootVars, machineVars
    <2> QED BY <2>2, <2>3, OtherCalls
  <1>6. CASE TestPages
    <2>1. /\ cpu = "running" /\ pc <= Len(Code) /\ Code[pc].op = "test_pages"
          /\ UNCHANGED <<program, routine, segments, paging_enabled>>
          /\ pc' = pc + 1
          /\ low' = [low EXCEPT ![HeapStartSlot] = "table"]
      BY <1>6 DEF TestPages, Calls, Returns, bootVars
    <2>2. /\ routine = "boot" /\ Code = Boot[program]
          /\ Boot[program][pc].op = "test_pages"
      BY <2>1, <1>0, CodeOfMemtest DEF Code, Position
    <2>3. pc > 6 /\ program \in KFS3
      <3>1. program \in KFS3
        BY <2>1, <2>2, <1>0, BootOfKfs2 DEF Position
      <3> QED BY <3>1, <2>1, <2>2, <1>0, BootOfKfs3 DEF Position, Kfs3Code
    <2>4. DirectoryEntered'
      <3>1. DirectoryEntered
        BY <2>2, <2>3, <1>0 DEF DirectoryKept, Position
      <3>2. \A s \in Slots : low'[s] = low[s] \/ low'[s] = "table"
        BY <2>1
      <3> QED BY <3>1, <3>2, SlotsOfTable DEF DirectoryEntered
    <2> QED BY <2>1, <2>2, <2>3, <2>4, <1>0
            DEF IInv, Position, TableKept, DirectoryKept, SegmentsFlat
  <1>7. CASE MemtestReturns
    <2>1. cpu = "running" /\ pc <= Len(Code) /\ Code[pc].op = "return"
      BY <1>7 DEF MemtestReturns, Calls
    <2>2. routine = "memtest"
      <3>1. CASE routine = "boot" /\ program \in KFS3
        BY <3>1, <2>1, <1>0, BootOfKfs3 DEF Code, Position, Kfs3Code
      <3>2. CASE routine = "boot" /\ program \notin KFS3
        BY <3>2, <2>1, <1>0, BootOfKfs2 DEF Code, Position, Starting
      <3> QED BY <3>1, <3>2, <1>0 DEF Position
    <2>3. program \in KFS3 /\ DirectoryEntered
      BY <2>2, <1>0 DEF Position, DirectoryKept
    <2>4. pc' = Len(Boot[program]) + 1 /\ pc' \in Nat /\ pc' > 6
      BY <1>7, <2>3, <1>0, BootOfKfs3 DEF MemtestReturns, Kfs3Code, Position
    <2>5. UNCHANGED <<program, low, segments, paging_enabled>> /\ routine' = "boot"
      BY <1>7 DEF MemtestReturns, bootVars, machineVars
    <2> QED BY <2>3, <2>4, <2>5, <1>0
            DEF IInv, Position, TableKept, DirectoryKept, DirectoryEntered,
                SegmentsFlat
  <1>8. CASE Memtest
    <2>1. /\ routine' = "memtest" /\ pc' = 1 /\ AtPrompt
          /\ UNCHANGED <<program, low, segments, paging_enabled>>
      BY <1>8 DEF Memtest, Typed, bootVars, machineVars
    <2>2. program \in KFS3 /\ DirectoryEntered
      BY <2>1, PromptAfterBoot
    <2> QED BY <2>1, <2>2, <1>0, CodeOfMemtest
            DEF IInv, Position, TableKept, DirectoryKept, DirectoryEntered,
                SegmentsFlat
  <1>9. CASE Reboot
    <2>1. /\ routine' = "boot" /\ pc' = 1 /\ program' = program
          /\ ~paging_enabled' /\ segments' = GrubSegments
      BY <1>9, PromptAfterBoot DEF Reboot, Typed, bootVars
    <2>2. SegmentsFlat'
      BY <2>1, LoaderSegments DEF SegmentsFlat
    <2>3. Position' /\ TableKept' /\ DirectoryKept'
      BY <2>1, <1>0 DEF Position, TableKept, DirectoryKept
    <2> QED BY <2>2, <2>3 DEF IInv
  <1>10. CASE \/ \E size \in MallocSizes : Malloc(size)
              \/ Free \/ GdtCommand \/ Halt \/ Shutdown
              \/ \E addr \in DumpAddresses, size \in DumpSizes : Memdump(addr, size)
    <2>1. UNCHANGED <<program, routine, pc, low, segments, paging_enabled>>
      BY <1>10 DEF Malloc, Free, GdtCommand, Halt, Shutdown, Memdump, bootVars,
                   machineVars
    <2> QED BY <2>1, NothingMoved
  <1>11. CASE UNCHANGED vars
    BY <1>11, NothingMoved DEF vars, bootVars, machineVars
  <1> QED
    BY <1>1, <1>2, <1>3, <1>4, <1>5, <1>6, <1>7, <1>8, <1>9, <1>10, <1>11
    DEF Next, Execute, Command

----------------------------------------------------------------------------
(* Theorems *)

LEMMA Invariance == Spec => []IInv
  BY InitIInv, NextIInv, PTL DEF Spec

\* The processor always runs on flat ring 0 segments: they are loaded while the
\* table of setup_gdt stands, and never after paging_init has cleared it.
THEOREM AlwaysFlat == Spec => []SegmentsFlat
  <1>1. IInv => SegmentsFlat
    BY DEF IInv
  <1> QED BY <1>1, Invariance, PTL

\* The descriptor table of kfs2 stays as gdt_init wrote it.
THEOREM TableAlwaysStands == Spec => []TableStands
  <1>1. IInv => TableStands
    BY DEF IInv, TableKept, TableStands
  <1> QED BY <1>1, Invariance, PTL

\* While paging is on, the directory holds page tables and nothing else.
THEOREM DirectoryAlwaysSound == Spec => []DirectorySound
  <1>1. IInv => DirectorySound
    BY DEF IInv, DirectoryKept, DirectoryEntered, DirectorySound
  <1> QED BY <1>1, Invariance, PTL

\* Segments, descriptors and directory together, as the runs check them.
THEOREM LowMemoryIsSound == Spec => []LowMemorySound
  <1>1. SegmentsFlat /\ TableStands /\ DirectorySound => LowMemorySound
    BY DEF LowMemorySound
  <1> QED BY <1>1, AlwaysFlat, TableAlwaysStands, DirectoryAlwaysSound, PTL

----------------------------------------------------------------------------
(* The heap of Kernel, with what is proved about KHeap *)

KH == INSTANCE KHeapProofs WITH Requests <- {1}, AlignedRequests <- {},
                                Increments <- {}

----------------------------------------------------------------------------
(* The pointers that the running routine holds *)

Kmallocs(i) == {k \in 1 .. Len(Code) : Code[k].op = "kmalloc" /\ Code[k].slot = i}
Kfrees(i) == {k \in 1 .. Len(Code) : Code[k].op = "kfree" /\ Code[k].slot = i}

\* The slots of locals with a pointer that is still to be freed.
Pending == {i \in 1 .. MaxLocals : /\ \E k \in Kmallocs(i) : k < pc
                                   /\ \E k \in Kfrees(i) : pc <= k}

----------------------------------------------------------------------------
(* The invariant *)

\* The heap is sound, and no allocation of it is aligned.
Sound == KH!IInv /\ \A b \in DOMAIN live : live[b].ptr = b + HeaderSize

\* The heap is there, and test_memory has not cleared any of its headers.
Standing == HeapReady /\ \A a \in DOMAIN hdr : hdr[a].magic # "zero"

NoHeap == /\ hdr = NoBlocks /\ live = NoBlocks /\ last_freed = Heap!NotFreed
          /\ heap_total_allocated = 0 /\ heap_total_free = 0 /\ remnant = {}

\* Where the code may use the heap.
HeapUp == \/ routine = "memtest"
          \/ program = "kfs3_mandatory" /\ pc \in 9 .. 19
          \/ HasShell /\ pc > 8

HeapInv ==
    /\ kernel = "running" /\ heap_current = 0
    /\ routine = "memtest" => HasShell
    /\ routine = "boot" /\ pc <= 8 => NoHeap
    /\ HeapUp \/ Standing => Sound

\* What is to be freed is in use, and held once.
Owned(ptr) == ptr - HeaderSize \in KH!Used(hdr)
PendingInv ==
    \A i \in Pending : locals[i] # NULL =>
        Owned(locals[i]) /\ \A j \in Pending \ {i} : locals[j] # locals[i]

\* The allocations of the shell are a stack, and the heap is that stack: the
\* newest is the last block in use but for those of memtest, and behind all of
\* them is what is free.  memtest frees its blocks in the order of their
\* addresses, so there is one gap, in front of those it still has.
Tests == {test_ptrs[i] : i \in 1 .. test_count}
Locals == {locals[i] : i \in Pending} \ {NULL}
TestBlocks == {ptr - HeaderSize : ptr \in Tests}
LocalBlocks == {ptr - HeaderSize : ptr \in Locals}
Gap(a, S, T) == (\A t \in S : t < a) /\ (\A t \in T : a < t)

TestsInOrder ==
    /\ \A i \in 1 .. MaxTests : i <= test_count <=> test_ptrs[i] # NULL
    /\ \A i, j \in 1 .. test_count : i < j => test_ptrs[i] < test_ptrs[j]
LocalsInOrder ==
    \A i, j \in Pending : i < j /\ locals[i] # NULL /\ locals[j] # NULL
                            => locals[i] < locals[j]
Stacked ==
    /\ \A t \in TestBlocks, b \in LocalBlocks : t < b
    /\ KH!Used(hdr) = TestBlocks \cup LocalBlocks
Compact ==
    \A a \in DOMAIN hdr : hdr[a].free = 1 =>
        \/ KH!BlockEnd(hdr, a) = HeapSize
        \/ /\ routine = "memtest" /\ pc > Len(MemtestSizes)
           /\ Gap(a, TestBlocks, LocalBlocks)
StackInv == HasShell => TestsInOrder /\ LocalsInOrder /\ Stacked /\ Compact

\* memtest started from a list with the same test allocations.
TraceInv ==
    routine = "memtest" =>
      /\ KH!HeapOK(before) /\ KH!FreeAtEnd(before)
      /\ KH!Used(before) = TestBlocks
      /\ \A a \in TestBlocks : before[a].size = hdr[a].size

PointersTyped ==
    /\ locals \in [1 .. MaxLocals -> NULL .. HeapSize]
    /\ test_ptrs \in [1 .. MaxTests -> NULL .. HeapSize]
    /\ test_count \in 0 .. MaxTests

ShellInv == PointersTyped /\ HeapInv /\ PendingInv /\ StackInv /\ TraceInv

----------------------------------------------------------------------------
(* The code of the routines, call by call *)

MemtestLength == Len(MemtestSizes)

LEMMA SizesAreNat ==
    /\ MemtestLength \in Nat
    /\ \A i \in 1 .. MemtestLength : MemtestSizes[i] \in Nat \ {0}
    /\ MaxLocals \in Nat /\ MaxLocals >= 4 /\ MaxLocals >= MemtestLength
  BY KernelAssumption DEF MemtestLength, MaxLocals

\* memtest makes one allocation per size, then frees them in the same order.
LEMMA MemtestCode ==
    /\ Len(memtest) = MemtestLength + MemtestLength + 1
    /\ \A k \in 1 .. MemtestLength :
         memtest[k] = Call("kmalloc", k, MemtestSizes[k])
    /\ \A k \in 1 .. MemtestLength :
         memtest[MemtestLength + k] = Call("kfree", k, 0)
    /\ memtest[MemtestLength + MemtestLength + 1] = Do("return")
  <1> DEFINE n == MemtestLength
             A == [i \in 1 .. n |-> Call("kmalloc", i, MemtestSizes[i])]
             F == [i \in 1 .. n |-> Call("kfree", i, 0)]
             R == <<Do("return")>>
  <1>1. n \in Nat
    BY SizesAreNat
  <1>2. /\ A \in Seq(CallRecords) /\ Len(A) = n
        /\ \A i \in 1 .. n : A[i] = Call("kmalloc", i, MemtestSizes[i])
    <2>1. \A i \in 1 .. n : Call("kmalloc", i, MemtestSizes[i]) \in CallRecords
      <3>1. \A i \in 1 .. n : i \in Nat /\ MemtestSizes[i] \in Nat
        BY SizesAreNat
      <3> QED BY <3>1, CallsAreRecords DEF Ops
    <2>2. A \in [1 .. n -> CallRecords] /\ \A i \in 1 .. n : A[i] = Call("kmalloc", i, MemtestSizes[i])
      BY <2>1
    <2> HIDE DEF A
    <2> QED BY <1>1, <2>2
  <1>3. /\ F \in Seq(CallRecords) /\ Len(F) = n
        /\ \A i \in 1 .. n : F[i] = Call("kfree", i, 0)
    <2>1. \A i \in 1 .. n : Call("kfree", i, 0) \in CallRecords
      <3>1. \A i \in 1 .. n : i \in Nat
        OBVIOUS
      <3> QED BY <3>1, CallsAreRecords DEF Ops
    <2>2. F \in [1 .. n -> CallRecords] /\ \A i \in 1 .. n : F[i] = Call("kfree", i, 0)
      BY <2>1
    <2> HIDE DEF F
    <2> QED BY <1>1, <2>2
  <1>4. R \in Seq(CallRecords) /\ Len(R) = 1 /\ R[1] = Do("return")
    BY CallsAreRecords DEF Ops
  <1>5. memtest = A \o F \o R
    BY DEF memtest, MemtestLength
  <1> HIDE DEF A, F, R, n
  <1>6. /\ A \o F \in Seq(CallRecords) /\ Len(A \o F) = n + n
        /\ \A i \in 1 .. n : (A \o F)[i] = A[i]
        /\ \A i \in 1 .. n : (A \o F)[n + i] = F[i]
    <2>1. \A i \in n + 1 .. n + n : (A \o F)[i] = F[i - n]
      BY <1>2, <1>3, Concatenated
    <2>2. \A i \in 1 .. n : n + i \in n + 1 .. n + n /\ (n + i) - n = i
      BY <1>1
    <2>3. ASSUME NEW i \in 1 .. n PROVE (A \o F)[n + i] = F[i]
      BY <2>1, <2>2
    <2>4. \A i \in 1 .. n : (A \o F)[i] = A[i]
      BY <1>2, <1>3, Concatenated
    <2>5. A \o F \in Seq(CallRecords) /\ Len(A \o F) = n + n
      BY <1>2, <1>3, Concatenated
    <2> QED BY <2>3, <2>4, <2>5
  <1> DEFINE m == A \o F
  <1> HIDE DEF m
  <1>7. /\ Len(m \o R) = n + n + 1
        /\ \A i \in 1 .. n + n : (m \o R)[i] = m[i]
        /\ (m \o R)[n + n + 1] = R[1]
    <2>1. m \in Seq(CallRecords) /\ Len(m) = n + n
      BY <1>6 DEF m
    <2>2. n + n + 1 \in Len(m) + 1 .. Len(m) + Len(R) /\ (n + n + 1) - Len(m) = 1
      BY <1>1, <1>4, <2>1
    <2>3. (m \o R)[n + n + 1] = R[(n + n + 1) - Len(m)]
      BY <1>4, <2>1, <2>2, Concatenated
    <2>4. (m \o R)[n + n + 1] = R[1]
      BY <2>2, <2>3
    <2>5. /\ Len(m \o R) = Len(m) + Len(R)
          /\ \A i \in 1 .. Len(m) : (m \o R)[i] = m[i]
      BY <1>4, <2>1, Concatenated
    <2> QED BY <1>1, <1>4, <2>1, <2>4, <2>5
  <1>8. \A i \in 1 .. n : i \in 1 .. n + n /\ n + i \in 1 .. n + n
    BY <1>1
  <1>9. memtest = m \o R
    BY <1>5 DEF m
  <1>10. /\ \A i \in 1 .. n : m[i] = A[i]
         /\ \A i \in 1 .. n : m[n + i] = F[i]
    BY <1>6 DEF m
  <1>11. \A i \in 1 .. n : (m \o R)[i] = A[i] /\ (m \o R)[n + i] = F[i]
    BY <1>7, <1>8, <1>10
  <1> QED BY <1>2, <1>3, <1>4, <1>7, <1>9, <1>11 DEF n

\* Code u is s followed by t.
Follows(u, s, t) ==
    /\ u \in Seq(CallRecords) /\ Len(u) = Len(s) + Len(t)
    /\ \A k \in 1 .. Len(s) : u[k] = s[k]
    /\ \A k \in 1 .. Len(t) : u[Len(s) + k] = t[k]

LEMMA Joined ==
    ASSUME NEW s \in Seq(CallRecords), NEW t \in Seq(CallRecords)
    PROVE  Follows(s \o t, s, t)
  <1>1. Len(s) \in Nat /\ Len(t) \in Nat
    OBVIOUS
  <1>2. \A k \in Len(s) + 1 .. Len(s) + Len(t) : (s \o t)[k] = t[k - Len(s)]
    BY Concatenated
  <1>3. ASSUME NEW k \in 1 .. Len(t) PROVE (s \o t)[Len(s) + k] = t[k]
    <2>1. Len(s) + k \in Len(s) + 1 .. Len(s) + Len(t) /\ (Len(s) + k) - Len(s) = k
      BY <1>1
    <2> QED BY <1>2, <2>1
  <1> QED BY <1>3, Concatenated DEF Follows

Regrouped(a, b, c, d) == a \o b \o c \o d = a \o ((b \o c) \o d)
LEMMA Associative ==
    ASSUME NEW a \in Seq(CallRecords), NEW b \in Seq(CallRecords),
           NEW c \in Seq(CallRecords), NEW d \in Seq(CallRecords)
    PROVE  Regrouped(a, b, c, d)
  BY SMTT(40) DEF Regrouped

\* The first eight calls of kfs3; the last of them sets the heap up.
Prelude == <<"setup_gdt", "load_segments", "check_magic", "pmm_init",
             "paging_init", "paging_enable", "vmm_init", "kheap_init">>

LEMMA PreludeOps ==
    \A k \in 1 .. 8 : /\ Prelude[k] \in {"setup_gdt", "load_segments", "check_magic",
                           "pmm_init", "paging_init", "paging_enable", "vmm_init",
                           "kheap_init"}
                      /\ Prelude[k] = "kheap_init" <=> k = 8
  <1>1. \A k \in 1 .. 8 : k \in {1, 2, 3, 4, 5, 6, 7, 8}
    OBVIOUS
  <1>2. /\ Prelude[1] = "setup_gdt" /\ Prelude[2] = "load_segments"
        /\ Prelude[3] = "check_magic" /\ Prelude[4] = "pmm_init"
        /\ Prelude[5] = "paging_init" /\ Prelude[6] = "paging_enable"
        /\ Prelude[7] = "vmm_init" /\ Prelude[8] = "kheap_init"
    BY DEF Prelude
  <1> QED BY <1>1, <1>2

LEMMA ManagersCode ==
    /\ Managers \in Seq(CallRecords) /\ Len(Managers) = 6
    /\ \A k \in 1 .. 6 : Managers[k].op = Prelude[k + 2]
  <1>1. Managers \in Seq(CallRecords) /\ Len(Managers) = 6
    BY CallsAreRecords DEF Managers, Ops
  <1>2. /\ Managers[1].op = "check_magic" /\ Managers[2].op = "pmm_init"
        /\ Managers[3].op = "paging_init" /\ Managers[4].op = "paging_enable"
        /\ Managers[5].op = "vmm_init" /\ Managers[6].op = "kheap_init"
    BY CallsAreRecords DEF Managers, Ops
  <1>3. \A k \in 1 .. 6 : k \in {1, 2, 3, 4, 5, 6}
    OBVIOUS
  <1>4. /\ Prelude[3] = "check_magic" /\ Prelude[4] = "pmm_init"
        /\ Prelude[5] = "paging_init" /\ Prelude[6] = "paging_enable"
        /\ Prelude[7] = "vmm_init" /\ Prelude[8] = "kheap_init"
    BY DEF Prelude
  <1> QED BY <1>1, <1>2, <1>3, <1>4

\* Program p makes the calls of Prelude, and then those of rest.
BootsInto(p, rest) ==
    /\ Len(Boot[p]) = 8 + Len(rest)
    /\ \A k \in 1 .. 8 : Boot[p][k].op = Prelude[k]
    /\ \A k \in 1 .. Len(rest) : Boot[p][8 + k] = rest[k]
LEMMA BootPrelude ==
    ASSUME NEW p, p \in Programs, p \in KFS3, NEW rest, rest \in Seq(CallRecords),
           Main(p) = Managers \o rest
    PROVE  BootsInto(p, rest)
  <1> DEFINE S == <<Do("setup_gdt"), Do("load_segments")>>
             M == Managers \o rest
  <1>1. Boot[p] = S \o M
    BY DEF Boot, Start, KFS3
  <1>2. /\ S \in Seq(CallRecords) /\ Len(S) = 2
        /\ S[1].op = "setup_gdt" /\ S[2].op = "load_segments"
    BY CallsAreRecords DEF Ops
  <1>3. Prelude[1] = "setup_gdt" /\ Prelude[2] = "load_segments"
    BY DEF Prelude
  <1> DEFINE l == Len(rest)
  <1> HIDE DEF S, l
  <1>4. /\ l \in Nat /\ M \in Seq(CallRecords) /\ Len(M) = 6 + l
        /\ \A k \in 1 .. 6 : M[k] = Managers[k]
        /\ \A k \in 1 .. l : M[6 + k] = rest[k]
    <2>1. Len(rest) = l /\ l \in Nat /\ Len(Managers) = 6
      BY ManagersCode DEF l
    <2>2. Follows(M, Managers, rest)
      BY ManagersCode, Joined
    <2> HIDE DEF M
    <2> QED BY <2>1, <2>2 DEF Follows
  <1> HIDE DEF M
  <1>5. /\ S \o M \in Seq(CallRecords) /\ Len(S \o M) = 2 + (6 + l)
        /\ (S \o M)[1] = S[1] /\ (S \o M)[2] = S[2]
        /\ \A k \in 1 .. 6 + l : (S \o M)[2 + k] = M[k]
    <2>1. Follows(S \o M, S, M)
      BY <1>2, <1>4, Joined
    <2> DEFINE u == S \o M
    <2>2. Follows(u, S, M)
      BY <2>1
    <2> HIDE DEF u
    <2>3. /\ u \in Seq(CallRecords) /\ Len(u) = 2 + (6 + l)
          /\ \A k \in 1 .. 2 : u[k] = S[k]
          /\ \A k \in 1 .. 6 + l : u[2 + k] = M[k]
      BY <1>2, <1>4, <2>2 DEF Follows
    <2>4. u[1] = S[1] /\ u[2] = S[2]
      BY <2>3
    <2> QED BY <2>3, <2>4 DEF u
  <1>6. Len(S \o M) = 8 + l
    BY <1>4, <1>5
  <1>7. ASSUME NEW k \in 1 .. 8 PROVE (S \o M)[k].op = Prelude[k]
    <2>1. CASE k = 1 \/ k = 2
      <3>2. (S \o M)[1].op = Prelude[1] /\ (S \o M)[2].op = Prelude[2]
        BY <1>2, <1>3, <1>5, Zenon
      <3> QED BY <2>1, <3>2, Zenon
    <2>2. CASE k \in 3 .. 8
      <3> DEFINE q == k - 2
      <3>1. q \in 1 .. 6 /\ q + 2 = k /\ 2 + q = k /\ q \in 1 .. 6 + l
        BY <1>4, <2>2
      <3> HIDE DEF q
      <3>2. (S \o M)[2 + q] = M[q] /\ M[q] = Managers[q]
        BY <1>4, <1>5, <3>1
      <3>3. Managers[q].op = Prelude[q + 2]
        BY <3>1, ManagersCode
      <3>4. (S \o M)[k] = Managers[q] /\ Managers[q].op = Prelude[k]
        BY <3>1, <3>2, <3>3, Zenon
      <3> QED BY <3>4, Zenon
    <2>3. k \in 3 .. 8 \/ k = 1 \/ k = 2
      OBVIOUS
    <2> QED BY <2>1, <2>2, <2>3
  <1>8. ASSUME NEW k \in 1 .. l PROVE (S \o M)[8 + k] = rest[k]
    <2>1. 6 + k \in 1 .. 6 + l /\ 2 + (6 + k) = 8 + k
      BY <1>4
    <2>2. (S \o M)[2 + (6 + k)] = M[6 + k] /\ M[6 + k] = rest[k]
      BY <1>4, <1>5, <2>1
    <2> QED BY <2>1, <2>2, Zenon
  <1>9. Boot[p] \in Seq(CallRecords) /\ Len(Boot[p]) = 8 + l
    BY <1>1, <1>5, <1>6, Zenon
  <1>10. /\ \A k \in 1 .. 8 : Boot[p][k].op = Prelude[k]
         /\ \A k \in 1 .. l : Boot[p][8 + k] = rest[k]
    BY <1>1, <1>7, <1>8
  <1> QED BY <1>9, <1>10 DEF l, BootsInto

\* The program with the shell goes to the prompt once the heap is set up.
LEMMA ShellCode ==
    ASSUME "kfs3_bonus" \in Programs
    PROVE  /\ Len(Boot["kfs3_bonus"]) = 8
           /\ \A k \in 1 .. 8 : Boot["kfs3_bonus"][k].op = Prelude[k]
  <1>1. <<>> \in Seq(CallRecords) /\ Len(<<>>) = 0
    OBVIOUS
  <1>2. Main("kfs3_bonus") = Managers \o <<>>
    BY ManagersCode DEF Main
  <1> DEFINE none == <<>>
  <1>3. none \in Seq(CallRecords) /\ Len(none) = 0 /\ Main("kfs3_bonus") = Managers \o none
    BY <1>1, <1>2
  <1> HIDE DEF none
  <1>4. "kfs3_bonus" \in KFS3
    BY DEF KFS3
  <1>5. BootsInto("kfs3_bonus", none)
    BY <1>3, <1>4, BootPrelude
  <1> QED BY <1>3, <1>5 DEF BootsInto

\* The mandatory part goes on to its tests, and halts.
LEMMA MandatoryCode ==
    ASSUME "kfs3_mandatory" \in Programs
    PROVE  /\ Len(Boot["kfs3_mandatory"]) = 20
           /\ \A k \in 1 .. 8 : Boot["kfs3_mandatory"][k].op = Prelude[k]
           /\ Boot["kfs3_mandatory"][9] = Do("print_gdt")
           /\ \A k \in 1 .. 10 : Boot["kfs3_mandatory"][9 + k] = test_memory[k]
           /\ Boot["kfs3_mandatory"][20] = Do("halt")
  <1> DEFINE P == <<Do("print_gdt")>>
             H == <<Do("halt")>>
             U == P \o test_memory
             rest == U \o H
  <1>1. /\ P \in Seq(CallRecords) /\ Len(P) = 1 /\ P[1] = Do("print_gdt")
        /\ H \in Seq(CallRecords) /\ Len(H) = 1 /\ H[1] = Do("halt")
        /\ test_memory \in Seq(CallRecords)
    BY TestsQuiet, CallsAreRecords DEF Quiet, Ops
  <1>2. Len(test_memory) = 10
    BY DEF test_memory
  <1>3. Main("kfs3_mandatory") = Managers \o P \o test_memory \o H
    BY DEF Main
  <1> HIDE DEF P, H
  <1>4. /\ U \in Seq(CallRecords) /\ Len(U) = 11 /\ U[1] = Do("print_gdt")
        /\ \A k \in 1 .. 10 : U[1 + k] = test_memory[k]
    <2>1. Follows(U, P, test_memory)
      BY <1>1, Joined
    <2> HIDE DEF U
    <2> QED BY <1>1, <1>2, <2>1 DEF Follows
  <1>6. Main("kfs3_mandatory") = Managers \o rest
    <2>1. Managers \o P \o test_memory \o H = Managers \o ((P \o test_memory) \o H)
      <3>1. Regrouped(Managers, P, test_memory, H)
        BY <1>1, ManagersCode, Associative
      <3> QED BY <3>1, Zenon DEF Regrouped
    <2> QED BY <1>3, <2>1, Zenon
  <1> HIDE DEF U
  <1>5. /\ rest \in Seq(CallRecords) /\ Len(rest) = 12
        /\ \A k \in 1 .. 11 : rest[k] = U[k]
        /\ rest[12] = Do("halt")
    <2>1. Follows(rest, U, H)
      BY <1>1, <1>4, Joined
    <2> HIDE DEF rest
    <2>2. Len(rest) = 11 + 1 /\ \A k \in 1 .. 1 : rest[11 + k] = H[k]
      BY <1>1, <1>4, <2>1 DEF Follows
    <2>3. rest[11 + 1] = H[1]
      BY <2>2
    <2> QED BY <1>1, <1>4, <2>1, <2>2, <2>3 DEF Follows
  <1> HIDE DEF rest
  <1>7. /\ Len(Boot["kfs3_mandatory"]) = 8 + Len(rest)
        /\ \A k \in 1 .. 8 : Boot["kfs3_mandatory"][k].op = Prelude[k]
        /\ \A k \in 1 .. Len(rest) : Boot["kfs3_mandatory"][8 + k] = rest[k]
    <2>1. "kfs3_mandatory" \in KFS3
      BY DEF KFS3
    <2>2. BootsInto("kfs3_mandatory", rest)
      BY <1>5, <1>6, <2>1, BootPrelude
    <2> QED BY <2>2 DEF BootsInto
  <1>8. ASSUME NEW k \in 1 .. 10
        PROVE  Boot["kfs3_mandatory"][9 + k] = test_memory[k]
    <2>1. 8 + (1 + k) = 9 + k /\ 1 + k \in 1 .. 11 /\ 1 + k \in 1 .. Len(rest)
      BY <1>5
    <2>2. /\ Boot["kfs3_mandatory"][8 + (1 + k)] = rest[1 + k]
          /\ rest[1 + k] = U[1 + k] /\ U[1 + k] = test_memory[k]
      BY <1>4, <1>5, <1>7, <2>1
    <2> QED BY <2>1, <2>2, Zenon
  <1>9. Boot["kfs3_mandatory"][8 + 1] = rest[1] /\ Boot["kfs3_mandatory"][8 + 12] = rest[12]
    BY <1>5, <1>7
  <1> QED BY <1>4, <1>5, <1>7, <1>8, <1>9

----------------------------------------------------------------------------
(* Where the code allocates and frees *)

\* Every pointer is allocated once, and freed once and later.
Straight(c) ==
    /\ \A k \in 1 .. Len(c) : c[k].op = "kmalloc" =>
         c[k].slot \in 1 .. MaxLocals /\ c[k].size \in Nat \ {0}
    /\ \A k, m \in 1 .. Len(c) :
         c[k].op = "kmalloc" /\ c[m].op = "kmalloc" /\ c[k].slot = c[m].slot => k = m
    /\ \A k, m \in 1 .. Len(c) :
         c[k].op = "kfree" /\ c[m].op = "kfree" /\ c[k].slot = c[m].slot => k = m
    /\ \A m \in 1 .. Len(c) : c[m].op = "kfree" =>
         \E k \in 1 .. Len(c) : /\ c[k].op = "kmalloc" /\ c[k].slot = c[m].slot
                                /\ k < m
    /\ \A k \in 1 .. Len(c) : c[k].op = "kmalloc" =>
         \E m \in 1 .. Len(c) : /\ c[m].op = "kfree" /\ c[m].slot = c[k].slot
                                /\ k < m

LEMMA CallFields ==
    \A op, slot, size : /\ Call(op, slot, size).op = op
                        /\ Call(op, slot, size).slot = slot
                        /\ Call(op, slot, size).size = size
  BY DEF Call

LEMMA TestCalls ==
    /\ test_memory[1] = Call("kmalloc", 1, 100) /\ test_memory[2] = Call("kmalloc", 2, 256)
    /\ test_memory[3] = Call("kmalloc", 3, 1024) /\ test_memory[4] = Call("write", 1, 6)
    /\ test_memory[5] = Call("kfree", 2, 0) /\ test_memory[6] = Call("kmalloc", 4, 128)
    /\ test_memory[7] = Call("kfree", 1, 0) /\ test_memory[8] = Call("kfree", 3, 0)
    /\ test_memory[9] = Call("kfree", 4, 0) /\ test_memory[10] = Do("test_pages")
  <1> DEFINE M(i, n) == Call("kmalloc", i, n)
             F(i) == Call("kfree", i, 0)
             W == Call("write", 1, 6)
             P == Do("test_pages")
  <1>1. test_memory = <<M(1, 100), M(2, 256), M(3, 1024), W, F(2), M(4, 128),
                        F(1), F(3), F(4), P>>
    BY DEF test_memory
  <1> HIDE DEF M, F, W, P
  <1>2. /\ test_memory[1] = M(1, 100) /\ test_memory[2] = M(2, 256)
        /\ test_memory[3] = M(3, 1024) /\ test_memory[4] = W
        /\ test_memory[5] = F(2) /\ test_memory[6] = M(4, 128)
        /\ test_memory[7] = F(1) /\ test_memory[8] = F(3)
        /\ test_memory[9] = F(4) /\ test_memory[10] = P
    BY <1>1
  <1> QED BY <1>2 DEF M, F, W, P

\* The calls of the mandatory part behind Prelude.
LEMMA MandatoryTests ==
    ASSUME "kfs3_mandatory" \in Programs, NEW b, b = Boot["kfs3_mandatory"]
    PROVE  /\ Len(b) = 20
           /\ b[9] = Do("print_gdt") /\ b[10] = Call("kmalloc", 1, 100)
           /\ b[11] = Call("kmalloc", 2, 256) /\ b[12] = Call("kmalloc", 3, 1024)
           /\ b[13] = Call("write", 1, 6) /\ b[14] = Call("kfree", 2, 0)
           /\ b[15] = Call("kmalloc", 4, 128) /\ b[16] = Call("kfree", 1, 0)
           /\ b[17] = Call("kfree", 3, 0) /\ b[18] = Call("kfree", 4, 0)
           /\ b[19] = Do("test_pages") /\ b[20] = Do("halt")
           /\ \A k \in 1 .. 8 : b[k].op = Prelude[k]
  <1>1. /\ Len(b) = 20 /\ b[9] = Do("print_gdt") /\ b[20] = Do("halt")
        /\ \A k \in 1 .. 8 : b[k].op = Prelude[k]
        /\ \A k \in 1 .. 10 : b[9 + k] = test_memory[k]
    BY MandatoryCode
  <1>2. /\ b[9 + 1] = test_memory[1] /\ b[9 + 2] = test_memory[2]
        /\ b[9 + 3] = test_memory[3] /\ b[9 + 4] = test_memory[4]
        /\ b[9 + 5] = test_memory[5] /\ b[9 + 6] = test_memory[6]
        /\ b[9 + 7] = test_memory[7] /\ b[9 + 8] = test_memory[8]
        /\ b[9 + 9] = test_memory[9] /\ b[9 + 10] = test_memory[10]
    BY <1>1
  <1>3. /\ b[10] = test_memory[1] /\ b[11] = test_memory[2]
        /\ b[12] = test_memory[3] /\ b[13] = test_memory[4]
        /\ b[14] = test_memory[5] /\ b[15] = test_memory[6]
        /\ b[16] = test_memory[7] /\ b[17] = test_memory[8]
        /\ b[18] = test_memory[9] /\ b[19] = test_memory[10]
    BY <1>2
  <1>4. /\ b[10] = Call("kmalloc", 1, 100) /\ b[11] = Call("kmalloc", 2, 256)
        /\ b[12] = Call("kmalloc", 3, 1024) /\ b[13] = Call("write", 1, 6)
    BY <1>3, TestCalls
  <1>5. /\ b[14] = Call("kfree", 2, 0) /\ b[15] = Call("kmalloc", 4, 128)
        /\ b[16] = Call("kfree", 1, 0)
    BY <1>3, TestCalls
  <1>6. /\ b[17] = Call("kfree", 3, 0) /\ b[18] = Call("kfree", 4, 0)
        /\ b[19] = Do("test_pages")
    BY <1>3, TestCalls
  <1> QED BY <1>1, <1>4, <1>5, <1>6

LEMMA MandatorySites ==
    ASSUME "kfs3_mandatory" \in Programs, NEW b, b = Boot["kfs3_mandatory"],
           NEW k \in 1 .. 20
    PROVE  /\ b[k].op = "kmalloc" =>
                /\ b[k].size \in Nat \ {0}
                /\ \/ (k = 10 /\ b[k].slot = 1) \/ (k = 11 /\ b[k].slot = 2)
                   \/ (k = 12 /\ b[k].slot = 3) \/ (k = 15 /\ b[k].slot = 4)
           /\ b[k].op = "kfree" =>
                \/ (k = 14 /\ b[k].slot = 2) \/ (k = 16 /\ b[k].slot = 1)
                \/ (k = 17 /\ b[k].slot = 3) \/ (k = 18 /\ b[k].slot = 4)
           /\ b[k].op = "kheap_init" <=> k = 8
           /\ b[k].op = "write" => k = 13
           /\ b[k].op = "test_pages" => k = 19
           /\ b[k].op = "halt" => k = 20
           /\ b[k].op # "return"
  <1>1. k \in 1 .. 8 \/ k = 9 \/ k \in {10, 11, 12, 15} \/ k \in {14, 16, 17, 18}
        \/ k \in {13, 19, 20}
    OBVIOUS
  <1>2. CASE k \in 1 .. 8
    <2>1. b[k].op = Prelude[k]
      BY <1>2, MandatoryTests
    <2> QED BY <1>2, <2>1, PreludeOps
  <1>3. CASE k = 9
    BY <1>3, MandatoryTests, CallFields DEF Do
  <1>4. CASE k \in {10, 11, 12, 15}
    BY <1>4, MandatoryTests, CallFields
  <1>5. CASE k \in {14, 16, 17, 18}
    BY <1>5, MandatoryTests, CallFields
  <1>6. CASE k \in {13, 19, 20}
    BY <1>6, MandatoryTests, CallFields DEF Do
  <1> QED BY <1>1, <1>2, <1>3, <1>4, <1>5, <1>6

LEMMA MandatoryStraight ==
    ASSUME "kfs3_mandatory" \in Programs
    PROVE  Straight(Boot["kfs3_mandatory"])
  <1> DEFINE b == Boot["kfs3_mandatory"]
  <1>1. b = Boot["kfs3_mandatory"]
    OBVIOUS
  <1> HIDE DEF b
  <1>2. Len(b) = 20
    BY <1>1, MandatoryTests
  <1>3. \A k \in 1 .. 20 :
           /\ b[k].op = "kmalloc" =>
                /\ b[k].size \in Nat \ {0}
                /\ \/ (k = 10 /\ b[k].slot = 1) \/ (k = 11 /\ b[k].slot = 2)
                   \/ (k = 12 /\ b[k].slot = 3) \/ (k = 15 /\ b[k].slot = 4)
           /\ b[k].op = "kfree" =>
                \/ (k = 14 /\ b[k].slot = 2) \/ (k = 16 /\ b[k].slot = 1)
                \/ (k = 17 /\ b[k].slot = 3) \/ (k = 18 /\ b[k].slot = 4)
    BY <1>1, MandatorySites
  <1>4. /\ b[10].op = "kmalloc" /\ b[10].slot = 1 /\ b[11].op = "kmalloc" /\ b[11].slot = 2
        /\ b[12].op = "kmalloc" /\ b[12].slot = 3 /\ b[15].op = "kmalloc" /\ b[15].slot = 4
    BY <1>1, MandatoryTests, CallFields
  <1>5. \A k \in 1 .. 20 : b[k].op = "kmalloc" =>
           b[k].slot \in 1 .. MaxLocals /\ b[k].size \in Nat \ {0}
    BY <1>3, SizesAreNat
  <1>6. \A m \in 1 .. 20 : b[m].op = "kfree" =>
           \E k \in 1 .. 20 : b[k].op = "kmalloc" /\ b[k].slot = b[m].slot /\ k < m
    <2> SUFFICES ASSUME NEW m \in 1 .. 20, b[m].op = "kfree"
                 PROVE  \E k \in 1 .. 20 : /\ b[k].op = "kmalloc" /\ b[k].slot = b[m].slot
                                           /\ k < m
      OBVIOUS
    <2>1. 10 \in 1 .. 20 /\ 11 \in 1 .. 20 /\ 12 \in 1 .. 20 /\ 15 \in 1 .. 20
      OBVIOUS
    <2>2. (m > 13 /\ b[m].slot \in {1, 2, 3}) \/ (m > 17 /\ b[m].slot = 4)
      BY <1>3
    <2> QED BY <1>4, <2>1, <2>2
  <1>7. \A k, m \in 1 .. 20 : b[k].op = "kmalloc" /\ b[m].op = "kmalloc"
           /\ b[k].slot = b[m].slot => k = m
    BY <1>3
  <1>8. \A k, m \in 1 .. 20 : b[k].op = "kfree" /\ b[m].op = "kfree"
           /\ b[k].slot = b[m].slot => k = m
    BY <1>3
  <1>9. /\ b[14].op = "kfree" /\ b[14].slot = 2 /\ b[16].op = "kfree" /\ b[16].slot = 1
        /\ b[17].op = "kfree" /\ b[17].slot = 3 /\ b[18].op = "kfree" /\ b[18].slot = 4
    BY <1>1, MandatoryTests, CallFields
  <1>10. \A k \in 1 .. 20 : b[k].op = "kmalloc" =>
           \E m \in 1 .. 20 : b[m].op = "kfree" /\ b[m].slot = b[k].slot /\ k < m
    <2> SUFFICES ASSUME NEW k \in 1 .. 20, b[k].op = "kmalloc"
                 PROVE  \E m \in 1 .. 20 : /\ b[m].op = "kfree" /\ b[m].slot = b[k].slot
                                           /\ k < m
      OBVIOUS
    <2>1. 14 \in 1 .. 20 /\ 16 \in 1 .. 20 /\ 17 \in 1 .. 20 /\ 18 \in 1 .. 20
      OBVIOUS
    <2>2. (k < 14 /\ b[k].slot \in {1, 2, 3}) \/ (k < 18 /\ b[k].slot = 4)
      BY <1>3
    <2> QED BY <1>9, <2>1, <2>2
  <1>11. Straight(b)
    BY <1>2, <1>5, <1>6, <1>7, <1>8, <1>10 DEF Straight
  <1> QED BY <1>1, <1>11

LEMMA MemtestSites ==
    ASSUME NEW k \in 1 .. Len(memtest)
    PROVE  /\ MemtestLength \in Nat
           /\ memtest[k].op = "kmalloc" <=> k <= MemtestLength
           /\ memtest[k].op = "kfree" <=>
                k > MemtestLength /\ k <= MemtestLength + MemtestLength
           /\ memtest[k].op = "return" <=> k = MemtestLength + MemtestLength + 1
           /\ k <= MemtestLength => /\ memtest[k].slot = k
                                    /\ memtest[k].size \in Nat \ {0}
           /\ k > MemtestLength /\ k <= MemtestLength + MemtestLength =>
                memtest[k].slot = k - MemtestLength
  <1> DEFINE n == MemtestLength
  <1>1. n \in Nat /\ k \in 1 .. n + n + 1
    BY SizesAreNat, MemtestCode
  <1>2. CASE k \in 1 .. n
    <2>1. memtest[k] = Call("kmalloc", k, MemtestSizes[k]) /\ MemtestSizes[k] \in Nat \ {0}
      BY <1>2, SizesAreNat, MemtestCode
    <2>2. /\ memtest[k].op = "kmalloc" /\ memtest[k].slot = k
          /\ memtest[k].size \in Nat \ {0}
      BY <2>1, CallFields
    <2> QED BY <1>1, <1>2, <2>2
  <1>3. CASE k \in n + 1 .. n + n
    <2> DEFINE i == k - n
    <2>1. i \in 1 .. n /\ n + i = k
      BY <1>1, <1>3
    <2> HIDE DEF i
    <2>2. memtest[n + i] = Call("kfree", i, 0)
      BY <2>1, MemtestCode
    <2>3. memtest[k] = Call("kfree", i, 0)
      BY <2>1, <2>2, Zenon
    <2>4. memtest[k].op = "kfree" /\ memtest[k].slot = i
      BY <2>3, CallFields
    <2> QED BY <1>1, <1>3, <2>4 DEF i
  <1>4. CASE k = n + n + 1
    <2>1. memtest[k] = Do("return")
      BY <1>4, MemtestCode
    <2>2. memtest[k].op = "return"
      BY <2>1, CallFields DEF Do
    <2> QED BY <1>1, <1>4, <2>2
  <1>5. k \in 1 .. n \/ k \in n + 1 .. n + n \/ k = n + n + 1
    BY <1>1
  <1> QED BY <1>2, <1>3, <1>4, <1>5

LEMMA MemtestStraight == Straight(memtest)
  <1> DEFINE n == MemtestLength
             m == memtest
  <1>1. n \in Nat /\ Len(m) = n + n + 1 /\ n <= MaxLocals /\ MaxLocals \in Nat
    BY SizesAreNat, MemtestCode
  <1>2. \A k \in 1 .. n + n + 1 :
          /\ m[k].op = "kmalloc" <=> k <= n
          /\ m[k].op = "kfree" <=> k > n /\ k <= n + n
          /\ k <= n => m[k].slot = k /\ m[k].size \in Nat \ {0}
          /\ k > n /\ k <= n + n => m[k].slot = k - n
    BY <1>1, MemtestSites
  <1> HIDE DEF n, m
  <1>3. \A k \in 1 .. Len(m) : m[k].op = "kmalloc" =>
          m[k].slot \in 1 .. MaxLocals /\ m[k].size \in Nat \ {0}
    BY <1>1, <1>2
  <1>4. \A k, l \in 1 .. Len(m) : m[k].op = "kmalloc" /\ m[l].op = "kmalloc"
          /\ m[k].slot = m[l].slot => k = l
    BY <1>1, <1>2
  <1>5. \A k, l \in 1 .. Len(m) : m[k].op = "kfree" /\ m[l].op = "kfree"
          /\ m[k].slot = m[l].slot => k = l
    BY <1>1, <1>2
  <1>6. ASSUME NEW l \in 1 .. Len(m), m[l].op = "kfree"
        PROVE  \E k \in 1 .. Len(m) : m[k].op = "kmalloc" /\ m[k].slot = m[l].slot /\ k < l
    <2>1. l - n \in 1 .. n /\ l - n \in 1 .. Len(m) /\ l - n < l /\ m[l].slot = l - n
      BY <1>1, <1>2, <1>6
    <2>2. m[l - n].op = "kmalloc" /\ m[l - n].slot = l - n
      BY <1>1, <1>2, <2>1
    <2> QED BY <2>1, <2>2
  <1>7. ASSUME NEW k \in 1 .. Len(m), m[k].op = "kmalloc"
        PROVE  \E l \in 1 .. Len(m) : m[l].op = "kfree" /\ m[l].slot = m[k].slot /\ k < l
    <2>1. /\ k + n \in 1 .. Len(m) /\ k < k + n /\ m[k].slot = k /\ k + n > n
          /\ k + n <= n + n /\ (k + n) - n = k
      BY <1>1, <1>2, <1>7
    <2>2. m[k + n].op = "kfree" /\ m[k + n].slot = (k + n) - n
      BY <1>1, <1>2, <2>1
    <2> QED BY <2>1, <2>2
  <1>8. Straight(m)
    BY <1>3, <1>4, <1>5, <1>6, <1>7 DEF Straight
  <1> QED BY <1>8 DEF m

\* Where the program with a shell is in its boot code.
LEMMA ShellSites ==
    ASSUME "kfs3_bonus" \in Programs, NEW b, b = Boot["kfs3_bonus"]
    PROVE  /\ Len(b) = 8
           /\ \A k \in 1 .. 8 :
                /\ b[k].op = "kheap_init" <=> k = 8
                /\ b[k].op \notin {"kmalloc", "kfree", "write", "test_pages",
                                   "return", "halt"}
  <1>1. Len(b) = 8 /\ \A k \in 1 .. 8 : b[k].op = Prelude[k]
    BY ShellCode
  <1>2. ASSUME NEW k \in 1 .. 8
        PROVE  /\ b[k].op = "kheap_init" <=> k = 8
               /\ b[k].op \notin {"kmalloc", "kfree", "write", "test_pages",
                                  "return", "halt"}
    <2>1. b[k].op = Prelude[k]
      BY <1>1
    <2> QED BY <2>1, PreludeOps
  <1> QED BY <1>1, <1>2

LEMMA BootStraight ==
    ASSUME NEW p \in Programs
    PROVE  Straight(Boot[p]) /\ Len(Boot[p]) \in Nat
  <1>1. CASE p = "kfs3_mandatory"
    BY <1>1, MandatoryStraight, MandatoryTests
  <1>2. CASE p = "kfs3_bonus"
    <2> DEFINE b == Boot[p]
    <2>1. Len(b) = 8 /\ \A k \in 1 .. 8 : b[k].op \notin {"kmalloc", "kfree"}
      BY <1>2, ShellSites
    <2> HIDE DEF b
    <2>2. Straight(b)
      BY <2>1 DEF Straight
    <2> QED BY <2>1, <2>2 DEF b
  <1>3. CASE p \notin KFS3
    <2> DEFINE b == Boot[p]
    <2>1. /\ Len(b) \in Nat
          /\ \A k \in 1 .. Len(b) : b[k].op \in {"setup_gdt", "print_gdt", "halt"}
      BY <1>3, BootOfKfs2
    <2> HIDE DEF b
    <2>2. \A k \in 1 .. Len(b) : b[k].op # "kmalloc" /\ b[k].op # "kfree"
      BY <2>1
    <2>3. Straight(b)
      BY <2>2 DEF Straight
    <2> QED BY <2>1, <2>3 DEF b
  <1> QED BY <1>1, <1>2, <1>3 DEF KFS3

\* What is known about the place of a call.
Sites ==
    /\ pc \in 1 .. Len(Code)
    /\ This.op = "kheap_init" <=> routine = "boot" /\ program \in KFS3 /\ pc = 8
    /\ This.op \in {"kmalloc", "kfree"} =>
         \/ routine = "memtest"
         \/ routine = "boot" /\ program = "kfs3_mandatory" /\ pc \in 10 .. 18
    /\ This.op = "write" => routine = "boot" /\ program = "kfs3_mandatory" /\ pc = 13
    /\ This.op = "test_pages" =>
         routine = "boot" /\ program = "kfs3_mandatory" /\ pc = 19
    /\ This.op = "return" <=> routine = "memtest" /\ pc = Len(Code)
    /\ routine = "memtest" => This.op \in {"kmalloc", "kfree", "return"}

LEMMA CallSites ==
    ASSUME IInv, pc <= Len(Code)
    PROVE  Sites
  <1>1. /\ program \in Programs /\ pc \in Nat \ {0} /\ routine \in {"boot", "memtest"}
    BY DEF IInv, Position
  <1>2. CASE routine = "memtest"
    <2>1. Code = memtest
      BY <1>2 DEF Code
    <2>2. Len(memtest) \in Nat /\ pc \in 1 .. Len(memtest)
      BY <1>1, <2>1, CodeOfMemtest
    <2>3. /\ memtest[pc].op \in {"kmalloc", "kfree", "return"}
          /\ memtest[pc].op = "return" <=> pc = Len(memtest)
      BY <2>2, CodeOfMemtest
    <2> QED BY <1>2, <2>1, <2>2, <2>3 DEF Sites, This
  <1>3. CASE routine = "boot" /\ program = "kfs3_mandatory"
    <2>1. Code = Boot[program] /\ Len(Code) = 20
      BY <1>1, <1>3, MandatoryTests DEF Code
    <2>2. pc \in 1 .. 20
      BY <1>1, <2>1
    <2> DEFINE c == Code
    <2> HIDE DEF c
    <2>3. /\ c[pc].op = "kmalloc" => pc \in {10, 11, 12, 15}
          /\ c[pc].op = "kfree" => pc \in {14, 16, 17, 18}
          /\ c[pc].op = "kheap_init" <=> pc = 8
          /\ c[pc].op = "write" => pc = 13
          /\ c[pc].op = "test_pages" => pc = 19
          /\ c[pc].op # "return"
      BY <1>1, <1>3, <2>1, <2>2, MandatorySites DEF c
    <2> QED BY <1>3, <2>1, <2>2, <2>3 DEF Sites, This, c, KFS3
  <1>4. CASE routine = "boot" /\ program = "kfs3_bonus"
    <2>1. Code = Boot[program] /\ Len(Code) = 8
      BY <1>1, <1>4, ShellSites DEF Code
    <2>2. pc \in 1 .. 8
      BY <1>1, <2>1
    <2>3. /\ Code[pc].op = "kheap_init" <=> pc = 8
          /\ Code[pc].op \notin {"kmalloc", "kfree", "write", "test_pages",
                                 "return", "halt"}
      BY <1>1, <1>4, <2>1, <2>2, ShellSites
    <2> QED BY <1>4, <2>1, <2>2, <2>3 DEF Sites, This, KFS3
  <1>5. CASE routine = "boot" /\ program \notin KFS3
    <2>1. Code = Boot[program]
      BY <1>5 DEF Code
    <2>2. Len(Code) \in Nat /\ pc \in 1 .. Len(Code)
      BY <1>1, <1>5, <2>1, BootOfKfs2
    <2>3. Code[pc].op \in {"setup_gdt", "print_gdt", "halt"}
      BY <1>1, <1>5, <2>1, <2>2, BootOfKfs2
    <2> QED BY <1>5, <2>1, <2>2, <2>3 DEF Sites, This, KFS3
  <1> QED BY <1>1, <1>2, <1>3, <1>4, <1>5 DEF KFS3

----------------------------------------------------------------------------
(* The pointers that are still to be freed *)

LEMMA CodeIsStraight ==
    ASSUME IInv
    PROVE  Straight(Code) /\ Len(Code) \in Nat
  BY BootStraight, MemtestStraight, CodeOfMemtest DEF IInv, Position, Code

\* The next call is made in the same code.
NextCall == pc' = pc + 1 /\ Code' = Code

LEMMA PendingSlots ==
    ASSUME IInv, pc <= Len(Code), NextCall
    PROVE  /\ This.op = "kmalloc" =>
                /\ This.slot \in 1 .. MaxLocals /\ This.size \in Nat \ {0}
                /\ This.slot \notin Pending
                /\ Pending' = Pending \cup {This.slot}
           /\ This.op = "kfree" =>
                /\ This.slot \in Pending
                /\ Pending' = Pending \ {This.slot}
           /\ This.op \notin {"kmalloc", "kfree"} => Pending' = Pending
  <1>1. Straight(Code) /\ pc \in 1 .. Len(Code) /\ pc \in Nat /\ Len(Code) \in Nat
    BY CodeIsStraight, CallSites DEF Sites
  <1> DEFINE c == Code
             S == This.slot
             l == Len(Code)
  <1>2. /\ Len(c) = l /\ l \in Nat /\ pc \in 1 .. l /\ pc' = pc + 1
        /\ \A i \in 1 .. MaxLocals :
             /\ i \in Pending <=>
                  /\ \E k \in 1 .. l : c[k].op = "kmalloc" /\ c[k].slot = i /\ k < pc
                  /\ \E k \in 1 .. l : c[k].op = "kfree" /\ c[k].slot = i /\ pc <= k
             /\ i \in Pending' <=>
                  /\ \E k \in 1 .. l : c[k].op = "kmalloc" /\ c[k].slot = i /\ k < pc'
                  /\ \E k \in 1 .. l : c[k].op = "kfree" /\ c[k].slot = i /\ pc' <= k
    BY <1>1 DEF NextCall, Pending, Kmallocs, Kfrees
  <1>3. Pending \subseteq 1 .. MaxLocals /\ Pending' \subseteq 1 .. MaxLocals
    BY DEF Pending
  <1>s. Straight(c) /\ Len(c) = l
    BY <1>1, <1>2
  <1>4. This.op = c[pc].op /\ This.slot = c[pc].slot
        /\ This.size = c[pc].size
    BY <1>1 DEF This
  <1> HIDE DEF c, l
  <1>5. /\ \A k \in 1 .. l : c[k].op = "kmalloc" =>
             c[k].slot \in 1 .. MaxLocals /\ c[k].size \in Nat \ {0}
        /\ \A k, m \in 1 .. l :
             c[k].op = "kmalloc" /\ c[m].op = "kmalloc" /\ c[k].slot = c[m].slot => k = m
        /\ \A k, m \in 1 .. l :
             c[k].op = "kfree" /\ c[m].op = "kfree" /\ c[k].slot = c[m].slot => k = m
        /\ \A m \in 1 .. l : c[m].op = "kfree" =>
             \E k \in 1 .. l : c[k].op = "kmalloc" /\ c[k].slot = c[m].slot /\ k < m
        /\ \A k \in 1 .. l : c[k].op = "kmalloc" =>
             \E m \in 1 .. l : c[m].op = "kfree" /\ c[m].slot = c[k].slot /\ k < m
    BY <1>s DEF Straight
  <1>a. pc \in 1 .. l /\ c[pc].op = This.op /\ c[pc].slot = S /\ c[pc].size = This.size
    BY <1>2, <1>4
  <1>b. ASSUME NEW k \in 1 .. l, c[k].op = This.op, c[k].slot = S,
               This.op \in {"kmalloc", "kfree"}
        PROVE  k = pc
    BY <1>5, <1>a, <1>b
  <1>6. \A k \in 1 .. l : (k < pc' <=> k < pc \/ k = pc) /\ (pc <= k <=> pc' <= k \/ k = pc)
    BY <1>2
  <1>7. CASE This.op = "kmalloc"
    <2>1. S \in 1 .. MaxLocals /\ This.size \in Nat \ {0}
      BY <1>5, <1>7, <1>a
    <2>2. S \notin Pending
      <3>1. SUFFICES ASSUME S \in Pending PROVE FALSE
        OBVIOUS
      <3>2. PICK k \in 1 .. l : c[k].op = "kmalloc" /\ c[k].slot = S /\ k < pc
        BY <1>2, <2>1, <3>1
      <3>3. k = pc
        BY <1>7, <1>b, <3>2
      <3> QED BY <1>2, <3>2, <3>3
    <2>3. ASSUME NEW i \in Pending', i # S PROVE i \in Pending
      <3>1. i \in 1 .. MaxLocals
        BY <1>3, <2>3
      <3>2. PICK k \in 1 .. l : c[k].op = "kmalloc" /\ c[k].slot = i /\ k < pc'
        BY <1>2, <2>3, <3>1
      <3>3. PICK m \in 1 .. l : c[m].op = "kfree" /\ c[m].slot = i /\ pc' <= m
        BY <1>2, <2>3, <3>1
      <3>4. k < pc /\ pc <= m
        BY <1>4, <1>6, <2>3, <3>2, <3>3
      <3> QED BY <1>2, <3>1, <3>2, <3>3, <3>4
    <2>4. ASSUME NEW i \in Pending PROVE i \in Pending'
      <3>1. i \in 1 .. MaxLocals
        BY <1>3, <2>4
      <3>2. PICK k \in 1 .. l : c[k].op = "kmalloc" /\ c[k].slot = i /\ k < pc
        BY <1>2, <2>4, <3>1
      <3>3. PICK m \in 1 .. l : c[m].op = "kfree" /\ c[m].slot = i /\ pc <= m
        BY <1>2, <2>4, <3>1
      <3>4. k < pc' /\ pc' <= m
        BY <1>6, <1>7, <1>a, <3>2, <3>3
      <3> QED BY <1>2, <3>1, <3>2, <3>3, <3>4
    <2>5. S \in Pending'
      <3>1. PICK m \in 1 .. l : c[m].op = "kfree" /\ c[m].slot = S /\ pc < m
        BY <1>5, <1>7, <1>a
      <3>2. pc < pc' /\ pc' <= m
        BY <1>2, <3>1
      <3> QED BY <1>2, <1>7, <1>a, <2>1, <3>1, <3>2
    <2> QED BY <1>7, <2>1, <2>2, <2>3, <2>4, <2>5
  <1>8. CASE This.op = "kfree"
    <2>1. PICK k \in 1 .. l : c[k].op = "kmalloc" /\ c[k].slot = S /\ k < pc
      BY <1>5, <1>8, <1>a
    <2>2. S \in 1 .. MaxLocals
      BY <1>5, <2>1
    <2>3. S \in Pending
      <3>1. c[pc].op = "kfree" /\ c[pc].slot = S /\ pc <= pc
        BY <1>2, <1>4, <1>8
      <3> QED BY <1>2, <2>1, <2>2, <3>1
    <2>4. S \notin Pending'
      <3>1. SUFFICES ASSUME S \in Pending' PROVE FALSE
        OBVIOUS
      <3>2. PICK m \in 1 .. l : c[m].op = "kfree" /\ c[m].slot = S /\ pc' <= m
        BY <1>2, <2>2, <3>1
      <3>3. m = pc
        BY <1>8, <1>b, <3>2
      <3> QED BY <1>2, <3>2, <3>3
    <2>5. ASSUME NEW i \in Pending' PROVE i \in Pending
      <3>1. i \in 1 .. MaxLocals
        BY <1>3, <2>5
      <3>2. PICK j \in 1 .. l : c[j].op = "kmalloc" /\ c[j].slot = i /\ j < pc'
        BY <1>2, <2>5, <3>1
      <3>3. PICK m \in 1 .. l : c[m].op = "kfree" /\ c[m].slot = i /\ pc' <= m
        BY <1>2, <2>5, <3>1
      <3>4. j < pc /\ pc <= m
        BY <1>4, <1>6, <1>8, <3>2, <3>3
      <3> QED BY <1>2, <3>1, <3>2, <3>3, <3>4
    <2>6. ASSUME NEW i \in Pending, i # S PROVE i \in Pending'
      <3>1. i \in 1 .. MaxLocals
        BY <1>3, <2>6
      <3>2. PICK j \in 1 .. l : c[j].op = "kmalloc" /\ c[j].slot = i /\ j < pc
        BY <1>2, <2>6, <3>1
      <3>3. PICK m \in 1 .. l : c[m].op = "kfree" /\ c[m].slot = i /\ pc <= m
        BY <1>2, <2>6, <3>1
      <3>4. j < pc' /\ pc' <= m
        BY <1>6, <1>a, <2>6, <3>2, <3>3
      <3> QED BY <1>2, <3>1, <3>2, <3>3, <3>4
    <2> QED BY <1>8, <2>3, <2>4, <2>5, <2>6
  <1>9. CASE This.op \notin {"kmalloc", "kfree"}
    <2>1. ASSUME NEW i \in 1 .. MaxLocals PROVE i \in Pending <=> i \in Pending'
      <3>1. \A k \in 1 .. l : c[k].op \in {"kmalloc", "kfree"} =>
               (k < pc' <=> k < pc) /\ (pc' <= k <=> pc <= k)
        BY <1>4, <1>6, <1>9
      <3> QED BY <1>2, <2>1, <3>1
    <2> QED BY <1>3, <1>9, <2>1
  <1> QED BY <1>7, <1>8, <1>9

\* memtest has the pointers allocated so far, in the order of the allocations,
\* until it has freed them.
LEMMA PendingOfMemtest ==
    ASSUME IInv, routine = "memtest"
    PROVE  /\ \A i \in Pending : i \in 1 .. MemtestLength
           /\ \A i \in 1 .. MemtestLength :
                i \in Pending <=> i < pc /\ pc <= MemtestLength + i
  <1> DEFINE n == MemtestLength
  <1>1. /\ Code = memtest /\ Len(memtest) = n + n + 1 /\ n \in Nat
        /\ pc \in Nat \ {0} /\ pc <= n + n + 1
    BY SizesAreNat, MemtestCode DEF Code, IInv, Position
  <1>2. \A k \in 1 .. n + n + 1 :
          /\ memtest[k].op = "kmalloc" <=> k <= n
          /\ memtest[k].op = "kfree" <=> k > n /\ k <= n + n
          /\ k <= n => memtest[k].slot = k
          /\ k > n /\ k <= n + n => memtest[k].slot = k - n
    BY <1>1, MemtestSites
  <1>3. n <= MaxLocals /\ MaxLocals \in Nat
    BY SizesAreNat
  <1> HIDE DEF n
  <1>4. \A i \in 1 .. MaxLocals : i \in Pending <=>
          /\ \E k \in 1 .. n + n + 1 :
               memtest[k].op = "kmalloc" /\ memtest[k].slot = i /\ k < pc
          /\ \E k \in 1 .. n + n + 1 :
               memtest[k].op = "kfree" /\ memtest[k].slot = i /\ pc <= k
    BY <1>1 DEF Pending, Kmallocs, Kfrees
  <1>5. ASSUME NEW i \in Pending PROVE i \in 1 .. n /\ i < pc /\ pc <= n + i
    <2>1. i \in 1 .. MaxLocals
      BY <1>5 DEF Pending
    <2>2. PICK k \in 1 .. n + n + 1 :
            memtest[k].op = "kmalloc" /\ memtest[k].slot = i /\ k < pc
      BY <1>4, <1>5, <2>1
    <2>3. PICK m \in 1 .. n + n + 1 :
            memtest[m].op = "kfree" /\ memtest[m].slot = i /\ pc <= m
      BY <1>4, <1>5, <2>1
    <2> QED BY <1>1, <1>2, <2>2, <2>3
  <1>6. ASSUME NEW i \in 1 .. n, i < pc, pc <= n + i PROVE i \in Pending
    <2>1. /\ i \in 1 .. MaxLocals /\ i \in 1 .. n + n + 1 /\ n + i \in 1 .. n + n + 1
          /\ n + i > n /\ n + i <= n + n /\ (n + i) - n = i /\ i <= n
      BY <1>1, <1>3
    <2>2. memtest[i].op = "kmalloc" /\ memtest[i].slot = i
      BY <1>2, <2>1
    <2>3. memtest[n + i].op = "kfree" /\ memtest[n + i].slot = i
      BY <1>2, <2>1
    <2> QED BY <1>4, <1>6, <2>1, <2>2, <2>3
  <1> QED BY <1>5, <1>6 DEF n

\* At the prompt nothing is to be freed.
LEMMA NothingPending ==
    ASSUME IInv, HasShell, routine = "boot"
    PROVE  Pending = {}
  <1>1. Code = Boot["kfs3_bonus"] /\ "kfs3_bonus" \in Programs
    BY DEF Code, HasShell, IInv, Position
  <1>2. \A k \in 1 .. Len(Code) : Code[k].op # "kmalloc"
    BY <1>1, ShellSites
  <1> QED BY <1>2 DEF Pending, Kmallocs

----------------------------------------------------------------------------
(* What a call does to the heap *)

LEMMA Layout == KH!LayoutAssumption
  BY KernelAssumption DEF KH!LayoutAssumption

LEMMA CallsOK == KH!CallsAssumption
  BY DEF KH!CallsAssumption

LEMMA SameSteps ==
    /\ NULL = -1 /\ Heap!NULL = -1 /\ KH!NULL = -1
    /\ Heap!HEAP_MAGIC = KH!HEAP_MAGIC
    /\ Heap!Blocks = DOMAIN hdr /\ KH!Blocks = DOMAIN hdr
    /\ Heap!NotFreed = [ptr |-> -1, size |-> 0]
    /\ \A a : Heap!DataStart(a) = a + HeaderSize
    /\ \A a : Heap!Magic(a) = KH!Magic(a)
    /\ \A n : Heap!AlignSize(n) = KH!AlignSize(n)
    /\ \A b, n : Heap!FirstFit(b, n) <=>
         /\ b \in DOMAIN hdr /\ KH!Fits(b, n)
         /\ \A c \in DOMAIN hdr : c < b => ~KH!Fits(c, n)
  BY DEF NULL, Heap!NULL, KH!NULL, Heap!HEAP_MAGIC, KH!HEAP_MAGIC,
         Heap!HEAP_MAGIC_FREE, KH!HEAP_MAGIC_FREE, Heap!Blocks,
         KH!Blocks, Heap!NotFreed, Heap!DataStart, Heap!Magic, KH!Magic,
         Heap!AlignSize, KH!AlignSize, Heap!FirstFit, Heap!Fits, KH!Fits

LEMMA SameTake == \A b, n : Heap!Take(b, n) <=> KH!Take(b, n)
  BY DEF Heap!Take, KH!Take, Heap!Splits, KH!Splits, Heap!Split, KH!Split,
         Heap!MarkUsed, KH!MarkUsed, Heap!HEAP_MAGIC, KH!HEAP_MAGIC,
         Heap!HEAP_MAGIC_FREE, KH!HEAP_MAGIC_FREE, Heap!NULL, KH!NULL

LEMMA SameRelease == \A b : Heap!Release(b) <=> KH!Release(b)
  <1>m. /\ Heap!HEAP_MAGIC = KH!HEAP_MAGIC /\ Heap!NULL = KH!NULL
        /\ Heap!HEAP_MAGIC_FREE = KH!HEAP_MAGIC_FREE /\ Heap!Blocks = KH!Blocks
    BY DEF Heap!HEAP_MAGIC, KH!HEAP_MAGIC, Heap!HEAP_MAGIC_FREE, Heap!NULL,
           KH!HEAP_MAGIC_FREE, KH!NULL, Heap!Blocks, KH!Blocks
  <1>a. \A h, b : Heap!MarkFree(h, b) = KH!MarkFree(h, b)
    BY <1>m DEF Heap!MarkFree, KH!MarkFree
  <1>b. /\ \A h, b : Heap!NextIsFree(h, b) <=> KH!NextIsFree(h, b)
        /\ \A h, b : Heap!PrevIsFree(h, b) <=> KH!PrevIsFree(h, b)
    BY <1>m DEF Heap!NextIsFree, KH!NextIsFree, Heap!PrevIsFree, KH!PrevIsFree
  <1>c. \A h, b : Heap!Absorb(h, b) = KH!Absorb(h, b)
    BY <1>m DEF Heap!Absorb, KH!Absorb
  <1>d. \A last, h, b : Heap!EndAfter(last, h, b) = KH!EndAfter(last, h, b)
    BY <1>m DEF Heap!EndAfter, KH!EndAfter
  <1>e. \A b : Heap!ReleasedSize(b) = KH!ReleasedSize(b)
    BY <1>b DEF Heap!ReleasedSize, KH!ReleasedSize
  <1>1. /\ \A h, b : Heap!MarkFree(h, b) = KH!MarkFree(h, b)
        /\ \A h, b : Heap!NextIsFree(h, b) <=> KH!NextIsFree(h, b)
        /\ \A h, b : Heap!PrevIsFree(h, b) <=> KH!PrevIsFree(h, b)
        /\ \A h, b : Heap!Absorb(h, b) = KH!Absorb(h, b)
        /\ \A last, h, b : Heap!EndAfter(last, h, b) = KH!EndAfter(last, h, b)
        /\ \A b : Heap!ReleasedSize(b) = KH!ReleasedSize(b)
        /\ Heap!HEAP_MAGIC_FREE = KH!HEAP_MAGIC_FREE /\ Heap!Blocks = KH!Blocks
    BY <1>m, <1>a, <1>b, <1>c, <1>d, <1>e
  <1>2. ASSUME NEW b PROVE Heap!Release(b) <=> KH!Release(b)
    BY <1>1 DEF Heap!Release, KH!Release
  <1> QED BY <1>2

LEMMA SameChecked == \A b : Heap!Checked(b) = KH!Checked(b)
  BY DEF Heap!Checked, KH!Checked, Heap!HEAP_MAGIC_FREE, KH!HEAP_MAGIC_FREE

LEMMA SameHandOut == \A b, p, req : Heap!HandOut(b, p, req) <=> KH!HandOut(b, p, req)
  BY DEF Heap!HandOut, KH!HandOut

\* A call put block b, which was free, in use, or took it out of use.
Took(h, s, b) ==
    /\ b \in DOMAIN h /\ h[b].free = 1
    /\ KH!Used(s) = KH!Used(h) \cup {b}
    /\ \A a \in KH!Used(h) : s[a].size = h[a].size

Gave(h, s, b) ==
    /\ b \in KH!Used(h)
    /\ KH!Used(s) = KH!Used(h) \ {b}
    /\ \A a \in KH!Used(h) \ {b} : s[a].size = h[a].size

LEMMA SoundStands ==
    ASSUME Sound
    PROVE  /\ Standing /\ KH!HeapOK(hdr) /\ DOMAIN hdr \subseteq Nat
           /\ KH!Used(hdr) = DOMAIN live
  <1>1. KH!HeapOK(hdr) /\ KH!UsedIsLive
    BY DEF Sound, KH!IInv
  <1>2. 0 \in DOMAIN hdr /\ DOMAIN hdr \subseteq Nat
    BY <1>1 DEF KH!HeapOK, KH!TiledList
  <1>3. \A a \in DOMAIN hdr : hdr[a].magic # "zero"
    BY <1>1 DEF KH!HeapOK, KH!Header, KH!HEAP_MAGIC, KH!HEAP_MAGIC_FREE
  <1>4. hdr # NoBlocks
    <2>1. DOMAIN NoBlocks = {}
      BY DEF NoBlocks
    <2> QED BY <1>2, <2>1
  <1> QED BY <1>1, <1>2, <1>3, <1>4
          DEF Standing, HeapReady, KH!UsedIsLive, KH!Used, KH!Blocks

\* kmalloc returns NULL and changes nothing, or the data of a block that was
\* free.
LEMMA KmallocEffect ==
    ASSUME Sound, kernel = "running", NEW size \in Nat, kmalloc(size)
    PROVE  /\ Sound' /\ heap_current' = heap_current /\ kernel' = kernel
           /\ cpu' = cpu
           /\ \/ Allocated(size) = NULL /\ hdr' = hdr
              \/ \E b : Took(hdr, hdr', b) /\ Allocated(size) = b + HeaderSize
  <1>1. KH!IInv /\ DOMAIN hdr \subseteq Nat /\ KH!Used(hdr) = DOMAIN live
    BY SoundStands DEF Sound
  <1>f. Heap!NotFreed \in [ptr : Int, size : Nat]
    BY DEF Heap!NotFreed, Heap!NULL
  <1>2. CASE Fit(size) = {}
    <2>1. /\ UNCHANGED <<hdr, heap_end, heap_total_allocated, heap_total_free,
                         remnant, heap_current, kernel, live>>
          /\ last_freed' \in [ptr : Int, size : Nat]
      BY <1>2, <1>f DEF kmalloc, Heap!KmallocFails, Heap!heapVars
    <2>2. KH!IInv'
      BY <1>1, <2>1 DEF KH!IInv, KH!TypeOK, KH!Blocks, KH!Coalesced, KH!NextIsFree,
                       KH!NoCorruption, KH!UsedIsLive
    <2>3. cpu' = cpu
      BY <2>1 DEF kmalloc, HeapPanics
    <2> QED BY <1>2, <2>1, <2>2, <2>3 DEF Sound, Allocated
  <1>3. CASE Fit(size) # {}
    <2> DEFINE n == KH!AlignSize(size)
    <2>1. n \in Nat
      BY Layout, CallsOK, KH!AlignSizeNat
    <2>2. Heap!AlignSize(size) = n
      BY SameSteps
    <2> HIDE DEF n
    <2>3. PICK b \in Heap!Blocks :
            /\ Heap!FirstFit(b, n) /\ Heap!Take(b, n)
            /\ kernel' = Heap!Checked(b)
            /\ remnant' = remnant \ Heap!NewHeaderBytes(b, n)
            /\ Heap!HandOut(b, Heap!DataStart(b), size)
            /\ last_freed' = Heap!NotFreed /\ heap_current' = heap_current
      BY <1>3, <2>2 DEF kmalloc, Heap!Kmalloc
    <2>4. /\ b \in KH!Blocks /\ b \in DOMAIN hdr /\ b \in Nat /\ KH!Fits(b, n)
          /\ KH!Take(b, n) /\ KH!HandOut(b, b + HeaderSize, size)
          /\ b + HeaderSize \in Int
      BY <1>1, <2>3, SameSteps, SameTake, SameHandOut, KernelAssumption
    <2>k. kernel' = kernel /\ cpu' = cpu
      <3>1. KH!Checked(b) = kernel
        BY <1>1, <2>1, <2>4, Layout, CallsOK, KH!TakeOK
      <3>2. kernel' = kernel
        BY <2>3, <3>1, SameChecked
      <3> QED BY <1>3, <3>2 DEF kmalloc, HeapPanics
    <2>5. KH!OthersTyped
      <3>1. heap_current \in 0 .. HeapSize /\ remnant \subseteq 0 .. HeapSize
        BY <1>1 DEF KH!IInv, KH!TypeOK
      <3> QED BY <1>f, <2>3, <3>1 DEF KH!OthersTyped
    <2>6. KH!IInv'
      BY <1>1, <2>1, <2>4, <2>5, <2>k, Layout, CallsOK, KH!AllocKeeps
    <2>7. /\ KH!ListKept({a \in KH!Blocks : hdr[a].free = 0} \cup {b})
          /\ \A a \in KH!Blocks \ {b} : hdr'[a].size = hdr[a].size
      BY <1>1, <2>1, <2>4, Layout, CallsOK, KH!TakeOK
    <2>8. Took(hdr, hdr', b)
      <3>1. hdr[b].free = 1
        BY <2>4 DEF KH!Fits
      <3>2. b \notin KH!Used(hdr) /\ KH!Used(hdr) \subseteq KH!Blocks
        BY <3>1 DEF KH!Used, KH!Blocks
      <3>3. /\ {a \in KH!Blocks : hdr[a].free = 0} = KH!Used(hdr)
            /\ {a \in DOMAIN hdr' : hdr'[a].free = 0} = KH!Used(hdr')
        BY DEF KH!Used, KH!Blocks
      <3> QED BY <2>4, <2>7, <3>1, <3>2, <3>3 DEF Took, KH!ListKept
    <2>9. \A c \in DOMAIN live' : live'[c].ptr = c + HeaderSize
      BY <2>4 DEF KH!HandOut, Sound
    <2>10. Allocated(size) = b + HeaderSize
      <3>1. \A c \in Fit(size) : c = b
        <4>1. SUFFICES ASSUME NEW c \in Fit(size) PROVE c = b
          OBVIOUS
        <4>2. c \in DOMAIN hdr /\ KH!Fits(c, n) /\ \A a \in DOMAIN hdr : a < c => ~KH!Fits(a, n)
          BY <2>2, SameSteps DEF Fit
        <4>3. \A a \in DOMAIN hdr : a < b => ~KH!Fits(a, n)
          BY <2>3, SameSteps
        <4> QED BY <1>1, <2>4, <4>2, <4>3
      <3>2. (CHOOSE c \in Fit(size) : TRUE) = b
        BY <1>3, <3>1
      <3> QED BY <1>3, <3>2, SameSteps DEF Allocated
    <2> QED BY <2>3, <2>6, <2>8, <2>9, <2>10, <2>k DEF Sound
  <1> QED BY <1>2, <1>3

\* kfree of a block in use puts that block, and no other, out of use.
LEMMA KfreeEffect ==
    ASSUME Sound, kernel = "running", NEW ptr \in Nat,
           ptr - HeaderSize \in KH!Used(hdr), kfree(ptr)
    PROVE  /\ Sound' /\ heap_current' = heap_current /\ kernel' = "running"
           /\ cpu' = cpu
           /\ Gave(hdr, hdr', ptr - HeaderSize)
  <1> DEFINE b == ptr - HeaderSize
  <1>1. KH!IInv /\ DOMAIN hdr \subseteq Nat /\ KH!Used(hdr) = DOMAIN live
        /\ KH!HeapOK(hdr)
    BY SoundStands DEF Sound
  <1>2. b \in DOMAIN hdr /\ b \in KH!Blocks /\ hdr[b].free = 0
    BY DEF KH!Used, KH!Blocks
  <1>3. hdr[b].magic = KH!HEAP_MAGIC /\ hdr[b].size \in Nat
    BY <1>1, <1>2 DEF KH!HeapOK, KH!Header
  <1>4. ptr # NULL /\ Heap!Magic(ptr - HeaderSize) = Heap!HEAP_MAGIC
    <2>1. KH!Magic(b) = KH!HEAP_MAGIC
      BY <1>2, <1>3 DEF KH!Magic
    <2> QED BY <2>1, SameSteps
  <1>5. Heap!Kfree(ptr)
    BY <1>4 DEF kfree
  <1>6. /\ Heap!Release(b) /\ last_freed' = [ptr |-> ptr, size |-> hdr[b].size]
        /\ heap_current' = heap_current
    BY <1>5 DEF Heap!Kfree
  <1> HIDE DEF b
  <1>7. KH!Release(b)
    BY <1>6, SameRelease
  <1>8. /\ KH!ListKept({a \in KH!Blocks : hdr[a].free = 0} \ {b})
        /\ DOMAIN hdr' \subseteq KH!Blocks
        /\ \A a \in KH!Blocks \ {b} :
             hdr[a].free = 0 => a \in DOMAIN hdr' /\ hdr'[a].size = hdr[a].size
        /\ remnant' = remnant \cup (KH!Blocks \ DOMAIN hdr')
        /\ kernel' = kernel
    BY <1>1, <1>2, <1>7, Layout, CallsOK, KH!ReleaseOK
  <1>9. KH!OthersTyped
    <2>1. /\ heap_current \in 0 .. HeapSize /\ remnant \subseteq 0 .. HeapSize
          /\ KH!Blocks \subseteq 0 .. HeapSize
      <3>1. /\ heap_current \in 0 .. HeapSize /\ remnant \subseteq 0 .. HeapSize
            /\ KH!Blocks \subseteq 0 .. HeapSize - HeaderSize
        BY <1>1 DEF KH!IInv, KH!TypeOK
      <3> QED BY <3>1, KernelAssumption
    <2>2. [ptr |-> ptr, size |-> hdr[b].size] \in [ptr : Int, size : Nat]
      BY <1>3
    <2> QED BY <1>6, <1>8, <2>1, <2>2 DEF KH!OthersTyped
  <1>10. KH!IInv'
    BY <1>1, <1>2, <1>7, <1>9, Layout, CallsOK, KH!FreeKeeps
  <1>11. Gave(hdr, hdr', b) /\ kernel' = kernel
    <2>1. /\ {a \in KH!Blocks : hdr[a].free = 0} = KH!Used(hdr)
          /\ {a \in DOMAIN hdr' : hdr'[a].free = 0} = KH!Used(hdr')
          /\ \A a \in KH!Used(hdr) : a \in KH!Blocks /\ hdr[a].free = 0
      BY DEF KH!Used, KH!Blocks
    <2>2. b \in KH!Used(hdr)
      BY DEF b
    <2> QED BY <1>8, <2>1, <2>2 DEF Gave, KH!ListKept
  <1>12. \A c \in DOMAIN live' : live'[c].ptr = c + HeaderSize
    <2>1. live' = [a \in DOMAIN live \ {b} |-> live[a]]
      BY <1>7 DEF KH!Release
    <2> QED BY <2>1 DEF Sound
  <1>13. cpu' = cpu
    BY <1>11 DEF kfree, HeapPanics
  <1> QED BY <1>6, <1>10, <1>11, <1>12, <1>13 DEF Sound, b

\* kheap_init, on variables that are as the loader left them.
LEMMA InitSound ==
    ASSUME NoHeap, heap_current = 0, kernel = "running", KheapInit
    PROVE  Sound'
  <1>1. KH!Init'
    BY DEF NoHeap, NoBlocks, NULL, Heap!NULL, KH!NULL, Heap!NotFreed, KH!NotFreed, KheapInit, KH!Init,
           Heap!HEAP_MAGIC_FREE, KH!HEAP_MAGIC_FREE
  <1>2. (KH!Init => KH!IInv)'
    BY Layout, CallsOK, KH!InitHolds, PTL
  <1>3. DOMAIN live' = {}
    BY DEF NoHeap, NoBlocks, KheapInit
  <1> QED BY <1>1, <1>2, <1>3 DEF Sound

\* What nothing depends on but the answer to a double free.
LEMMA RemnantsFree ==
    ASSUME Sound, remnant' \subseteq remnant,
           UNCHANGED <<hdr, heap_end, heap_total_allocated, heap_total_free,
                       heap_current, kernel, live, last_freed>>
    PROVE  Sound'
  BY DEF Sound, KH!IInv, KH!TypeOK, KH!Blocks, KH!Coalesced, KH!NextIsFree,
         KH!NoCorruption, KH!UsedIsLive

----------------------------------------------------------------------------
(* Where the free blocks lie *)

\* A sound list without two free neighbours.
Merged(h) ==
    KH!HeapOK(h) /\ \A a \in DOMAIN h : h[a].free = 1 => ~KH!NextIsFree(h, a)

LEMMA MergedFacts ==
    ASSUME NEW h, Merged(h), NEW a \in DOMAIN h
    PROVE  /\ a \in Nat /\ KH!BlockEnd(h, a) \in Nat
           /\ a < KH!BlockEnd(h, a) /\ KH!BlockEnd(h, a) <= HeapSize
           /\ a + HeaderSize <= HeapSize
           /\ (h[a].free = 1 /\ a \notin KH!Used(h)) \/ (h[a].free = 0 /\ a \in KH!Used(h))
           /\ \A c \in DOMAIN h : a < c => KH!BlockEnd(h, a) <= c
           /\ h[a].free = 1 /\ KH!BlockEnd(h, a) # HeapSize =>
                /\ KH!BlockEnd(h, a) \in DOMAIN h
                /\ KH!BlockEnd(h, a) \in KH!Used(h)
  <1>1. KH!HeapOK(h)
    BY DEF Merged
  <1>2. /\ a \in Nat /\ KH!BlockEnd(h, a) \in Nat
        /\ a < KH!BlockEnd(h, a) /\ KH!BlockEnd(h, a) <= HeapSize
        /\ h[a] \in KH!Header
        /\ KH!BlockEnd(h, a) # HeapSize => KH!BlockEnd(h, a) \in DOMAIN h
    BY <1>1, Layout, CallsOK, KH!BlockFacts
  <1>3. KH!BlockEnd(h, a) # HeapSize => h[a].next = KH!BlockEnd(h, a)
    <2>1. KH!TiledList(h)
      BY <1>1 DEF KH!HeapOK
    <2> QED BY <2>1 DEF KH!TiledList
  <1>4. /\ a + HeaderSize <= HeapSize
        /\ \A c \in DOMAIN h : a < c => KH!BlockEnd(h, a) <= c
    <2>1. KH!TiledList(h) /\ a \in 0 .. HeapSize - HeaderSize
      BY <1>1 DEF KH!HeapOK
    <2> QED BY <2>1, KernelAssumption DEF KH!TiledList
  <1>5. \A c \in DOMAIN h : (h[c].free = 1 /\ c \notin KH!Used(h))
                              \/ (h[c].free = 0 /\ c \in KH!Used(h))
    <2>1. \A c \in DOMAIN h : h[c] \in KH!Header
      BY <1>1 DEF KH!HeapOK
    <2> QED BY <2>1 DEF KH!Header, KH!Used
  <1>6. ASSUME h[a].free = 1, KH!BlockEnd(h, a) # HeapSize
        PROVE  KH!BlockEnd(h, a) \in DOMAIN h /\ KH!BlockEnd(h, a) \in KH!Used(h)
    <2>1. KH!BlockEnd(h, a) \in DOMAIN h /\ h[a].next = KH!BlockEnd(h, a)
      BY <1>2, <1>3, <1>6
    <2>2. ~(h[a].next # KH!NULL /\ h[h[a].next].free = 1)
      BY <1>6 DEF Merged, KH!NextIsFree
    <2>3. KH!BlockEnd(h, a) # KH!NULL
      BY <1>2 DEF KH!NULL
    <2> QED BY <1>5, <2>1, <2>2, <2>3
  <1> QED BY <1>2, <1>4, <1>5, <1>6

LEMMA SoundMerged ==
    /\ Sound => Merged(hdr)
    /\ (Sound => Merged(hdr))'
  <1>1. Sound => Merged(hdr)
    BY DEF Sound, KH!IInv, KH!Coalesced, KH!Blocks, Merged
  <1> QED BY <1>1, PTL

\* The last block, and what is in front of it.
LEMMA LastBlock ==
    ASSUME NEW h, Merged(h), NEW b \in DOMAIN h, KH!BlockEnd(h, b) = HeapSize,
           NEW a \in DOMAIN h
    PROVE  a <= b
  <1>1. /\ a \in Nat /\ b \in Nat /\ KH!BlockEnd(h, a) \in Nat
        /\ a < KH!BlockEnd(h, a) /\ KH!BlockEnd(h, a) <= HeapSize
    BY MergedFacts
  <1>2. b < a => KH!BlockEnd(h, b) <= a
    BY MergedFacts
  <1> QED BY <1>1, <1>2, KernelAssumption

\* A free block behind all that are in use is the last one.
LEMMA NoGapBehind ==
    ASSUME NEW h, Merged(h), NEW a \in DOMAIN h, h[a].free = 1,
           \A t \in KH!Used(h) : t < a
    PROVE  KH!BlockEnd(h, a) = HeapSize
  <1>1. SUFFICES ASSUME KH!BlockEnd(h, a) # HeapSize PROVE FALSE
    OBVIOUS
  <1>2. /\ KH!BlockEnd(h, a) \in KH!Used(h) /\ a \in Nat
        /\ KH!BlockEnd(h, a) \in Nat /\ a < KH!BlockEnd(h, a)
    BY <1>1, MergedFacts
  <1> QED BY <1>2

\* kmalloc takes from the end of the heap when nothing else is free.
LEMMA TookAtEnd ==
    ASSUME NEW h, Merged(h), NEW s, Merged(s), NEW b, Took(h, s, b),
           KH!FreeAtEnd(h)
    PROVE  /\ \A a \in KH!Used(h) : a < b
           /\ KH!FreeAtEnd(s)
           /\ b \in Nat /\ b + HeaderSize <= HeapSize
  <1>1. b \in DOMAIN h /\ h[b].free = 1 /\ KH!BlockEnd(h, b) = HeapSize
    BY DEF Took, KH!FreeAtEnd
  <1>2. b \notin KH!Used(h) /\ b \in Nat /\ b + HeaderSize <= HeapSize
    BY <1>1, MergedFacts
  <1>3. ASSUME NEW a \in KH!Used(h) PROVE a < b
    <2>1. a \in DOMAIN h
      BY DEF KH!Used
    <2>2. a <= b /\ a # b /\ a \in Nat
      BY <1>1, <1>2, <1>3, <2>1, LastBlock, MergedFacts
    <2> QED BY <1>2, <2>2
  <1>4. ASSUME NEW a \in DOMAIN s, s[a].free = 1, KH!BlockEnd(s, a) # HeapSize
        PROVE  FALSE
    <2> DEFINE c == KH!BlockEnd(s, a)
    <2>1. c \in DOMAIN s /\ c \in KH!Used(s)
      BY <1>4, MergedFacts
    <2>2. c \in DOMAIN h
      BY <1>1, <2>1 DEF Took, KH!Used
    <2>3. \A d \in KH!Used(h) \cap KH!Used(s) : h[d].size = s[d].size
      BY DEF Took
    <2>4. KH!HeapOK(h) /\ KH!HeapOK(s)
      BY DEF Merged
    <2>5. PICK d \in DOMAIN h : KH!BlockEnd(h, d) = c /\ d \notin KH!Used(h) \cap KH!Used(s)
      BY <1>4, <2>2, <2>3, <2>4, Layout, CallsOK, KH!BehindGap
    <2>6. d \notin KH!Used(h)
      BY <2>5 DEF Took
    <2>7. h[d].free = 1
      BY <2>6, MergedFacts
    <2>8. c = HeapSize
      BY <2>5, <2>7 DEF KH!FreeAtEnd
    <2> QED BY <1>4, <2>8
  <1> QED BY <1>2, <1>3, <1>4 DEF KH!FreeAtEnd

\* Free blocks are the last one, and one between the blocks of S and of T.
OneGap(h, S, T) ==
    \A a \in DOMAIN h : h[a].free = 1 => KH!BlockEnd(h, a) = HeapSize \/ Gap(a, S, T)

\* When the first block of T is freed the gap grows towards the next one.
LEMMA GaveFirst ==
    ASSUME NEW h, Merged(h), NEW s, Merged(s), NEW b, Gave(h, s, b),
           NEW S, NEW T, KH!Used(h) = S \cup T, OneGap(h, S, T),
           b \in T, \A t \in S : t < b, \A t \in T \ {b} : b < t
    PROVE  OneGap(s, S, T \ {b})
  <1>1. SUFFICES ASSUME NEW a \in DOMAIN s, s[a].free = 1,
                        KH!BlockEnd(s, a) # HeapSize
                 PROVE  Gap(a, S, T \ {b})
    BY DEF OneGap
  <1> DEFINE c == KH!BlockEnd(s, a)
  <1>2. /\ c \in KH!Used(s) /\ c \in Nat /\ a \in Nat /\ a < c
        /\ a \notin KH!Used(s)
        /\ \A d \in DOMAIN s : a < d => c <= d
    BY <1>1, MergedFacts
  <1>3. KH!Used(s) = (S \cup T) \ {b} /\ KH!Used(s) \subseteq KH!Used(h)
        /\ KH!Used(h) \subseteq DOMAIN h /\ KH!Used(s) \subseteq DOMAIN s
    BY DEF Gave, KH!Used
  <1>4. PICK g \in DOMAIN h : KH!BlockEnd(h, g) = c /\ g \notin KH!Used(h) \cap KH!Used(s)
    <2>1. \A d \in KH!Used(h) \cap KH!Used(s) : h[d].size = s[d].size
      BY DEF Gave
    <2>2. KH!HeapOK(h) /\ KH!HeapOK(s) /\ c \in DOMAIN h
      BY <1>2, <1>3 DEF Merged
    <2> QED BY <1>1, <2>1, <2>2, Layout, CallsOK, KH!BehindGap
  <1> HIDE DEF c
  <1>5. g \in Nat /\ g < c /\ \A d \in DOMAIN h : g < d => c <= d
    BY <1>4, MergedFacts
  <1>6. (\A t \in S : t < g) /\ (\A t \in T \ {b} : g < t)
    <2>1. CASE g = b
      BY <2>1
    <2>2. CASE g # b
      <3>1. g \notin KH!Used(h)
        BY <1>3, <1>4, <2>2 DEF Gave
      <3>2. h[g].free = 1
        BY <3>1, MergedFacts
      <3>3. KH!BlockEnd(h, g) # HeapSize
        BY <1>1, <1>4 DEF c
      <3>4. Gap(g, S, T)
        BY <3>2, <3>3 DEF OneGap
      <3> QED BY <3>4 DEF Gap
    <2> QED BY <2>1, <2>2
  <1>7. \A d \in KH!Used(h) : d \in Nat /\ d \in DOMAIN h
    BY <1>3, MergedFacts
  <1>8. ASSUME NEW t \in S PROVE t < a
    <2>1. t \in Nat /\ t < g /\ t # b
      BY <1>6, <1>7
    <2>2. t \in KH!Used(s) /\ t \in DOMAIN s /\ t # a
      BY <1>2, <1>3, <2>1
    <2>3. a < t => c <= t
      BY <1>2, <2>2
    <2> QED BY <1>2, <1>5, <2>1, <2>2, <2>3
  <1>9. ASSUME NEW t \in T \ {b} PROVE a < t
    <2>1. g < t /\ t \in Nat /\ t \in DOMAIN h
      BY <1>6, <1>7
    <2>2. c <= t
      BY <1>5, <2>1
    <2> QED BY <1>2, <2>1, <2>2
  <1> QED BY <1>8, <1>9 DEF Gap

\* When the last block is freed, and there is no gap, there is none then.
LEMMA GaveLast ==
    ASSUME NEW h, Merged(h), NEW s, Merged(s), NEW b, Gave(h, s, b),
           KH!FreeAtEnd(h), \A t \in KH!Used(h) \ {b} : t < b
    PROVE  KH!FreeAtEnd(s)
  <1> DEFINE S == KH!Used(h) \ {b}
             T == {b}
  <1>1. /\ KH!Used(h) = S \cup T /\ b \in T /\ \A t \in S : t < b
        /\ \A t \in T \ {b} : b < t
    BY DEF Gave
  <1>2. OneGap(h, S, T)
    BY DEF OneGap, KH!FreeAtEnd
  <1>3. KH!Used(s) = S
    BY DEF Gave
  <1> HIDE DEF S, T
  <1>4. OneGap(s, S, T \ {b})
    BY <1>1, <1>2, GaveFirst
  <1>5. ASSUME NEW a \in DOMAIN s, s[a].free = 1 PROVE KH!BlockEnd(s, a) = HeapSize
    <2>1. CASE Gap(a, S, T \ {b})
      <3>1. \A t \in KH!Used(s) : t < a
        BY <1>3, <2>1 DEF Gap
      <3> QED BY <1>5, <3>1, NoGapBehind
    <2> QED BY <1>4, <1>5, <2>1 DEF OneGap
  <1> QED BY <1>5 DEF KH!FreeAtEnd

----------------------------------------------------------------------------
(* The steps.  First the calls and the commands that leave the pointers and *)
(* the heap alone.                                                          *)

Still == UNCHANGED <<program, routine, locals, test_ptrs, test_count, before,
                     heapVars>>

LEMMA SameBlocksNext ==
    ASSUME UNCHANGED <<test_ptrs, test_count>>
    PROVE  Tests' = Tests /\ TestBlocks' = TestBlocks
  BY DEF Tests, TestBlocks

LEMMA StillKeeps ==
    ASSUME IInv, ShellInv, Still, Pending' = Pending,
           \/ pc' = pc
           \/ routine = "boot" /\ pc' = pc + 1 /\ (program \in KFS3 => pc # 8)
    PROVE  ShellInv'
  <1>1. /\ UNCHANGED <<program, routine, locals, test_ptrs, test_count, before>>
        /\ UNCHANGED <<hdr, heap_end, heap_current, heap_total_allocated,
                       heap_total_free, remnant, kernel, live, last_freed>>
        /\ pc \in Nat /\ routine \in {"boot", "memtest"}
    BY DEF Still, heapVars, IInv, Position
  <1>2. PointersTyped'
    BY <1>1 DEF ShellInv, PointersTyped
  <1>3. HeapInv'
    <2>1. Sound => Sound'
      BY <1>1, RemnantsFree
    <2>2. HeapUp' => HeapUp
      BY <1>1 DEF HeapUp, HasShell, KFS3
    <2>3. Standing' => Standing
      BY <1>1 DEF Standing, HeapReady, NoBlocks
    <2>4. routine = "boot" /\ pc' <= 8 => NoHeap'
      BY <1>1 DEF ShellInv, HeapInv, NoHeap, NoBlocks, Heap!NotFreed
    <2> QED BY <1>1, <2>1, <2>2, <2>3, <2>4 DEF ShellInv, HeapInv, HasShell
  <1>4. PendingInv'
    BY <1>1 DEF ShellInv, PendingInv, Owned
  <1>5. /\ TestBlocks' = TestBlocks /\ Locals' = Locals /\ LocalBlocks' = LocalBlocks
    BY <1>1, SameBlocksNext DEF Locals, LocalBlocks
  <1>6. StackInv'
    <2>1. TestsInOrder => TestsInOrder'
      BY <1>1 DEF TestsInOrder
    <2>2. LocalsInOrder => LocalsInOrder'
      BY <1>1 DEF LocalsInOrder
    <2>3. Stacked => Stacked'
      BY <1>1, <1>5 DEF Stacked
    <2>4. Compact => Compact'
      BY <1>1, <1>5 DEF Compact
    <2> QED BY <1>1, <2>1, <2>2, <2>3, <2>4 DEF ShellInv, StackInv, HasShell
  <1>7. TraceInv'
    BY <1>1, <1>5 DEF ShellInv, TraceInv
  <1> QED BY <1>2, <1>3, <1>4, <1>6, <1>7 DEF ShellInv

\* Boot goes on to the next call of its code.
LEMMA BootCall ==
    ASSUME IInv, ShellInv, pc <= Len(Code), Still, pc' = pc + 1,
           This.op \notin {"kmalloc", "kfree", "return", "kheap_init"}
    PROVE  ShellInv'
  <1>1. routine = "boot" /\ (program \in KFS3 => pc # 8)
    BY CallSites DEF Sites, IInv, Position
  <1>2. Code' = Code
    BY DEF Still, Code
  <1>3. Pending' = Pending
    BY <1>2, PendingSlots DEF NextCall
  <1> QED BY <1>1, <1>3, StillKeeps

\* A command that leaves the place in the code alone.
LEMMA StayPut ==
    ASSUME IInv, ShellInv, Still, pc' = pc
    PROVE  ShellInv'
  <1>1. Pending' = Pending
    BY DEF Still, Pending, Kmallocs, Kfrees, Code
  <1> QED BY <1>1, StillKeeps

----------------------------------------------------------------------------
(* The heap is set up, and put down by a reset. *)

LEMMA NothingPendingAtEnds ==
    ASSUME IInv, routine = "boot", program \in KFS3, pc <= 9 \/ pc >= 19
    PROVE  Pending = {}
  <1>1. CASE program = "kfs3_mandatory"
    <2>1. Code = Boot[program] /\ Len(Code) = 20 /\ pc \in Nat
      BY <1>1, MandatoryTests DEF Code, IInv, Position
    <2>2. \A k \in 1 .. Len(Code) : /\ Code[k].op = "kmalloc" => k >= 10
                                    /\ Code[k].op = "kfree" => k <= 18
      BY <1>1, <2>1, MandatorySites DEF IInv, Position
    <2> QED BY <2>1, <2>2 DEF Pending, Kmallocs, Kfrees
  <1>2. CASE HasShell
    BY <1>2, NothingPending
  <1> QED BY <1>1, <1>2 DEF KFS3, HasShell

LEMMA KheapInitKeeps ==
    ASSUME IInv, ShellInv, KheapInit
    PROVE  ShellInv'
  <1>1. cpu = "running" /\ pc <= Len(Code) /\ This.op = "kheap_init"
    BY DEF KheapInit, Calls, This
  <1>2. routine = "boot" /\ program \in KFS3 /\ pc = 8
    BY <1>1, CallSites DEF Sites
  <1>3. /\ UNCHANGED <<program, routine, locals, test_ptrs, test_count, before>>
        /\ heap_current' = heap_current /\ kernel' = kernel /\ pc' = 9
        /\ hdr' = [a \in {0} |-> [magic |-> Heap!HEAP_MAGIC_FREE,
                                  size |-> HeapSize - HeaderSize,
                                  free |-> 1, next |-> NULL, prev |-> NULL]]
    BY <1>2 DEF KheapInit, Returns, bootVars, shellVars
  <1>4. HeapInv /\ NoHeap /\ kernel = "running" /\ heap_current = 0
    BY <1>2 DEF ShellInv, HeapInv
  <1>5. Sound'
    BY <1>4, InitSound
  <1>6. PointersTyped'
    BY <1>3 DEF ShellInv, PointersTyped
  <1>7. HeapInv'
    BY <1>2, <1>3, <1>4, <1>5 DEF HeapInv
  <1>8. Pending = {} /\ Pending' = {}
    <2>1. Pending = {}
      BY <1>2, NothingPendingAtEnds
    <2>2. Pending' = Pending
      BY <1>1, <1>2, <1>3, PendingSlots DEF NextCall, Code
    <2> QED BY <2>1, <2>2
  <1>9. PendingInv'
    BY <1>8 DEF PendingInv
  <1>10. StackInv'
    <2>1. SUFFICES ASSUME HasShell' PROVE TestsInOrder' /\ LocalsInOrder' /\ Stacked' /\ Compact'
      BY DEF StackInv
    <2>2. TestsInOrder /\ Stacked
      BY <1>3, <2>1 DEF ShellInv, StackInv, HasShell
    <2>3. TestBlocks' = TestBlocks /\ LocalBlocks = {} /\ LocalBlocks' = {}
      BY <1>3, <1>8, SameBlocksNext DEF LocalBlocks, Locals
    <2>4. KH!Used(hdr) = {} /\ KH!Used(hdr') = {}
      <3>1. DOMAIN hdr = {}
        BY <1>4 DEF NoHeap, NoBlocks
      <3>2. DOMAIN hdr' = {0} /\ hdr'[0].free = 1
        BY <1>3
      <3> QED BY <3>1, <3>2 DEF KH!Used
    <2>5. TestsInOrder'
      BY <1>3, <2>2 DEF TestsInOrder
    <2>6. LocalsInOrder'
      BY <1>8 DEF LocalsInOrder
    <2>7. Stacked'
      BY <2>2, <2>3, <2>4 DEF Stacked
    <2>8. Compact'
      <3>1. DOMAIN hdr' = {0} /\ hdr'[0].size = HeapSize - HeaderSize
        BY <1>3
      <3>2. KH!BlockEnd(hdr', 0) = HeapSize
        BY <3>1, KernelAssumption DEF KH!BlockEnd
      <3> QED BY <3>1, <3>2 DEF Compact
    <2> QED BY <2>5, <2>6, <2>7, <2>8
  <1>11. TraceInv'
    BY <1>2, <1>3 DEF TraceInv
  <1> QED BY <1>6, <1>7, <1>9, <1>10, <1>11 DEF ShellInv

\* Nothing is allocated and there is no heap.
Bare ==
    /\ routine = "boot" /\ pc = 1 /\ NoHeap
    /\ test_ptrs = NoPointers(MaxTests) /\ test_count = 0
    /\ kernel = "running" /\ heap_current = 0
    /\ locals \in [1 .. MaxLocals -> NULL .. HeapSize]

LEMMA BareHolds == Bare => ShellInv
  <1> SUFFICES ASSUME Bare PROVE ShellInv
    OBVIOUS
  <1>1. /\ routine = "boot" /\ pc = 1 /\ NoHeap /\ test_count = 0
        /\ kernel = "running" /\ heap_current = 0
        /\ test_ptrs = [i \in 1 .. MaxTests |-> NULL]
        /\ MaxTests \in Nat /\ NULL = -1 /\ HeapSize \in Nat
    BY KernelAssumption, SameSteps DEF Bare, NoPointers
  <1>2. PointersTyped
    BY <1>1 DEF Bare, PointersTyped
  <1>3. DOMAIN hdr = {} /\ KH!Used(hdr) = {}
    BY <1>1 DEF NoHeap, NoBlocks, KH!Used
  <1>4. HeapInv
    <2>1. ~HeapUp /\ ~Standing
      BY <1>1 DEF HeapUp, Standing, HeapReady, NoHeap
    <2> QED BY <1>1, <2>1 DEF HeapInv
  <1>5. Pending = {}
    <2>1. \A i \in 1 .. MaxLocals : ~\E k \in Kmallocs(i) : k < pc
      BY <1>1 DEF Kmallocs
    <2> QED BY <2>1 DEF Pending
  <1>6. PendingInv
    BY <1>5 DEF PendingInv
  <1>7. TestBlocks = {} /\ LocalBlocks = {}
    BY <1>1, <1>5 DEF TestBlocks, Tests, LocalBlocks, Locals
  <1>8. TestsInOrder
    BY <1>1 DEF TestsInOrder
  <1>9. LocalsInOrder /\ Stacked /\ Compact
    BY <1>3, <1>5, <1>7 DEF LocalsInOrder, Stacked, Compact
  <1>10. TraceInv
    BY <1>1 DEF TraceInv
  <1> QED BY <1>2, <1>4, <1>6, <1>8, <1>9, <1>10 DEF ShellInv, StackInv

LEMMA InitShell == Init => ShellInv
  <1>1. Init => Bare
    <2>1. NoPointers(MaxLocals) \in [1 .. MaxLocals -> NULL .. HeapSize]
      BY SizesAreNat, SameSteps, KernelAssumption DEF NoPointers
    <2> QED BY <2>1 DEF Init, Bare, NoHeap
  <1> QED BY <1>1, BareHolds

LEMMA RebootKeeps ==
    ASSUME IInv, ShellInv, Reboot
    PROVE  ShellInv'
  <1>1. routine = "boot"
    BY PromptAfterBoot DEF Reboot, Typed
  <1>2. Bare'
    BY <1>1 DEF Reboot, Bare, NoHeap, NoBlocks, NoPointers, NULL, Heap!NULL, Heap!NotFreed,
               ShellInv, HeapInv, PointersTyped, bootVars
  <1>3. (Bare => ShellInv)'
    BY BareHolds, PTL
  <1> QED BY <1>2, <1>3

----------------------------------------------------------------------------
(* kmalloc and kfree in test_memory and in memtest *)

\* What is left to show of a call in test_memory.
LEMMA MandatoryKeeps ==
    ASSUME IInv, ShellInv, routine = "boot", program = "kfs3_mandatory",
           pc \in 10 .. 19, pc' = pc + 1, UNCHANGED <<program, routine>>,
           kernel' = "running", heap_current' = 0,
           PointersTyped', PendingInv', Sound' \/ (pc = 19 /\ ~Standing')
    PROVE  ShellInv'
  <1>1. ~HasShell'
    BY DEF HasShell
  <1>2. HeapInv'
    <2>1. pc = 19 => ~HeapUp'
      BY <1>1 DEF HeapUp
    <2> QED BY <1>1, <2>1 DEF HeapInv
  <1>3. StackInv' /\ TraceInv'
    BY <1>1 DEF StackInv, TraceInv
  <1> QED BY <1>2, <1>3 DEF ShellInv

LEMMA PtrFacts ==
    ASSUME PointersTyped
    PROVE  /\ NULL = -1 /\ HeapSize \in Nat /\ HeaderSize \in Nat \ {0}
           /\ MaxLocals \in Nat /\ MaxTests \in Nat \ {0}
           /\ test_count \in Nat /\ test_count <= MaxTests
           /\ \A i \in 1 .. MaxLocals : /\ locals[i] \in Int /\ locals[i] <= HeapSize
                                        /\ locals[i] # NULL => locals[i] \in Nat
           /\ \A i \in 1 .. MaxTests : /\ test_ptrs[i] \in Int /\ test_ptrs[i] <= HeapSize
                                       /\ test_ptrs[i] # NULL => test_ptrs[i] \in Nat
  BY SameSteps, SizesAreNat, KernelAssumption DEF PointersTyped

\* A call of kmalloc: it fails, or one more block is held.
KmallocCalled(i) ==
    /\ i \in 1 .. MaxLocals /\ i \notin Pending /\ Pending' = Pending \cup {i}
    /\ \/ locals' = [locals EXCEPT ![i] = NULL] /\ hdr' = hdr
       \/ \E b \in Nat : /\ Took(hdr, hdr', b)
                         /\ locals' = [locals EXCEPT ![i] = b + HeaderSize]

LEMMA KmallocCall ==
    ASSUME IInv, ShellInv, CallsKmalloc
    PROVE  /\ KmallocCalled(This.slot) /\ Sound /\ Sound'
           /\ PointersTyped' /\ PendingInv' /\ cpu' = cpu
           /\ kernel' = "running" /\ heap_current' = 0 /\ pc' = pc + 1
           /\ UNCHANGED <<program, routine, test_ptrs, test_count, before>>
  <1>1. /\ cpu = "running" /\ pc <= Len(Code) /\ This.op = "kmalloc"
        /\ kmalloc(This.size) /\ pc' = pc + 1
        /\ locals' = [locals EXCEPT ![This.slot] = Allocated(This.size)]
        /\ UNCHANGED <<program, routine, test_ptrs, test_count, before>>
    BY DEF CallsKmalloc, Calls, Returns, This, bootVars, shellVars
  <1>2. HeapUp
    BY <1>1, CallSites DEF Sites, HeapUp
  <1>3. Sound /\ kernel = "running" /\ heap_current = 0
    BY <1>2 DEF ShellInv, HeapInv
  <1> DEFINE i == This.slot
  <1>4. /\ i \in 1 .. MaxLocals /\ This.size \in Nat /\ i \notin Pending
        /\ Pending' = Pending \cup {i}
    <2>1. Code' = Code
      BY <1>1 DEF Code
    <2> QED BY <1>1, <2>1, PendingSlots DEF NextCall
  <1>5. /\ Sound' /\ heap_current' = heap_current /\ kernel' = kernel
        /\ cpu' = cpu
        /\ \/ Allocated(This.size) = NULL /\ hdr' = hdr
           \/ \E b : Took(hdr, hdr', b) /\ Allocated(This.size) = b + HeaderSize
    BY <1>1, <1>3, <1>4, KmallocEffect
  <1> HIDE DEF i
  <1>6. \A b : Took(hdr, hdr', b) => b \in Nat /\ b + HeaderSize <= HeapSize
                                       /\ b \notin KH!Used(hdr)
    BY <1>3, SoundMerged, MergedFacts DEF Took
  <1>7. KmallocCalled(i)
    BY <1>1, <1>4, <1>5, <1>6 DEF KmallocCalled, i
  <1>t. PointersTyped /\ PendingInv
    BY DEF ShellInv
  <1>8. PointersTyped'
    <2>1. Allocated(This.size) \in NULL .. HeapSize
      BY <1>5, <1>6, <1>t, PtrFacts
    <2> QED BY <1>1, <1>4, <1>t, <2>1 DEF PointersTyped, i
  <1>9. PendingInv'
    <2>1. \A j \in Pending : j # i /\ j \in 1 .. MaxLocals
      BY <1>4 DEF Pending
    <2>2. \A j \in 1 .. MaxLocals : j # i => locals'[j] = locals[j]
      BY <1>1, <1>t DEF PointersTyped, i
    <2>3. locals'[i] = Allocated(This.size)
      BY <1>1, <1>4, <1>t DEF PointersTyped, i
    <2>4. CASE Allocated(This.size) = NULL /\ hdr' = hdr
      BY <1>4, <1>t, <2>1, <2>2, <2>3, <2>4 DEF PendingInv, Owned
    <2>5. ASSUME NEW b, Took(hdr, hdr', b), Allocated(This.size) = b + HeaderSize
          PROVE  PendingInv'
      <3>1. KH!Used(hdr') = KH!Used(hdr) \cup {b} /\ b \notin KH!Used(hdr) /\ b \in Nat
        BY <1>6, <2>5 DEF Took
      <3>2. (b + HeaderSize) - HeaderSize = b
        BY <1>t, <3>1, PtrFacts
      <3>3. \A j \in Pending : locals[j] # NULL =>
               locals[j] - HeaderSize \in KH!Used(hdr) /\ locals[j] # b + HeaderSize
        BY <1>t, <3>1, <3>2 DEF PendingInv, Owned
      <3> QED BY <1>4, <1>t, <2>1, <2>2, <2>3, <2>5, <3>1, <3>2, <3>3 DEF PendingInv, Owned
    <2> QED BY <1>5, <2>4, <2>5
  <1> QED BY <1>1, <1>3, <1>5, <1>7, <1>8, <1>9 DEF i

\* A call of kfree: of NULL, or of a block that is held.
KfreeCalled(i) ==
    /\ i \in 1 .. MaxLocals /\ i \in Pending /\ Pending' = Pending \ {i}
    /\ locals' = locals
    /\ \/ locals[i] = NULL /\ hdr' = hdr
       \/ locals[i] # NULL /\ Gave(hdr, hdr', locals[i] - HeaderSize)

LEMMA KfreeCall ==
    ASSUME IInv, ShellInv, CallsKfree
    PROVE  /\ KfreeCalled(This.slot) /\ Sound /\ Sound'
           /\ PointersTyped' /\ PendingInv' /\ cpu' = cpu
           /\ kernel' = "running" /\ heap_current' = 0 /\ pc' = pc + 1
           /\ UNCHANGED <<program, routine, test_ptrs, test_count, before>>
  <1>1. /\ cpu = "running" /\ pc <= Len(Code) /\ This.op = "kfree"
        /\ kfree(locals[This.slot]) /\ pc' = pc + 1 /\ locals' = locals
        /\ UNCHANGED <<program, routine, test_ptrs, test_count, before>>
    BY DEF CallsKfree, Calls, Returns, This, bootVars, shellVars
  <1>2. HeapUp
    BY <1>1, CallSites DEF Sites, HeapUp
  <1>3. Sound /\ kernel = "running" /\ heap_current = 0
    BY <1>2 DEF ShellInv, HeapInv
  <1> DEFINE i == This.slot
  <1>4. i \in Pending /\ i \in 1 .. MaxLocals /\ Pending' = Pending \ {i}
    <2>1. Code' = Code
      BY <1>1 DEF Code
    <2>2. i \in Pending /\ Pending' = Pending \ {i}
      BY <1>1, <2>1, PendingSlots DEF NextCall
    <2> QED BY <2>2 DEF Pending
  <1> HIDE DEF i
  <1>t. PointersTyped /\ PendingInv
    BY DEF ShellInv
  <1>5. CASE locals[i] = NULL
    <2>1. UNCHANGED heapVars /\ cpu' = cpu
      BY <1>1, <1>3, <1>5 DEF kfree, HeapPanics, heapVars, i
    <2>2. Sound' /\ hdr' = hdr /\ kernel' = "running" /\ heap_current' = 0
      BY <1>3, <2>1, RemnantsFree DEF heapVars
    <2>3. KfreeCalled(i)
      BY <1>1, <1>4, <1>5, <2>2 DEF KfreeCalled
    <2>4. PointersTyped'
      BY <1>1, <1>t DEF PointersTyped
    <2>5. PendingInv'
      BY <1>1, <1>4, <1>t, <2>2 DEF PendingInv, Owned
    <2> QED BY <1>1, <1>3, <2>1, <2>2, <2>3, <2>4, <2>5 DEF i
  <1>6. CASE locals[i] # NULL
    <2> DEFINE p == locals[i]
    <2>1. p \in Nat /\ p - HeaderSize \in KH!Used(hdr)
      BY <1>4, <1>6, <1>t, PtrFacts DEF PendingInv, Owned
    <2>2. kfree(p)
      BY <1>1 DEF i
    <2> HIDE DEF p
    <2>3. /\ Sound' /\ heap_current' = heap_current /\ kernel' = "running"
          /\ cpu' = cpu /\ Gave(hdr, hdr', p - HeaderSize)
      BY <1>3, <2>1, <2>2, KfreeEffect
    <2>4. KfreeCalled(i)
      BY <1>1, <1>4, <1>6, <2>3 DEF KfreeCalled, p
    <2>5. PointersTyped'
      BY <1>1, <1>t DEF PointersTyped
    <2>6. PendingInv'
      <3>1. ASSUME NEW j \in Pending', locals[j] # NULL
            PROVE  locals[j] - HeaderSize \in KH!Used(hdr')
        <4>1. /\ j \in Pending /\ j # i /\ locals[j] # p
              /\ locals[j] - HeaderSize \in KH!Used(hdr)
          BY <1>4, <1>t, <3>1 DEF PendingInv, Owned, p
        <4>2. locals[j] \in Nat
          BY <1>t, <3>1, <4>1, PtrFacts DEF Pending
        <4>3. locals[j] - HeaderSize # p - HeaderSize
          BY <1>t, <2>1, <4>1, <4>2, PtrFacts
        <4> QED BY <2>3, <4>1, <4>3 DEF Gave
      <3> QED BY <1>1, <1>4, <1>t, <3>1 DEF PendingInv, Owned
    <2> QED BY <1>1, <1>3, <2>3, <2>4, <2>5, <2>6 DEF i
  <1> QED BY <1>5, <1>6

----------------------------------------------------------------------------
(* The steps of memtest *)

\* What is left to show of a call in memtest.
LEMMA MemtestKeeps ==
    ASSUME IInv, ShellInv, routine = "memtest",
           UNCHANGED <<program, routine, test_ptrs, test_count, before>>,
           kernel' = "running", heap_current' = 0, Sound',
           PointersTyped', PendingInv', LocalsInOrder', Stacked', Compact',
           \A a \in TestBlocks : hdr'[a].size = hdr[a].size
    PROVE  ShellInv'
  <1>1. HasShell /\ HasShell' /\ routine' = "memtest"
    BY DEF ShellInv, HeapInv, HasShell
  <1>2. HeapInv'
    BY <1>1 DEF HeapInv
  <1>3. TestsInOrder'
    BY <1>1 DEF ShellInv, StackInv, TestsInOrder
  <1>4. TraceInv'
    <2>1. TestBlocks' = TestBlocks
      BY SameBlocksNext
    <2>2. TraceInv /\ before' = before
      BY DEF ShellInv
    <2> QED BY <1>1, <2>1, <2>2 DEF TraceInv
  <1> QED BY <1>1, <1>2, <1>3, <1>4 DEF ShellInv, StackInv

\* The pointers and the blocks they stand for.
LEMMA LocalFacts ==
    ASSUME PointersTyped
    PROVE  /\ \A p \in Locals : p \in Nat /\ \E i \in Pending : p = locals[i]
           /\ \A i \in Pending : locals[i] # NULL =>
                locals[i] \in Locals /\ locals[i] - HeaderSize \in LocalBlocks
           /\ \A b \in LocalBlocks : \E i \in Pending :
                /\ locals[i] # NULL /\ b = locals[i] - HeaderSize
                /\ locals[i] = b + HeaderSize
  <1>1. \A i \in Pending : i \in 1 .. MaxLocals
    BY DEF Pending
  <1>2. \A p \in Locals : p \in Nat /\ \E i \in Pending : p = locals[i] /\ locals[i] # NULL
    BY <1>1, PtrFacts DEF Locals
  <1>3. \A b \in LocalBlocks : \E i \in Pending :
          /\ locals[i] # NULL /\ b = locals[i] - HeaderSize
          /\ locals[i] = b + HeaderSize
    <2>1. SUFFICES ASSUME NEW b \in LocalBlocks
                   PROVE  \E i \in Pending : /\ locals[i] # NULL /\ b = locals[i] - HeaderSize
                                             /\ locals[i] = b + HeaderSize
      OBVIOUS
    <2>2. PICK p \in Locals : b = p - HeaderSize
      BY DEF LocalBlocks
    <2>3. PICK i \in Pending : p = locals[i] /\ locals[i] # NULL
      BY <1>2
    <2>4. locals[i] = b + HeaderSize
      BY <1>2, <2>2, <2>3, PtrFacts
    <2> QED BY <2>2, <2>3, <2>4
  <1>4. \A i \in Pending : locals[i] # NULL => locals[i] \in Locals
    BY DEF Locals
  <1>5. \A p \in Locals : p - HeaderSize \in LocalBlocks
    BY DEF LocalBlocks
  <1> QED BY <1>2, <1>3, <1>4, <1>5

LEMMA MemtestAllocates ==
    ASSUME IInv, ShellInv, CallsKmalloc, routine = "memtest"
    PROVE  ShellInv'
  <1> DEFINE i == This.slot
  <1>1. /\ KmallocCalled(i) /\ Sound /\ Sound' /\ PointersTyped' /\ PendingInv'
        /\ kernel' = "running" /\ heap_current' = 0 /\ pc' = pc + 1
        /\ UNCHANGED <<program, routine, test_ptrs, test_count, before>>
    BY KmallocCall
  <1>2. /\ pc <= MemtestLength /\ i = pc
        /\ \A j \in Pending : j < i /\ j \in 1 .. MaxLocals
    <2>1. /\ pc \in 1 .. Len(memtest) /\ memtest[pc].op = "kmalloc"
          /\ i = memtest[pc].slot
      <3>1. Code = memtest /\ This.op = "kmalloc" /\ pc <= Len(Code)
        BY DEF CallsKmalloc, Calls, This, Code
      <3>2. pc \in 1 .. Len(Code)
        BY <3>1, CallSites DEF Sites
      <3> QED BY <3>1, <3>2 DEF This
    <2>2. pc <= MemtestLength /\ i = pc
      BY <2>1, MemtestSites
    <2>3. \A j \in Pending : j < pc /\ j \in 1 .. MaxLocals
      BY PendingOfMemtest DEF Pending
    <2> QED BY <2>2, <2>3
  <1> HIDE DEF i
  <1>3. /\ PointersTyped /\ HasShell /\ LocalsInOrder /\ Stacked /\ Compact
    BY DEF ShellInv, HeapInv, StackInv
  <1>4. KH!FreeAtEnd(hdr)
    <2>1. ~(pc > Len(MemtestSizes))
      BY <1>2 DEF IInv, Position, MemtestLength
    <2> QED BY <1>3, <2>1 DEF Compact, KH!FreeAtEnd
  <1>5. Merged(hdr) /\ Merged(hdr')
    BY <1>1, SoundMerged
  <1>6. /\ i \in 1 .. MaxLocals /\ Pending' = Pending \cup {i}
        /\ \A j \in Pending : j # i /\ locals'[j] = locals[j]
    <2>1. i \in 1 .. MaxLocals /\ Pending' = Pending \cup {i}
      BY <1>1 DEF KmallocCalled
    <2>2. \A j \in Pending : j # i /\ j \in 1 .. MaxLocals
      BY <1>1 DEF KmallocCalled, Pending
    <2>3. \A j \in 1 .. MaxLocals : j # i => locals'[j] = locals[j]
      BY <1>1, <1>3 DEF KmallocCalled, PointersTyped
    <2> QED BY <2>1, <2>2, <2>3
  <1>7. TestBlocks' = TestBlocks
    BY <1>1, SameBlocksNext
  <1>8. CASE locals' = [locals EXCEPT ![i] = NULL] /\ hdr' = hdr
    <2>1. locals'[i] = NULL
      BY <1>3, <1>6, <1>8 DEF PointersTyped
    <2>2. Locals' = Locals
      BY <1>6, <2>1 DEF Locals, NULL, Heap!NULL
    <2>3. LocalBlocks' = LocalBlocks
      BY <2>2 DEF LocalBlocks
    <2>4. LocalsInOrder'
      BY <1>3, <1>6, <2>1 DEF LocalsInOrder, NULL, Heap!NULL
    <2>5. Stacked'
      BY <1>3, <1>7, <1>8, <2>3 DEF Stacked
    <2>6. Compact'
      BY <1>4, <1>8 DEF Compact, KH!FreeAtEnd
    <2> QED BY <1>1, <1>8, <2>4, <2>5, <2>6, MemtestKeeps
  <1>9. ASSUME NEW b \in Nat, Took(hdr, hdr', b),
               locals' = [locals EXCEPT ![i] = b + HeaderSize]
        PROVE  ShellInv'
    <2>1. /\ \A a \in KH!Used(hdr) : a < b
          /\ KH!FreeAtEnd(hdr')
      BY <1>4, <1>5, <1>9, TookAtEnd
    <2>2. locals'[i] = b + HeaderSize /\ b + HeaderSize # NULL
          /\ (b + HeaderSize) - HeaderSize = b
      BY <1>3, <1>6, <1>9, PtrFacts DEF PointersTyped
    <2>3. Locals' = Locals \cup {b + HeaderSize}
      BY <1>6, <2>2 DEF Locals, NULL, Heap!NULL
    <2>4. LocalBlocks' = LocalBlocks \cup {b}
      BY <2>2, <2>3 DEF LocalBlocks
    <2>5. LocalsInOrder'
      <3>1. ASSUME NEW j \in Pending, locals[j] # NULL
            PROVE  locals[j] < b + HeaderSize
        <4>1. locals[j] - HeaderSize \in KH!Used(hdr) /\ locals[j] \in Nat
          BY <1>3, <3>1, LocalFacts DEF Stacked
        <4> QED BY <1>3, <2>1, <4>1, PtrFacts
      <3>2. \A j \in Pending : ~(i < j)
        BY <1>2, <1>6, SizesAreNat
      <3> QED BY <1>2, <1>3, <1>6, <2>2, <3>1, <3>2 DEF LocalsInOrder, NULL, Heap!NULL
    <2>6. Stacked'
      <3>1. KH!Used(hdr') = KH!Used(hdr) \cup {b}
        BY <1>9 DEF Took
      <3>2. \A t \in TestBlocks : t < b
        BY <1>3, <2>1 DEF Stacked
      <3> QED BY <1>3, <1>7, <2>4, <3>1, <3>2 DEF Stacked
    <2>7. Compact'
      BY <2>1 DEF Compact, KH!FreeAtEnd
    <2>8. \A a \in TestBlocks : hdr'[a].size = hdr[a].size
      BY <1>3, <1>9 DEF Took, Stacked
    <2> QED BY <1>1, <2>5, <2>6, <2>7, <2>8, MemtestKeeps
  <1> QED BY <1>1, <1>8, <1>9 DEF KmallocCalled

LEMMA MemtestFrees ==
    ASSUME IInv, ShellInv, CallsKfree, routine = "memtest"
    PROVE  ShellInv'
  <1> DEFINE i == This.slot
  <1>1. /\ KfreeCalled(i) /\ Sound /\ Sound' /\ PointersTyped' /\ PendingInv'
        /\ kernel' = "running" /\ heap_current' = 0 /\ pc' = pc + 1
        /\ UNCHANGED <<program, routine, test_ptrs, test_count, before>>
    BY KfreeCall
  <1>2. /\ pc \in Nat /\ MemtestLength \in Nat /\ pc > MemtestLength
        /\ \A j \in Pending : i <= j /\ j \in Nat
    <2>1. /\ pc \in 1 .. Len(memtest) /\ memtest[pc].op = "kfree"
          /\ i = memtest[pc].slot
      <3>1. Code = memtest /\ This.op = "kfree" /\ pc <= Len(Code)
        BY DEF CallsKfree, Calls, This, Code
      <3>2. pc \in 1 .. Len(Code)
        BY <3>1, CallSites DEF Sites
      <3> QED BY <3>1, <3>2 DEF This
    <2>2. /\ MemtestLength \in Nat /\ pc > MemtestLength /\ i = pc - MemtestLength
      BY <2>1, MemtestSites
    <2>3. \A j \in Pending : j \in Nat /\ pc <= MemtestLength + j
      BY PendingOfMemtest
    <2> HIDE DEF i
    <2> QED BY <2>1, <2>2, <2>3
  <1> HIDE DEF i
  <1>3. /\ PointersTyped /\ PendingInv /\ HasShell /\ LocalsInOrder /\ Stacked /\ Compact
    BY DEF ShellInv, HeapInv, StackInv
  <1>4. Merged(hdr) /\ Merged(hdr')
    BY <1>1, SoundMerged
  <1>5. i \in Pending /\ Pending' = Pending \ {i} /\ locals' = locals
    BY <1>1 DEF KfreeCalled
  <1>6. TestBlocks' = TestBlocks
    BY <1>1, SameBlocksNext
  <1>7. LocalsInOrder'
    BY <1>3, <1>5 DEF LocalsInOrder
  <1>8. pc' > Len(MemtestSizes) /\ routine' = "memtest" /\ pc > Len(MemtestSizes)
    BY <1>1, <1>2 DEF MemtestLength
  <1>9. OneGap(hdr, TestBlocks, LocalBlocks)
    BY <1>3 DEF Compact, OneGap
  <1>10. CASE locals[i] = NULL /\ hdr' = hdr
    <2>1. Locals' = Locals
      BY <1>5, <1>10 DEF Locals, NULL, Heap!NULL
    <2>2. LocalBlocks' = LocalBlocks
      BY <2>1 DEF LocalBlocks
    <2>3. Stacked'
      BY <1>3, <1>6, <1>10, <2>2 DEF Stacked
    <2>4. Compact'
      BY <1>6, <1>8, <1>9, <1>10, <2>2 DEF Compact, OneGap
    <2> QED BY <1>1, <1>7, <1>10, <2>3, <2>4, MemtestKeeps
  <1>11. CASE locals[i] # NULL /\ Gave(hdr, hdr', locals[i] - HeaderSize)
    <2> DEFINE b == locals[i] - HeaderSize
    <2>1. b \in LocalBlocks /\ b \in KH!Used(hdr) /\ locals[i] = b + HeaderSize
          /\ Gave(hdr, hdr', b) /\ b \in Nat
      <3>1. locals[i] \in Nat /\ b \in LocalBlocks
        BY <1>3, <1>5, <1>11, LocalFacts
      <3>2. b \in KH!Used(hdr)
        BY <1>3, <3>1 DEF Stacked
      <3>3. b \in Nat
        BY <1>4, <3>2, MergedFacts DEF KH!Used
      <3> QED BY <1>3, <1>11, <3>1, <3>2, <3>3, PtrFacts
    <2> HIDE DEF b
    <2>2. LocalBlocks' = LocalBlocks \ {b}
      <3>1. \A j \in Pending \ {i} : locals[j] # locals[i]
        BY <1>3, <1>5, <1>11 DEF PendingInv
      <3>2. Locals' = Locals \ {locals[i]}
        BY <1>5, <3>1 DEF Locals, NULL, Heap!NULL
      <3>3. \A p \in Locals : p - HeaderSize = b <=> p = locals[i]
        BY <1>3, <2>1, LocalFacts, PtrFacts
      <3> QED BY <3>2, <3>3 DEF LocalBlocks
    <2>3. \A t \in LocalBlocks \ {b} : b < t
      <3>1. SUFFICES ASSUME NEW t \in LocalBlocks, t # b PROVE b < t
        OBVIOUS
      <3>2. PICK j \in Pending : locals[j] # NULL /\ t = locals[j] - HeaderSize
                                   /\ locals[j] = t + HeaderSize
        BY <1>3, LocalFacts
      <3>3. j # i
        BY <2>1, <3>1, <3>2 DEF b
      <3>4. i < j
        <4>1. i <= j /\ i \in Nat /\ j \in Nat
          BY <1>2, <1>5
        <4> QED BY <3>3, <4>1
      <3>5. locals[i] < locals[j] /\ locals[i] \in Int /\ locals[j] \in Int
        <4>1. locals[i] < locals[j]
          BY <1>3, <1>5, <1>11, <3>2, <3>4 DEF LocalsInOrder
        <4> QED BY <1>3, <1>5, <4>1, PtrFacts DEF Pending
      <3> QED BY <1>3, <3>2, <3>5, PtrFacts DEF b
    <2>4. OneGap(hdr', TestBlocks, LocalBlocks \ {b})
      <3>1. KH!Used(hdr) = TestBlocks \cup LocalBlocks /\ \A t \in TestBlocks : t < b
        BY <1>3, <2>1 DEF Stacked
      <3> QED BY <1>4, <1>9, <2>1, <2>3, <3>1, GaveFirst
    <2>5. Stacked'
      <3>1. KH!Used(hdr') = KH!Used(hdr) \ {b}
        BY <2>1 DEF Gave
      <3>2. b \notin TestBlocks
        BY <1>3, <2>1 DEF Stacked
      <3> QED BY <1>3, <1>6, <2>2, <3>1, <3>2 DEF Stacked
    <2>6. Compact'
      BY <1>6, <1>8, <2>2, <2>4 DEF Compact, OneGap
    <2>7. \A a \in TestBlocks : hdr'[a].size = hdr[a].size
      <3>1. b \notin TestBlocks
        BY <1>3, <2>1 DEF Stacked
      <3> QED BY <1>3, <2>1, <3>1 DEF Gave, Stacked
    <2> QED BY <1>1, <1>7, <2>5, <2>6, <2>7, MemtestKeeps
  <1> QED BY <1>1, <1>10, <1>11 DEF KfreeCalled

\* Once memtest has freed everything there is no gap, and the list is the one
\* it started from.
LEMMA MemtestOver ==
    ASSUME IInv, ShellInv, MemtestReturns
    PROVE  /\ routine = "memtest" /\ Sound /\ HasShell
           /\ Pending = {} /\ LocalBlocks = {}
           /\ KH!FreeAtEnd(hdr) /\ hdr = before
           /\ UNCHANGED <<program, test_ptrs, test_count, cpu, heapVars>>
  <1>1. /\ pc <= Len(Code) /\ This.op = "return"
        /\ UNCHANGED <<program, test_ptrs, test_count, cpu, heapVars>>
    BY DEF MemtestReturns, Calls, This, bootVars, shellVars
  <1>2. routine = "memtest" /\ pc = Len(memtest)
    BY <1>1, CallSites DEF Sites, Code
  <1>3. Sound /\ HasShell
    BY <1>2 DEF ShellInv, HeapInv, HeapUp
  <1>4. Pending = {}
    <2>1. pc = MemtestLength + MemtestLength + 1 /\ MemtestLength \in Nat
      BY <1>2, MemtestCode, SizesAreNat
    <2>2. \A i \in Pending : i \in 1 .. MemtestLength /\ pc <= MemtestLength + i
      BY <1>2, PendingOfMemtest
    <2> QED BY <2>1, <2>2
  <1>5. LocalBlocks = {}
    BY <1>4 DEF LocalBlocks, Locals
  <1>6. Merged(hdr) /\ Stacked /\ Compact /\ TraceInv
    BY <1>2, <1>3, SoundMerged DEF ShellInv, StackInv
  <1>7. KH!Used(hdr) = TestBlocks
    BY <1>5, <1>6 DEF Stacked
  <1>8. KH!FreeAtEnd(hdr)
    <2>1. SUFFICES ASSUME NEW a \in DOMAIN hdr, hdr[a].free = 1
                   PROVE  KH!BlockEnd(hdr, a) = HeapSize
      BY DEF KH!FreeAtEnd
    <2>2. CASE Gap(a, TestBlocks, LocalBlocks)
      BY <1>6, <1>7, <2>1, <2>2, NoGapBehind DEF Gap
    <2> QED BY <1>6, <2>1, <2>2 DEF Compact
  <1>9. KH!SameUse(hdr, before)
    BY <1>2, <1>6, <1>7, <1>8 DEF TraceInv, KH!SameUse, Merged
  <1>10. hdr = before
    BY <1>9, Layout, CallsOK, KH!ListDetermined
  <1> QED BY <1>1, <1>2, <1>3, <1>4, <1>5, <1>8, <1>10

LEMMA NothingPendingNext == (IInv /\ HasShell /\ routine = "boot" => Pending = {})'
  <1>1. IInv /\ HasShell /\ routine = "boot" => Pending = {}
    BY NothingPending
  <1> QED BY <1>1, PTL

LEMMA MemtestReturnsKeeps ==
    ASSUME IInv, IInv', ShellInv, MemtestReturns
    PROVE  ShellInv'
  <1>1. /\ routine = "memtest" /\ Sound /\ HasShell
        /\ Pending = {} /\ LocalBlocks = {}
        /\ KH!FreeAtEnd(hdr)
        /\ UNCHANGED <<program, test_ptrs, test_count, heapVars>>
    BY MemtestOver
  <1>2. routine' = "boot" /\ pc' = 9 /\ locals' = NoPointers(MaxLocals) /\ HasShell'
    <2>1. Len(Boot[program]) = 8
      BY <1>1, ShellSites DEF HasShell, IInv, Position
    <2> QED BY <1>1, <2>1 DEF MemtestReturns, HasShell
  <1>3. /\ UNCHANGED <<hdr, heap_end, heap_current, heap_total_allocated,
                       heap_total_free, remnant, kernel, live, last_freed>>
    BY <1>1 DEF heapVars
  <1>4. Sound'
    BY <1>1, <1>3, RemnantsFree
  <1>5. PointersTyped'
    <2>1. NoPointers(MaxLocals) \in [1 .. MaxLocals -> NULL .. HeapSize]
      BY SizesAreNat, SameSteps, KernelAssumption DEF NoPointers
    <2> QED BY <1>1, <1>2, <2>1 DEF ShellInv, PointersTyped
  <1>6. HeapInv'
    BY <1>2, <1>3, <1>4 DEF HeapInv, ShellInv
  <1>7. Pending' = {}
    BY <1>2, NothingPendingNext
  <1>8. PendingInv' /\ LocalsInOrder' /\ LocalBlocks' = {}
    BY <1>7 DEF PendingInv, LocalsInOrder, LocalBlocks, Locals
  <1>9. TestBlocks' = TestBlocks
    BY <1>1, SameBlocksNext
  <1>10. TestsInOrder' /\ Stacked'
    BY <1>1, <1>3, <1>8, <1>9 DEF ShellInv, StackInv, TestsInOrder, Stacked
  <1>11. Compact'
    BY <1>1, <1>3 DEF Compact, KH!FreeAtEnd
  <1>12. TraceInv'
    BY <1>2 DEF TraceInv
  <1> QED BY <1>5, <1>6, <1>8, <1>10, <1>11, <1>12 DEF ShellInv, StackInv

----------------------------------------------------------------------------
(* The commands at the prompt *)

\* At the prompt the shell's list is the whole heap, without a gap.
LEMMA AtThePrompt ==
    ASSUME IInv, ShellInv, AtPrompt
    PROVE  /\ routine = "boot" /\ HasShell /\ pc > 8 /\ Sound /\ Merged(hdr)
           /\ Pending = {} /\ LocalBlocks = {}
           /\ KH!FreeAtEnd(hdr) /\ KH!Used(hdr) = TestBlocks /\ TestsInOrder
           /\ kernel = "running" /\ heap_current = 0 /\ PointersTyped
  <1>1. routine = "boot" /\ HasShell
    BY PromptAfterBoot DEF AtPrompt
  <1>2. pc > 8 /\ pc \in Nat
    <2>1. Code = Boot[program]
      BY <1>1 DEF Code
    <2>2. Len(Boot[program]) = 8
      BY <1>1, ShellSites DEF HasShell, IInv, Position
    <2> QED BY <2>1, <2>2 DEF AtPrompt, IInv, Position
  <1>3. Sound
    BY <1>1, <1>2 DEF ShellInv, HeapInv, HeapUp
  <1>4. Pending = {} /\ LocalBlocks = {}
    BY <1>1, NothingPending DEF LocalBlocks, Locals
  <1>5. KH!FreeAtEnd(hdr) /\ KH!Used(hdr) = TestBlocks /\ TestsInOrder
    BY <1>1, <1>4 DEF ShellInv, StackInv, Compact, Stacked, KH!FreeAtEnd
  <1> QED BY <1>1, <1>2, <1>3, <1>4, <1>5, SoundMerged DEF ShellInv, HeapInv

----------------------------------------------------------------------------
(* The tests of the mandatory part *)

LEMMA MandatorySite ==
    ASSUME IInv, pc <= Len(Code), routine = "boot",
           This.op \in {"kmalloc", "kfree", "write", "test_pages"}
    PROVE  program = "kfs3_mandatory" /\ pc \in 10 .. 19
  BY CallSites DEF Sites

LEMMA KmallocKeeps ==
    ASSUME IInv, ShellInv, CallsKmalloc
    PROVE  ShellInv'
  <1>1. pc <= Len(Code) /\ This.op = "kmalloc"
    BY DEF CallsKmalloc, Calls, This
  <1>2. CASE routine = "boot"
    BY <1>1, <1>2, MandatorySite, KmallocCall, MandatoryKeeps
  <1> QED BY <1>2, MemtestAllocates DEF IInv, Position

LEMMA KfreeKeeps ==
    ASSUME IInv, ShellInv, CallsKfree
    PROVE  ShellInv'
  <1>1. pc <= Len(Code) /\ This.op = "kfree"
    BY DEF CallsKfree, Calls, This
  <1>2. CASE routine = "boot"
    BY <1>1, <1>2, MandatorySite, KfreeCall, MandatoryKeeps
  <1> QED BY <1>2, MemtestFrees DEF IInv, Position

\* What stands at pc 9 to 19 of the mandatory part, and is not in the heap.
LEMMA TestsStand ==
    ASSUME IInv, ShellInv, pc <= Len(Code), pc' = pc + 1,
           UNCHANGED <<program, routine>>,
           This.op \in {"write", "test_pages"}
    PROVE  /\ routine = "boot" /\ program = "kfs3_mandatory" /\ pc \in 10 .. 19
           /\ Pending' = Pending /\ (pc = 19 => Pending = {})
           /\ Sound /\ kernel = "running" /\ heap_current = 0
           /\ PointersTyped /\ PendingInv
  <1>1. routine = "boot" /\ program = "kfs3_mandatory" /\ pc \in 10 .. 19
    BY CallSites DEF Sites
  <1>2. Pending' = Pending
    BY PendingSlots DEF NextCall, Code
  <1>3. pc = 19 => Pending = {}
    BY <1>1, NothingPendingAtEnds DEF KFS3
  <1>4. HeapUp
    BY <1>1 DEF HeapUp
  <1> QED BY <1>1, <1>2, <1>3, <1>4 DEF ShellInv, HeapInv

LEMMA WriteKeeps ==
    ASSUME IInv, ShellInv, CallsWrite
    PROVE  ShellInv'
  <1>1. pc <= Len(Code) /\ This.op = "write" /\ pc' = pc + 1
        /\ UNCHANGED <<program, routine, locals, test_ptrs, test_count>>
        /\ remnant' \subseteq remnant
        /\ UNCHANGED <<hdr, heap_end, heap_total_allocated, heap_total_free,
                       heap_current, kernel, live, last_freed>>
    BY DEF CallsWrite, Calls, Returns, This, bootVars, shellVars
  <1>2. /\ routine = "boot" /\ program = "kfs3_mandatory" /\ pc \in 10 .. 19
        /\ Pending' = Pending
        /\ Sound /\ kernel = "running" /\ heap_current = 0
        /\ PointersTyped /\ PendingInv
    BY <1>1, TestsStand
  <1>3. Sound'
    BY <1>1, <1>2, RemnantsFree
  <1>4. PointersTyped' /\ PendingInv'
    BY <1>1, <1>2 DEF PointersTyped, PendingInv, Owned
  <1> QED BY <1>1, <1>2, <1>3, <1>4, MandatoryKeeps

\* The pages that test_memory takes either hold headers of the heap, which is
\* lost then, or none.
LEMMA TestPagesKeeps ==
    ASSUME IInv, ShellInv, TestPages
    PROVE  ShellInv'
  <1>1. pc <= Len(Code) /\ This.op = "test_pages" /\ pc' = pc + 1
        /\ UNCHANGED <<program, routine, locals, test_ptrs, test_count>>
        /\ UNCHANGED <<heap_end, heap_total_allocated, heap_total_free,
                       heap_current, kernel, live, last_freed>>
    BY DEF TestPages, Calls, Returns, This, bootVars, shellVars
  <1>2. /\ routine = "boot" /\ program = "kfs3_mandatory" /\ pc \in 10 .. 19
        /\ pc = 19 /\ Pending' = {}
        /\ Sound /\ kernel = "running" /\ heap_current = 0
        /\ PointersTyped
    BY <1>1, TestsStand, CallSites DEF Sites
  <1>3. PointersTyped' /\ PendingInv'
    BY <1>1, <1>2 DEF PointersTyped, PendingInv
  <1>4. /\ DOMAIN hdr' = DOMAIN hdr
        /\ \A a \in DOMAIN hdr : Cleared(a) => hdr'[a].magic = "zero"
        /\ \A a \in DOMAIN hdr : ~Cleared(a) => hdr'[a] = hdr[a]
        /\ hdr' = [a \in DOMAIN hdr |-> hdr'[a]]
        /\ remnant' \subseteq remnant
    BY SameSteps DEF TestPages
  <1>5. CASE \E a \in DOMAIN hdr : Cleared(a)
    BY <1>1, <1>2, <1>3, <1>4, <1>5, MandatoryKeeps DEF Standing
  <1>6. CASE ~\E a \in DOMAIN hdr : Cleared(a)
    <2>1. hdr = [a \in DOMAIN hdr |-> hdr[a]]
      BY <1>2, SoundStands DEF KH!HeapOK
    <2>2. hdr' = hdr
      BY <1>4, <1>6, <2>1
    <2>3. Sound'
      BY <1>1, <1>2, <1>4, <2>2, RemnantsFree
    <2> QED BY <1>1, <1>2, <1>3, <2>3, MandatoryKeeps
  <1> QED BY <1>5, <1>6

\* memtest starts with the list as it is, which has no gap.
LEMMA MemtestKeepsAtStart ==
    ASSUME IInv, IInv', ShellInv, Memtest
    PROVE  ShellInv'
  <1>1. AtPrompt /\ routine' = "memtest" /\ pc' = 1 /\ before' = hdr
        /\ UNCHANGED <<program, locals, test_ptrs, test_count>>
        /\ UNCHANGED <<hdr, heap_end, heap_current, heap_total_allocated,
                       heap_total_free, remnant, kernel, live, last_freed>>
    BY DEF Memtest, Typed, bootVars, heapVars
  <1>2. /\ HasShell /\ Sound /\ Merged(hdr) /\ LocalBlocks = {}
        /\ KH!FreeAtEnd(hdr) /\ KH!Used(hdr) = TestBlocks /\ TestsInOrder
        /\ kernel = "running" /\ heap_current = 0 /\ PointersTyped
    BY <1>1, AtThePrompt
  <1>3. Sound'
    BY <1>1, <1>2, RemnantsFree
  <1>4. PointersTyped' /\ HeapInv' /\ HasShell'
    BY <1>1, <1>2, <1>3 DEF PointersTyped, HeapInv, HasShell
  <1>5. Pending' = {}
    <2>1. \A i \in 1 .. MaxLocals : \A k \in Kmallocs(i)' : ~(k < 1)
      BY DEF Kmallocs
    <2> QED BY <1>1, <2>1 DEF Pending
  <1>6. PendingInv' /\ LocalsInOrder' /\ LocalBlocks' = {}
    BY <1>5 DEF PendingInv, LocalsInOrder, LocalBlocks, Locals
  <1>7. TestBlocks' = TestBlocks
    BY <1>1, SameBlocksNext
  <1>8. TestsInOrder' /\ Stacked' /\ Compact'
    BY <1>1, <1>2, <1>6, <1>7 DEF TestsInOrder, Stacked, Compact, KH!FreeAtEnd
  <1>9. TraceInv'
    BY <1>1, <1>2, <1>7 DEF TraceInv, Merged
  <1> QED BY <1>4, <1>6, <1>8, <1>9 DEF ShellInv, StackInv

\* What is left to show of malloc and free at the prompt.
LEMMA PromptKeeps ==
    ASSUME IInv, IInv', ShellInv, AtPrompt,
           UNCHANGED <<program, routine, pc, locals, before>>,
           Sound', kernel' = "running", heap_current' = 0,
           test_ptrs' \in [1 .. MaxTests -> NULL .. HeapSize],
           test_count' \in 0 .. MaxTests,
           TestsInOrder', KH!Used(hdr') = TestBlocks', KH!FreeAtEnd(hdr')
    PROVE  ShellInv'
  <1>1. routine = "boot" /\ HasShell /\ pc > 8 /\ PointersTyped
    BY AtThePrompt
  <1>2. routine' = "boot" /\ HasShell' /\ pc' = pc
    BY <1>1 DEF HasShell
  <1>3. PointersTyped'
    BY <1>1 DEF PointersTyped
  <1>4. HeapInv'
    <2>1. pc \in Nat
      BY DEF IInv, Position
    <2> QED BY <1>1, <1>2, <2>1 DEF HeapInv
  <1>5. Pending' = {}
    BY <1>2, NothingPendingNext
  <1>6. PendingInv' /\ LocalsInOrder' /\ LocalBlocks' = {}
    BY <1>5 DEF PendingInv, LocalsInOrder, LocalBlocks, Locals
  <1>7. Stacked' /\ Compact'
    BY <1>6 DEF Stacked, Compact, KH!FreeAtEnd
  <1>8. TraceInv'
    BY <1>2 DEF TraceInv
  <1> QED BY <1>3, <1>4, <1>6, <1>7, <1>8 DEF ShellInv, StackInv

\* The newest test allocation is the last one, and its block is in use.
LEMMA TestFacts ==
    ASSUME PointersTyped, TestsInOrder, TestBlocks \subseteq Nat
    PROVE  /\ \A i \in 1 .. test_count : /\ i \in 1 .. MaxTests
                                         /\ test_ptrs[i] \in Nat
                                         /\ test_ptrs[i] - HeaderSize \in TestBlocks
           /\ \A b \in TestBlocks : \E i \in 1 .. test_count :
                test_ptrs[i] = b + HeaderSize /\ b = test_ptrs[i] - HeaderSize
  <1>1. \A i \in 1 .. test_count : i \in 1 .. MaxTests /\ test_ptrs[i] \in Nat
    BY PtrFacts DEF TestsInOrder
  <1>2. \A i \in 1 .. test_count : test_ptrs[i] - HeaderSize \in TestBlocks
    BY DEF TestBlocks, Tests
  <1>3. ASSUME NEW b \in TestBlocks
        PROVE  \E i \in 1 .. test_count :
                 test_ptrs[i] = b + HeaderSize /\ b = test_ptrs[i] - HeaderSize
    <2>1. PICK i \in 1 .. test_count : b = test_ptrs[i] - HeaderSize
      BY DEF TestBlocks, Tests
    <2>2. test_ptrs[i] = b + HeaderSize
      BY <1>1, <2>1, PtrFacts
    <2> QED BY <2>1, <2>2
  <1> QED BY <1>1, <1>2, <1>3

LEMMA MallocKeeps ==
    ASSUME IInv, IInv', ShellInv, NEW typed \in MallocSizes, Malloc(typed)
    PROVE  ShellInv' /\ kernel' = kernel /\ cpu' = cpu
  <1> DEFINE size == IF typed = 0 THEN 64 ELSE typed
             ptr  == Allocated(size)
  <1>1. /\ AtPrompt /\ test_count < MaxTests /\ kmalloc(size)
        /\ test_ptrs' = IF ptr = NULL THEN test_ptrs
                        ELSE [test_ptrs EXCEPT ![test_count + 1] = ptr]
        /\ test_count' = IF ptr = NULL THEN test_count ELSE test_count + 1
        /\ UNCHANGED <<program, routine, pc, locals, before>>
    BY DEF Malloc, Typed, bootVars
  <1>2. size \in Nat
    BY KernelAssumption
  <1>3. /\ HasShell /\ Sound /\ Merged(hdr) /\ LocalBlocks = {}
        /\ KH!FreeAtEnd(hdr) /\ KH!Used(hdr) = TestBlocks /\ TestsInOrder
        /\ kernel = "running" /\ heap_current = 0 /\ PointersTyped
    BY <1>1, AtThePrompt
  <1> HIDE DEF size
  <1>4. /\ Sound' /\ heap_current' = heap_current /\ kernel' = kernel
        /\ cpu' = cpu
        /\ \/ Allocated(size) = NULL /\ hdr' = hdr
           \/ \E b : Took(hdr, hdr', b) /\ Allocated(size) = b + HeaderSize
    BY <1>1, <1>2, <1>3, KmallocEffect
  <1>5. Merged(hdr')
    BY <1>4, SoundMerged
  <1>6. CASE ptr = NULL /\ hdr' = hdr
    <2>1. test_ptrs' = test_ptrs /\ test_count' = test_count
      BY <1>1, <1>6
    <2>2. TestBlocks' = TestBlocks /\ TestsInOrder'
      BY <1>3, <2>1, SameBlocksNext DEF TestsInOrder
    <2> QED BY <1>1, <1>3, <1>4, <1>6, <2>1, <2>2, PromptKeeps DEF PointersTyped
  <1>7. ASSUME NEW b, Took(hdr, hdr', b), ptr = b + HeaderSize
        PROVE  ShellInv'
    <2>1. /\ \A a \in KH!Used(hdr) : a < b
          /\ KH!FreeAtEnd(hdr')
          /\ b \in Nat /\ b + HeaderSize <= HeapSize
      BY <1>3, <1>5, <1>7, TookAtEnd
    <2>2. /\ ptr \in Nat /\ ptr # NULL /\ ptr - HeaderSize = b /\ ptr <= HeapSize
      BY <1>3, <1>7, <2>1, PtrFacts
    <2> HIDE DEF ptr
    <2> DEFINE n == test_count + 1
    <2>3. /\ test_ptrs' = [test_ptrs EXCEPT ![n] = ptr] /\ test_count' = n
          /\ n \in 1 .. MaxTests
      BY <1>1, <1>3, <2>2, PtrFacts
    <2>4. /\ n \in Nat /\ test_count \in Nat /\ n = test_count + 1
          /\ test_ptrs'[n] = ptr
          /\ \A i \in 1 .. MaxTests : i # n => test_ptrs'[i] = test_ptrs[i]
      BY <1>3, <2>3, PtrFacts DEF PointersTyped
    <2> HIDE DEF n
    <2>5. 1 .. n = 1 .. test_count \cup {n} /\ n \notin 1 .. test_count
          /\ \A i \in 1 .. test_count : i \in 1 .. MaxTests
      BY <1>3, <2>3, <2>4, PtrFacts
    <2>6. Tests' = Tests \cup {ptr}
      BY <2>3, <2>4, <2>5 DEF Tests
    <2>7. TestBlocks' = TestBlocks \cup {b}
      BY <2>2, <2>6 DEF TestBlocks
    <2>8. TestBlocks \subseteq Nat
      BY <1>3, MergedFacts DEF KH!Used
    <2>9. TestsInOrder'
      <3>1. ASSUME NEW i \in 1 .. test_count PROVE test_ptrs[i] < ptr
        <4>1. test_ptrs[i] \in Nat /\ test_ptrs[i] - HeaderSize < b
          BY <1>3, <2>1, <2>8, TestFacts
        <4> QED BY <1>3, <1>7, <2>1, <4>1, PtrFacts DEF ptr
      <3>2. \A i \in 1 .. MaxTests : i <= n <=> test_ptrs'[i] # NULL
        <4>1. SUFFICES ASSUME NEW i \in 1 .. MaxTests
                       PROVE  i <= n <=> test_ptrs'[i] # NULL
          OBVIOUS
        <4>2. i <= test_count <=> test_ptrs[i] # NULL
          BY <1>3 DEF TestsInOrder
        <4>3. CASE i = n
          BY <2>2, <2>4, <4>3
        <4>4. CASE i # n
          <5>1. i <= n <=> i <= test_count
            BY <2>4, <4>4
          <5> QED BY <2>4, <4>2, <4>4, <5>1
        <4> QED BY <4>3, <4>4
      <3>3. \A i, j \in 1 .. n : i < j => test_ptrs'[i] < test_ptrs'[j]
        <4>1. SUFFICES ASSUME NEW i \in 1 .. n, NEW j \in 1 .. n, i < j
                       PROVE  test_ptrs'[i] < test_ptrs'[j]
          OBVIOUS
        <4>2. i \in 1 .. test_count /\ i # n /\ i \in 1 .. MaxTests /\ j \in 1 .. MaxTests
          <5>1. i \in Nat /\ j \in Nat /\ i >= 1 /\ j >= 1 /\ i < j /\ j <= n
            BY <2>4, <4>1
          <5>2. i <= test_count /\ i # n
            BY <2>4, <5>1
          <5>3. n <= MaxTests /\ MaxTests \in Nat
            BY <1>3, <2>3, PtrFacts
          <5> QED BY <2>4, <5>1, <5>2, <5>3
        <4>3. CASE j = n
          BY <2>4, <3>1, <4>2, <4>3
        <4>4. CASE j # n
          <5>1. j \in 1 .. test_count
            BY <2>5, <4>4
          <5>2. test_ptrs[i] < test_ptrs[j]
            BY <1>3, <4>1, <4>2, <5>1 DEF TestsInOrder
          <5> QED BY <2>4, <4>2, <4>4, <5>2
        <4> QED BY <4>3, <4>4
      <3> QED BY <2>3, <3>2, <3>3, SameSteps DEF TestsInOrder, NULL, Heap!NULL
    <2>10. KH!Used(hdr') = TestBlocks'
      BY <1>3, <1>7, <2>7 DEF Took
    <2>11. /\ test_ptrs' \in [1 .. MaxTests -> NULL .. HeapSize]
           /\ test_count' \in 0 .. MaxTests
      <3>1. ptr \in NULL .. HeapSize
        BY <1>3, <2>2, PtrFacts
      <3>2. n \in 0 .. MaxTests
        BY <2>3, <2>4
      <3> QED BY <1>3, <2>3, <3>1, <3>2 DEF PointersTyped
    <2> QED BY <1>1, <1>3, <1>4, <2>1, <2>9, <2>10, <2>11, PromptKeeps
  <1> QED BY <1>4, <1>6, <1>7

LEMMA FreeKeeps ==
    ASSUME IInv, IInv', ShellInv, Free
    PROVE  ShellInv' /\ cpu' = cpu
  <1> DEFINE n == test_count
             ptr == test_ptrs[n]
             b == ptr - HeaderSize
  <1>1. /\ AtPrompt /\ test_count > 0 /\ kfree(ptr)
        /\ test_ptrs' = [test_ptrs EXCEPT ![n] = NULL]
        /\ test_count' = n - 1
        /\ UNCHANGED <<program, routine, pc, locals, before>>
    BY DEF Free, Typed, bootVars
  <1>2. /\ HasShell /\ Sound /\ Merged(hdr) /\ LocalBlocks = {}
        /\ KH!FreeAtEnd(hdr) /\ KH!Used(hdr) = TestBlocks /\ TestsInOrder
        /\ kernel = "running" /\ heap_current = 0 /\ PointersTyped
    BY <1>1, AtThePrompt
  <1>3. /\ n \in 1 .. n /\ n \in 1 .. MaxTests /\ n \in Nat
    BY <1>1, <1>2, PtrFacts
  <1>4. TestBlocks \subseteq Nat
    BY <1>2, MergedFacts DEF KH!Used
  <1>5. ptr \in Nat /\ b \in KH!Used(hdr) /\ b \in Nat /\ ptr = b + HeaderSize
    <2>1. ptr \in Nat /\ b \in TestBlocks
      BY <1>2, <1>3, <1>4, TestFacts
    <2> QED BY <1>2, <1>4, <2>1, PtrFacts
  <1>6. \A a \in KH!Used(hdr) \ {b} : a < b
    <2>1. SUFFICES ASSUME NEW a \in TestBlocks, a # b PROVE a < b
      BY <1>2
    <2>2. PICK i \in 1 .. n : test_ptrs[i] = a + HeaderSize /\ a \in Nat
      BY <1>2, <1>4, TestFacts
    <2>3. i # n
      BY <1>2, <1>5, <2>1, <2>2, PtrFacts
    <2>4. i < n
      BY <1>3, <2>3
    <2>5. test_ptrs[i] < ptr
      BY <1>2, <1>3, <2>4 DEF TestsInOrder
    <2> QED BY <1>2, <1>5, <2>2, <2>5, PtrFacts
  <1> HIDE DEF ptr, b, n
  <1>7. /\ Sound' /\ heap_current' = heap_current /\ kernel' = "running"
        /\ cpu' = cpu /\ Gave(hdr, hdr', b)
    BY <1>1, <1>2, <1>5, KfreeEffect DEF b
  <1>8. KH!FreeAtEnd(hdr')
    BY <1>2, <1>6, <1>7, GaveLast, SoundMerged
  <1>9. /\ test_ptrs'[n] = NULL /\ test_count' = n - 1 /\ test_count = n
        /\ \A i \in 1 .. MaxTests : i # n => test_ptrs'[i] = test_ptrs[i]
        /\ 1 .. n - 1 = 1 .. n \ {n}
        /\ \A i \in 1 .. n : i \in 1 .. MaxTests
    BY <1>1, <1>2, <1>3, PtrFacts DEF PointersTyped, n
  <1>10. TestBlocks' = TestBlocks \ {b}
    <2>1. Tests' = Tests \ {ptr}
      <3>1. \A i \in 1 .. n \ {n} : test_ptrs'[i] = test_ptrs[i] /\ test_ptrs[i] # ptr
        <4>1. SUFFICES ASSUME NEW i \in 1 .. n, i # n
                       PROVE  test_ptrs'[i] = test_ptrs[i] /\ test_ptrs[i] # ptr
          OBVIOUS
        <4>2. i < n
          BY <1>3, <4>1
        <4>3. test_ptrs[i] < test_ptrs[n]
          BY <1>2, <1>3, <4>2 DEF TestsInOrder, n
        <4>4. test_ptrs[i] \in Nat
          BY <1>2, <1>4, TestFacts DEF n
        <4> QED BY <1>5, <1>9, <4>1, <4>3, <4>4 DEF ptr
      <3>2. \A i \in 1 .. n : i # n \/ test_ptrs[i] = ptr
        BY DEF ptr
      <3> QED BY <1>9, <3>1, <3>2 DEF Tests
    <2>2. \A p \in Tests : p - HeaderSize = b <=> p = ptr
      <3>1. \A p \in Tests : p \in Nat
        BY <1>2, <1>4, TestFacts DEF Tests
      <3> QED BY <1>2, <1>5, <3>1, PtrFacts
    <2> QED BY <2>1, <2>2 DEF TestBlocks
  <1>11. KH!Used(hdr') = TestBlocks'
    BY <1>2, <1>7, <1>10 DEF Gave
  <1>12. TestsInOrder'
    <2>1. \A i \in 1 .. MaxTests : i <= n - 1 <=> test_ptrs'[i] # NULL
      <3>1. SUFFICES ASSUME NEW i \in 1 .. MaxTests
                     PROVE  i <= n - 1 <=> test_ptrs'[i] # NULL
        OBVIOUS
      <3>2. i <= n <=> test_ptrs[i] # NULL
        BY <1>2 DEF TestsInOrder, n
      <3>3. i <= n - 1 <=> i <= n /\ i # n
        BY <1>3
      <3> QED BY <1>9, <3>2, <3>3
    <2>2. \A i, j \in 1 .. n - 1 : i < j => test_ptrs'[i] < test_ptrs'[j]
      <3>1. \A i, j \in 1 .. n : i < j => test_ptrs[i] < test_ptrs[j]
        BY <1>2 DEF TestsInOrder, n
      <3> QED BY <1>9, <3>1
    <2> QED BY <1>9, <2>1, <2>2, SameSteps DEF TestsInOrder, NULL, Heap!NULL
  <1>13. /\ test_ptrs' \in [1 .. MaxTests -> NULL .. HeapSize]
         /\ test_count' \in 0 .. MaxTests
    <2>1. NULL \in NULL .. HeapSize /\ n - 1 \in 0 .. MaxTests
      BY <1>2, <1>3, PtrFacts
    <2> QED BY <1>1, <1>2, <2>1 DEF PointersTyped
  <1> QED BY <1>1, <1>2, <1>7, <1>8, <1>11, <1>12, <1>13, PromptKeeps

----------------------------------------------------------------------------
(* Every step keeps the invariant *)

LEMMA BootSteps ==
    ASSUME IInv, ShellInv,
           \/ SetupGdt \/ LoadSegments \/ CheckMagic \/ PagingInit
           \/ PagingEnable \/ OtherManagers \/ PrintGdt \/ Halts
    PROVE  ShellInv'
  <1>1. PICK op \in {"setup_gdt", "load_segments", "check_magic", "paging_init",
                     "paging_enable", "pmm_init", "vmm_init", "print_gdt", "halt"} :
          Calls(op)
    BY DEF SetupGdt, LoadSegments, CheckMagic, PagingInit, PagingEnable,
           OtherManagers, PrintGdt, Halts
  <1>2. pc <= Len(Code) /\ This.op \notin {"kmalloc", "kfree", "return", "kheap_init"}
    BY <1>1 DEF Calls, This
  <1>3. Still /\ pc' = pc + 1
    BY DEF SetupGdt, LoadSegments, CheckMagic, PagingInit, PagingEnable,
           OtherManagers, PrintGdt, Halts, Returns, Still, bootVars, shellVars
  <1> QED BY <1>2, <1>3, BootCall

LEMMA QuietCommands ==
    ASSUME IInv, ShellInv,
           \/ \E addr \in DumpAddresses, size \in DumpSizes : Memdump(addr, size)
           \/ GdtCommand \/ Halt \/ Shutdown \/ UNCHANGED vars
    PROVE  ShellInv'
  <1>1. Still /\ pc' = pc
    BY DEF Memdump, GdtCommand, Halt, Shutdown, vars, Still, bootVars, shellVars
  <1> QED BY <1>1, StayPut

LEMMA NextShell == IInv /\ ShellInv /\ [Next]_vars /\ IInv' => ShellInv'
  <1> SUFFICES ASSUME IInv, IInv', ShellInv, [Next]_vars PROVE ShellInv'
    OBVIOUS
  <1>1. CASE \/ SetupGdt \/ LoadSegments \/ CheckMagic \/ PagingInit
             \/ PagingEnable \/ OtherManagers \/ PrintGdt \/ Halts
    BY <1>1, BootSteps
  <1>2. CASE KheapInit
    BY <1>2, KheapInitKeeps
  <1>3. CASE CallsKmalloc
    BY <1>3, KmallocKeeps
  <1>4. CASE CallsKfree
    BY <1>4, KfreeKeeps
  <1>5. CASE CallsWrite
    BY <1>5, WriteKeeps
  <1>6. CASE TestPages
    BY <1>6, TestPagesKeeps
  <1>7. CASE MemtestReturns
    BY <1>7, MemtestReturnsKeeps
  <1>8. CASE \E size \in MallocSizes : Malloc(size)
    BY <1>8, MallocKeeps
  <1>9. CASE Free
    BY <1>9, FreeKeeps
  <1>10. CASE Memtest
    BY <1>10, MemtestKeepsAtStart
  <1>11. CASE Reboot
    BY <1>11, RebootKeeps
  <1>12. CASE \/ \E addr \in DumpAddresses, size \in DumpSizes : Memdump(addr, size)
              \/ GdtCommand \/ Halt \/ Shutdown \/ UNCHANGED vars
    BY <1>12, QuietCommands
  <1> QED
    BY <1>1, <1>2, <1>3, <1>4, <1>5, <1>6, <1>7, <1>8, <1>9, <1>10, <1>11, <1>12
    DEF Next, Execute, Command

LEMMA ShellInvariance == Spec => [](IInv /\ ShellInv)
  <1>1. Init => IInv /\ ShellInv
    BY InitIInv, InitShell
  <1>2. IInv /\ ShellInv /\ [Next]_vars => (IInv /\ ShellInv)'
    BY NextIInv, NextShell
  <1> QED BY <1>1, <1>2, PTL DEF Spec

----------------------------------------------------------------------------
(* The types of what is not in the heap *)

MachineTyped ==
    /\ magic_ok \in BOOLEAN /\ first_frame \in FirstFrames
    /\ cpu \in {"running", "halted", "panicked", "faulted", "off"}
    /\ pc \in 1 .. Len(Code) + 1
    /\ low \in [Slots -> {"junk", "zero", "text", "gdt", "table"}]
    /\ DOMAIN segments = Registers /\ paging_enabled \in BOOLEAN
    /\ commands \in 0 .. MaxCommands
    /\ shown \in {<<>>} \cup [1 .. 7 -> 0 .. 255]

\* print_gdt reads bytes, whatever page 0 holds where the table was.
LEMMA BytesShown == [i \in 1 .. 7 |-> AccessByte(i - 1)] \in [1 .. 7 -> 0 .. 255]
  <1>1. ASSUME NEW i \in 0 .. 6 PROVE AccessByte(i) \in 0 .. 255
    <2>1. Access[i] \in 0 .. 255
      BY DEF Access, Entries
    <2>2. Descriptors(gran)[i].access = Access[i]
      <3>1. \A limit, access, flags : gdt_set_entry(0, limit, access, flags).access = access
        BY DEF gdt_set_entry
      <3>2. Access[0] = 0
        BY DEF Access, Entries
      <3>3. Descriptors(gran)[i] = IF i = 0 THEN gdt_set_entry(0, 0, 0, 0)
                                   ELSE gdt_set_entry(0, MaxLimit, Access[i], gran)
        BY DEF Descriptors, Entries
      <3> QED BY <3>1, <3>2, <3>3
    <2>3. gdt_set_entry(0, 0, 0, 0).access = 0
      BY DEF gdt_set_entry
    <2> QED BY <2>1, <2>2, <2>3 DEF AccessByte, Descriptor
  <1>2. \A i \in 1 .. 7 : i - 1 \in 0 .. 6
    OBVIOUS
  <1> QED BY <1>1, <1>2

\* What a call or a command may do to them.
PageZero == low' \in [Slots -> {"junk", "zero", "text", "gdt", "table"}]
Shown == shown' = shown \/ shown' \in [1 .. 7 -> 0 .. 255] \/ shown' = <<>>
Stays == /\ UNCHANGED <<magic_ok, first_frame>> /\ PageZero /\ Shown
         /\ cpu' \in {"running", "halted", "panicked", "faulted", "off"}
         /\ DOMAIN segments' = Registers /\ paging_enabled' \in BOOLEAN
         /\ \/ commands' = commands
            \/ commands < MaxCommands /\ commands' = commands + 1
Moves == \/ pc' = pc /\ Code' = Code
         \/ pc <= Len(Code) /\ NextCall
         \/ pc' = 1
         \/ routine' = "boot" /\ program' = program /\ pc' = Len(Boot[program]) + 1

LEMMA LengthNext == (IInv => Straight(Code) /\ Len(Code) \in Nat)'
  <1>1. IInv => Straight(Code) /\ Len(Code) \in Nat
    BY CodeIsStraight
  <1> QED BY <1>1, PTL

LEMMA TypedStep ==
    ASSUME IInv, IInv', MachineTyped, Stays, Moves
    PROVE  MachineTyped'
  <1>1. pc' \in 1 .. Len(Code') + 1
    <2>1. Len(Code) \in Nat /\ Len(Code') \in Nat
      <3>1. (IInv => Straight(Code) /\ Len(Code) \in Nat)'
        BY LengthNext
      <3> QED BY <3>1, CodeIsStraight
    <2>2. CASE routine' = "boot" /\ program' = program /\ pc' = Len(Boot[program]) + 1
      <3>1. Code' = Boot[program]
        BY <2>2 DEF Code
      <3> QED BY <2>1, <2>2, <3>1
    <2> QED BY <2>1, <2>2 DEF Moves, NextCall, MachineTyped
  <1>2. commands' \in 0 .. MaxCommands
    BY KernelAssumption DEF Stays, MachineTyped
  <1>3. shown' \in {<<>>} \cup [1 .. 7 -> 0 .. 255]
    BY DEF Stays, Shown, MachineTyped
  <1> QED BY <1>1, <1>2, <1>3 DEF Stays, PageZero, MachineTyped

\* The calls go on to the next call in the same code.
LEMMA CallsMove ==
    ASSUME IInv, ShellInv, MachineTyped, Execute, ~MemtestReturns
    PROVE  /\ Moves /\ UNCHANGED <<magic_ok, first_frame, commands>>
           /\ cpu' \in {"running", "halted", "panicked", "faulted", "off"}
           /\ (cpu' = "panicked" => CheckMagic /\ ~magic_ok)
  <1>1. /\ pc <= Len(Code) /\ pc' = pc + 1 /\ cpu = "running"
        /\ UNCHANGED <<program, routine, magic_ok, first_frame, commands>>
    BY DEF Execute, SetupGdt, LoadSegments, CheckMagic, PagingInit, PagingEnable,
           OtherManagers, KheapInit, PrintGdt, CallsKmalloc, CallsKfree,
           CallsWrite, TestPages, Halts, Calls, Returns, bootVars, shellVars
  <1>2. Moves
    BY <1>1 DEF Moves, NextCall, Code
  <1>3. CASE CallsKmalloc \/ CallsKfree
    <2>1. cpu' = cpu
      BY <1>3, KmallocCall, KfreeCall
    <2> QED BY <1>1, <1>2, <2>1
  <1>4. CASE ~CallsKmalloc /\ ~CallsKfree
    <2>1. cpu' = cpu \/ cpu' = "halted" \/ (CheckMagic /\ ~magic_ok /\ cpu' = "panicked")
      BY <1>4 DEF Execute, SetupGdt, LoadSegments, CheckMagic, PagingInit,
                  PagingEnable, OtherManagers, KheapInit, PrintGdt, CallsWrite,
                  TestPages, Halts, kernel_panic
    <2> QED BY <1>1, <1>2, <2>1
  <1> QED BY <1>3, <1>4

LEMMA CallsTyped ==
    ASSUME IInv, ShellInv, MachineTyped, Execute, ~MemtestReturns
    PROVE  Stays
  <1>1. PageZero
    <2>1. CASE SetupGdt
      BY <2>1 DEF SetupGdt, PageZero, MachineTyped
    <2>2. CASE PagingInit
      BY <2>2 DEF PagingInit, PageZero
    <2>3. CASE TestPages
      BY <2>3 DEF TestPages, PageZero, MachineTyped
    <2>4. CASE ~SetupGdt /\ ~PagingInit /\ ~TestPages
      <3>1. low' = low
        BY <2>4 DEF Execute, LoadSegments, CheckMagic, PagingEnable,
                    OtherManagers, KheapInit, PrintGdt, CallsKmalloc, CallsKfree,
                    CallsWrite, Halts, machineVars
      <3> QED BY <3>1 DEF PageZero, MachineTyped
    <2> QED BY <2>1, <2>2, <2>3, <2>4
  <1>2. Shown
    <2>1. CASE PrintGdt
      BY <2>1, BytesShown DEF PrintGdt, Shown
    <2>2. CASE ~PrintGdt
      BY <2>2 DEF Shown, Execute, SetupGdt, LoadSegments, CheckMagic, PagingInit,
                  PagingEnable, OtherManagers, KheapInit, CallsKmalloc,
                  CallsKfree, CallsWrite, TestPages, Halts
    <2> QED BY <2>1, <2>2
  <1>3. DOMAIN segments' = Registers
    <2>1. CASE LoadSegments
      BY <2>1 DEF LoadSegments, Registers
    <2>2. CASE ~LoadSegments
      <3>1. segments' = segments
        BY <2>2 DEF Execute, SetupGdt, CheckMagic, PagingInit, PagingEnable,
                    OtherManagers, KheapInit, PrintGdt, CallsKmalloc, CallsKfree,
                    CallsWrite, TestPages, Halts, machineVars
      <3> QED BY <3>1 DEF MachineTyped
    <2> QED BY <2>1, <2>2
  <1>4. paging_enabled' \in BOOLEAN
    <2>1. paging_enabled' = paging_enabled \/ paging_enabled' = TRUE
      BY DEF Execute, SetupGdt, LoadSegments, CheckMagic, PagingInit, PagingEnable,
             OtherManagers, KheapInit, PrintGdt, CallsKmalloc, CallsKfree,
             CallsWrite, TestPages, Halts, machineVars
    <2> QED BY <2>1 DEF MachineTyped
  <1> QED BY <1>1, <1>2, <1>3, <1>4, CallsMove DEF Stays

LEMMA CommandsMove ==
    ASSUME IInv, IInv', ShellInv, MachineTyped, Command
    PROVE  /\ Moves /\ UNCHANGED <<magic_ok, first_frame>>
           /\ cpu' \in {"running", "halted", "faulted", "off"}
           /\ commands < MaxCommands /\ commands' = commands + 1
  <1>1. /\ cpu = "running" /\ UNCHANGED <<program, magic_ok, first_frame>>
        /\ commands < MaxCommands /\ commands' = commands + 1
    BY DEF Command, Malloc, Free, Memtest, Memdump, GdtCommand, Halt, Reboot,
           Shutdown, Typed, AtPrompt, bootVars
  <1>2. Moves
    <2>1. pc' = 1 \/ UNCHANGED <<pc, routine>>
      BY DEF Command, Malloc, Free, Memtest, Memdump, GdtCommand, Halt, Reboot,
             Shutdown
    <2> QED BY <1>1, <2>1 DEF Moves, Code
  <1>3. CASE Free \/ \E size \in MallocSizes : Malloc(size)
    BY <1>1, <1>2, <1>3, FreeKeeps, MallocKeeps
  <1>4. CASE ~Free /\ ~ \E size \in MallocSizes : Malloc(size)
    <2>1. cpu' = cpu \/ cpu' \in {"running", "halted", "faulted", "off"}
      BY <1>4 DEF Command, Memtest, Memdump, GdtCommand, Halt, Reboot,
                  Shutdown
    <2> QED BY <1>1, <1>2, <2>1
  <1> QED BY <1>3, <1>4

LEMMA CommandsTyped ==
    ASSUME IInv, IInv', ShellInv, MachineTyped, Command
    PROVE  Stays
  <1>1. PageZero /\ DOMAIN segments' = Registers /\ paging_enabled' \in BOOLEAN
    <2>1. CASE Reboot
      <3>1. EmptyPage \in [Slots -> {"junk", "zero", "text", "gdt", "table"}]
            /\ DOMAIN GrubSegments = Registers
        BY DEF EmptyPage, GrubSegments
      <3> QED BY <2>1, <3>1 DEF Reboot, PageZero
    <2>2. CASE ~Reboot
      <3>1. UNCHANGED machineVars
        BY <2>2 DEF Command, Malloc, Free, Memtest, Memdump, GdtCommand, Halt,
                    Shutdown
      <3> QED BY <3>1 DEF PageZero, MachineTyped, machineVars
    <2> QED BY <2>1, <2>2
  <1>2. Shown
    <2>1. CASE GdtCommand
      BY <2>1, BytesShown DEF GdtCommand, Shown
    <2>2. CASE ~GdtCommand
      BY <2>2 DEF Shown, Command, Malloc, Free, Memtest, Memdump, Halt, Reboot,
                  Shutdown
    <2> QED BY <2>1, <2>2
  <1> QED BY <1>1, <1>2, CommandsMove DEF Stays

LEMMA NextTyped ==
    IInv /\ IInv' /\ ShellInv /\ MachineTyped /\ [Next]_vars => MachineTyped'
  <1> SUFFICES ASSUME IInv, IInv', ShellInv, MachineTyped, [Next]_vars
               PROVE  MachineTyped'
    OBVIOUS
  <1>1. CASE Execute /\ ~MemtestReturns
    BY <1>1, CallsMove, CallsTyped, TypedStep
  <1>2. CASE MemtestReturns
    <2>1. Stays /\ Moves
      BY <1>2 DEF MemtestReturns, Calls, Stays, Moves, PageZero, Shown,
                  MachineTyped, bootVars, machineVars, shellVars
    <2> QED BY <2>1, TypedStep
  <1>3. CASE Command
    BY <1>3, CommandsMove, CommandsTyped, TypedStep
  <1>4. CASE UNCHANGED vars
    <2>1. Stays /\ Moves
      BY <1>4 DEF vars, Stays, Moves, PageZero, Shown, Code,
                  MachineTyped, bootVars, machineVars, shellVars
    <2> QED BY <2>1, TypedStep
  <1> QED BY <1>1, <1>2, <1>3, <1>4 DEF Next

LEMMA InitTyped == Init => MachineTyped
  <1> SUFFICES ASSUME Init PROVE MachineTyped
    OBVIOUS
  <1>1. Len(Code) \in Nat
    BY InitIInv, CodeIsStraight
  <1>2. /\ EmptyPage \in [Slots -> {"junk", "zero", "text", "gdt", "table"}]
        /\ DOMAIN GrubSegments = Registers
    BY DEF EmptyPage, GrubSegments
  <1>3. pc \in 1 .. Len(Code) + 1
    BY <1>1 DEF Init
  <1>4. commands \in 0 .. MaxCommands
    BY KernelAssumption DEF Init
  <1>5. shown \in {<<>>} \cup [1 .. 7 -> 0 .. 255]
    BY DEF Init
  <1> QED BY <1>2, <1>3, <1>4, <1>5 DEF Init, MachineTyped

LEMMA TypedInvariance == Spec => []MachineTyped
  <1>1. IInv /\ ShellInv /\ MachineTyped /\ [Next]_vars /\ IInv' => MachineTyped'
    BY NextTyped
  <1> QED BY <1>1, InitTyped, ShellInvariance, PTL DEF Spec

----------------------------------------------------------------------------
(* Theorems *)

LEMMA PanicStep ==
    IInv /\ IInv' /\ ShellInv /\ MachineTyped /\ [Next]_vars /\ OnlyMagicPanics
      => OnlyMagicPanics'
  <1> SUFFICES ASSUME IInv, IInv', ShellInv, MachineTyped, [Next]_vars, OnlyMagicPanics
               PROVE  OnlyMagicPanics'
    OBVIOUS
  <1>1. CASE Execute /\ ~MemtestReturns
    BY <1>1, CallsMove DEF OnlyMagicPanics
  <1>2. CASE MemtestReturns \/ UNCHANGED vars
    <2>1. UNCHANGED <<cpu, magic_ok>>
      BY <1>2 DEF MemtestReturns, vars, bootVars
    <2> QED BY <2>1 DEF OnlyMagicPanics
  <1>3. CASE Command
    BY <1>3, CommandsMove DEF OnlyMagicPanics
  <1> QED BY <1>1, <1>2, <1>3 DEF Next

\* kmalloc halts the machine when the free block it finds is corrupt, and kfree
\* for a pointer it does not know and for a block that is free already.  No boot
\* and no sequence of malloc, free, memtest, memdump and reboot makes them do
\* so: the only panic is main's, for a wrong magic number.
THEOREM PanicsOnlyAtMagic == Spec => []OnlyMagicPanics
  <1>1. Init => OnlyMagicPanics
    BY DEF Init, OnlyMagicPanics
  <1> QED BY <1>1, PanicStep, ShellInvariance, TypedInvariance, PTL DEF Spec

LEMMA HeapTyped == Sound => Heap!TypeOK
  BY DEF Sound, KH!IInv, KH!TypeOK, Heap!TypeOK, KH!Blocks, Heap!Blocks,
         KH!Header, Heap!Header, KH!NULL, Heap!NULL, KH!HEAP_MAGIC,
         Heap!HEAP_MAGIC, KH!HEAP_MAGIC_FREE, Heap!HEAP_MAGIC_FREE

\* The variables of kernel.c, shell.c and kmalloc.c hold values of their types,
\* and the heap's do as long as its headers are there.
THEOREM KernelTyped == Spec => []TypeOK
  <1>1. IInv /\ ShellInv /\ MachineTyped => TypeOK
    <2> SUFFICES ASSUME IInv, ShellInv, MachineTyped PROVE TypeOK
      OBVIOUS
    <2>1. HeapReady /\ (\A a \in Heap!Blocks : hdr[a].magic # "zero") => Heap!TypeOK
      BY HeapTyped, SameSteps DEF ShellInv, HeapInv, Standing
    <2> QED BY <2>1 DEF TypeOK, IInv, Position, MachineTyped, ShellInv, PointersTyped
  <1> QED BY <1>1, ShellInvariance, TypedInvariance, PTL

\* test_ptrs and the array of memtest hold every allocation of the heap, each
\* of them once, at the prompt as between any two calls of memtest.
THEOREM PointersMatchHeap == Spec => []PointersAreAllocations
  <1>1. IInv /\ ShellInv => PointersAreAllocations
    <2> SUFFICES ASSUME IInv, ShellInv, HasShell PROVE PointersAreAllocations
      BY DEF PointersAreAllocations
    <2>1. PointersTyped /\ TestsInOrder /\ LocalsInOrder /\ Stacked
      BY DEF ShellInv, StackInv
    <2>2. /\ DOMAIN test_ptrs = 1 .. MaxTests /\ test_count \in Nat
          /\ test_count <= MaxTests /\ MaxTests \in Nat
      BY <2>1, PtrFacts DEF PointersTyped
    <2>3. Held = 1 .. test_count
      BY <2>2 DEF Held
    <2>4. Distinct(test_ptrs, Held)
      <3>1. SUFFICES ASSUME NEW i \in 1 .. test_count, NEW j \in 1 .. test_count, i # j
                     PROVE  test_ptrs[i] # test_ptrs[j]
        BY <2>3 DEF Distinct
      <3>2. i < j \/ j < i
        BY <3>1
      <3>3. test_ptrs[i] \in Int /\ test_ptrs[j] \in Int
        BY <2>1, <2>2, PtrFacts
      <3> QED BY <2>1, <3>2, <3>3 DEF TestsInOrder
    <2>5. \A i \in DOMAIN test_ptrs : i \in Held <=> test_ptrs[i] # NULL
      BY <2>1, <2>2, <2>3 DEF TestsInOrder
    <2>6. {test_ptrs[i] : i \in Held} = Tests
      BY <2>3 DEF Tests
    <2>7. MemtestHeld = {i \in Pending : locals[i] # NULL}
      <3>1. CASE routine = "memtest"
        BY <3>1, PendingOfMemtest DEF MemtestHeld, MemtestLength
      <3>2. CASE routine # "memtest"
        <4>1. Pending = {}
          BY <3>2, NothingPending DEF IInv, Position
        <4> QED BY <3>2, <4>1 DEF MemtestHeld
      <3> QED BY <3>1, <3>2
    <2>8. {locals[i] : i \in MemtestHeld} = Locals
      BY <2>7 DEF Locals
    <2>9. Distinct(locals, MemtestHeld)
      <3>1. SUFFICES ASSUME NEW i \in Pending, NEW j \in Pending, i # j,
                            locals[i] # NULL, locals[j] # NULL
                     PROVE  locals[i] # locals[j]
        BY <2>7 DEF Distinct
      <3>2. i \in 1 .. MaxLocals /\ j \in 1 .. MaxLocals
        BY DEF Pending
      <3>3. i \in Int /\ j \in Int /\ locals[i] \in Int /\ locals[j] \in Int
        BY <2>1, <3>2, PtrFacts
      <3>4. i < j \/ j < i
        BY <3>1, <3>3
      <3> QED BY <2>1, <3>1, <3>3, <3>4 DEF LocalsInOrder
    <2>10. CASE Sound
      <3>1. KH!Used(hdr) = DOMAIN live /\ DOMAIN hdr \subseteq Nat
            /\ \A b \in DOMAIN live : live[b].ptr = b + HeaderSize
        BY <2>10, SoundStands DEF Sound
      <3>2. DOMAIN live = TestBlocks \cup LocalBlocks /\ DOMAIN live \subseteq Nat
        BY <2>1, <3>1 DEF Stacked, KH!Used
      <3>3. /\ \A i \in 1 .. test_count : test_ptrs[i] \in Nat
                 /\ test_ptrs[i] - HeaderSize \in TestBlocks
            /\ \A b \in TestBlocks : \E i \in 1 .. test_count :
                 test_ptrs[i] = b + HeaderSize
        BY <2>1, <3>2, TestFacts
      <3>4. /\ \A p \in Locals : p \in Nat
            /\ \A i \in Pending : locals[i] # NULL =>
                 locals[i] \in Locals /\ locals[i] - HeaderSize \in LocalBlocks
            /\ \A b \in LocalBlocks : \E i \in Pending :
                 locals[i] # NULL /\ locals[i] = b + HeaderSize
        BY <2>1, LocalFacts
      <3>5. \A p \in Tests \cup Locals : p \in Heap!HeldPtrs
        <4>1. SUFFICES ASSUME NEW p \in Tests \cup Locals PROVE p \in Heap!HeldPtrs
          OBVIOUS
        <4> DEFINE b == p - HeaderSize
        <4>2. p \in Nat
          BY <3>3, <3>4 DEF Tests
        <4>3. b \in TestBlocks \cup LocalBlocks
          BY DEF TestBlocks, LocalBlocks
        <4>4. b \in DOMAIN live /\ p = b + HeaderSize
          BY <2>1, <3>2, <4>2, <4>3, PtrFacts
        <4> QED BY <3>1, <4>4 DEF Heap!HeldPtrs
      <3>6. \A p \in Heap!HeldPtrs : p \in Tests \cup Locals
        <4>1. SUFFICES ASSUME NEW b \in DOMAIN live
                       PROVE  b + HeaderSize \in Tests \cup Locals
          BY <3>1 DEF Heap!HeldPtrs
        <4>2. CASE b \in TestBlocks
          <5>1. PICK i \in 1 .. test_count : test_ptrs[i] = b + HeaderSize
            BY <3>3, <4>2
          <5> QED BY <5>1 DEF Tests
        <4>3. CASE b \in LocalBlocks
          <5>1. PICK i \in Pending : locals[i] # NULL /\ locals[i] = b + HeaderSize
            BY <3>4, <4>3
          <5> QED BY <3>4, <5>1
        <4> QED BY <3>2, <4>2, <4>3
      <3>7. ASSUME NEW i \in Held, NEW j \in MemtestHeld
            PROVE  test_ptrs[i] # locals[j]
        <4>1. /\ test_ptrs[i] - HeaderSize \in TestBlocks
              /\ locals[j] - HeaderSize \in LocalBlocks
          BY <2>3, <2>7, <3>3, <3>4
        <4>2. test_ptrs[i] - HeaderSize < locals[j] - HeaderSize
          BY <2>1, <4>1 DEF Stacked
        <4>3. /\ test_ptrs[i] \in Nat /\ locals[j] \in Nat
              /\ HeaderSize \in Nat
          BY <2>1, <2>3, <2>7, <3>3, <3>4, PtrFacts
        <4> QED BY <4>2, <4>3
      <3> QED BY <2>4, <2>5, <2>6, <2>8, <2>9, <3>5, <3>6, <3>7
              DEF PointersAreAllocations
    <2>11. CASE NoHeap
      <3>1. KH!Used(hdr) = {} /\ Heap!HeldPtrs = {}
        BY <2>11 DEF NoHeap, NoBlocks, KH!Used, Heap!HeldPtrs
      <3>2. TestBlocks = {} /\ LocalBlocks = {}
        BY <2>1, <3>1 DEF Stacked
      <3>3. Tests = {} /\ Locals = {}
        BY <3>2 DEF TestBlocks, LocalBlocks
      <3>4. Held = {} /\ MemtestHeld = {}
        BY <2>6, <2>8, <3>3
      <3> QED BY <2>4, <2>5, <2>6, <2>8, <2>9, <3>1, <3>3, <3>4
              DEF PointersAreAllocations
    <2>12. Sound \/ NoHeap
      BY DEF ShellInv, HeapInv, HeapUp, IInv, Position
    <2> QED BY <2>10, <2>11, <2>12
  <1> QED BY <1>1, ShellInvariance, PTL

\* The newest allocation is freed first, so whatever was typed the heap has at
\* the prompt one free block, at its end, or none.
THEOREM ShellNeverFragments == Spec => []NeverFragmented
  <1>1. IInv /\ ShellInv => NeverFragmented
    <2> SUFFICES ASSUME IInv, ShellInv, AtPrompt
                 PROVE  Cardinality({a \in Heap!Blocks : hdr[a].free = 1}) <= 1
      BY DEF NeverFragmented
    <2>1. Merged(hdr) /\ KH!FreeAtEnd(hdr)
      BY AtThePrompt
    <2> DEFINE F == {a \in Heap!Blocks : hdr[a].free = 1}
    <2>2. \A a, c \in F : a = c
      <3>1. SUFFICES ASSUME NEW a \in F, NEW c \in F PROVE a = c
        OBVIOUS
      <3>2. /\ a \in DOMAIN hdr /\ c \in DOMAIN hdr
            /\ KH!BlockEnd(hdr, a) = HeapSize /\ KH!BlockEnd(hdr, c) = HeapSize
        BY <2>1, SameSteps DEF KH!FreeAtEnd
      <3> QED BY <2>1, <3>2, Layout, CallsOK, KH!EndsDiffer DEF Merged
    <2> HIDE DEF F
    <2>3. CASE F = {}
      BY <2>3, FS_EmptySet DEF F
    <2>4. CASE F # {}
      <3>1. PICK a \in F : F = {a}
        BY <2>2, <2>4
      <3>2. Cardinality({a}) = 1
        BY FS_Singleton
      <3>3. Cardinality(F) <= 1
        BY <3>1, <3>2
      <3> QED BY <3>3 DEF F
    <2> QED BY <2>3, <2>4
  <1> QED BY <1>1, ShellInvariance, PTL

\* What the run checks of the shell's list and the heap, together.
THEOREM ShellIsSound == Spec => []ShellSound
  <1>1. TypeOK /\ PointersAreAllocations /\ NeverFragmented => ShellSound
    BY DEF ShellSound
  <1> QED BY <1>1, KernelTyped, PointersMatchHeap, ShellNeverFragments, PTL

\* memtest frees what it allocated, in the order of its allocations and also
\* when some of them failed, and the block list is then, header by header, the
\* one that memtest found.
THEOREM MemtestRestores == Spec => MemtestLeavesNoTrace
  <1>1. IInv /\ ShellInv /\ [Next]_vars => [MemtestReturns => hdr' = before]_vars
    <2> SUFFICES ASSUME IInv, ShellInv, MemtestReturns PROVE hdr' = before
      OBVIOUS
    <2> QED BY MemtestOver DEF heapVars
  <1> QED BY <1>1, ShellInvariance, PTL DEF Spec, MemtestLeavesNoTrace

=============================================================================
