------------------------------- MODULE PmmProofs -------------------------------
(***************************************************************************)
(* Proofs about the page manager, for every page size, memory map and      *)
(* kernel image.                                                           *)
(*                                                                         *)
(* The first part is about division, the second about what pmm_init        *)
(* computes: the pages it leaves free are exactly the usable ones, although *)
(* it works with rounded page numbers and the definition with bytes.  The  *)
(* third is the inductive invariant and the theorems that follow from it.  *)
(***************************************************************************)
EXTENDS Pmm, FiniteSetTheorems, FunctionTheorems, TLAPS

LEMMA Constants ==
    /\ PageSize \in Nat \ {0} /\ WordBits \in Nat \ {0} /\ Word \in Nat \ {0}
    /\ LowMemory \in Nat /\ KernelStart \in Nat /\ KernelEnd \in Nat
  BY LayoutAssumption

----------------------------------------------------------------------------
(* Division *)

LEMMA TimesMonotonic ==
    ASSUME NEW a \in Int, NEW b \in Int, NEW n \in Nat, a <= b
    PROVE  a * n <= b * n
  OBVIOUS

LEMMA DivBounds ==
    ASSUME NEW a \in Nat, NEW n \in Nat \ {0}
    PROVE  a \div n \in Nat /\ (a \div n) * n <= a /\ a < (a \div n + 1) * n
  OBVIOUS

LEMMA DivExact ==
    ASSUME NEW a \in Nat, NEW n \in Nat \ {0}, a % n = 0
    PROVE  (a \div n) * n = a
  OBVIOUS

\* A quotient is above p when the next multiple still fits.
LEMMA DivAbove ==
    ASSUME NEW a \in Nat, NEW n \in Nat \ {0}, NEW p \in Nat
    PROVE  p < a \div n <=> (p + 1) * n <= a
  <1> DEFINE q == a \div n
  <1>1. q \in Nat /\ q * n <= a /\ a < (q + 1) * n
    BY DivBounds
  <1>2. p + 1 <= q => (p + 1) * n <= q * n
    BY <1>1, TimesMonotonic
  <1>3. q + 1 <= p + 1 => (q + 1) * n <= (p + 1) * n
    BY <1>1, TimesMonotonic
  <1>4. q * n \in Int /\ (p + 1) * n \in Int /\ (q + 1) * n \in Int
    BY <1>1
  <1> HIDE DEF q
  <1>5. CASE p < q
    BY <1>1, <1>2, <1>4, <1>5
  <1>6. CASE ~(p < q)
    BY <1>1, <1>3, <1>4, <1>6
  <1>7. QED
    BY <1>5, <1>6 DEF q

\* Rounding an address up gives the first page that starts at or behind it.
LEMMA PageUpLe ==
    ASSUME NEW a \in Nat, NEW p \in Nat
    PROVE  PageUp(a) \in Nat /\ (PageUp(a) <= p <=> a <= p * PageSize)
  <1>1. a + PageSize - 1 \in Nat
    BY Constants
  <1>2. PageUp(a) \in Nat
    BY <1>1, Constants, DivBounds DEF PageUp
  <1>3. p < PageUp(a) <=> (p + 1) * PageSize <= a + PageSize - 1
    BY <1>1, Constants, DivAbove DEF PageUp
  <1>4. (p + 1) * PageSize = p * PageSize + PageSize /\ p * PageSize \in Nat
    BY Constants
  <1>5. QED
    BY <1>2, <1>3, <1>4, Constants

\* Rounding an address down gives the page it lies in.
LEMMA PageDownGt ==
    ASSUME NEW a \in Nat, NEW p \in Nat
    PROVE  /\ PageDown(a) \in Nat
           /\ p < PageDown(a) <=> p * PageSize + PageSize <= a
           /\ PageDown(a) <= p <=> a < p * PageSize + PageSize
  <1>1. PageDown(a) \in Nat
    BY Constants, DivBounds DEF PageDown
  <1>2. p < PageDown(a) <=> (p + 1) * PageSize <= a
    BY Constants, DivAbove DEF PageDown
  <1>3. (p + 1) * PageSize = p * PageSize + PageSize /\ p * PageSize \in Nat
    BY Constants
  <1>4. QED
    BY <1>1, <1>2, <1>3, Constants

\* A page number survives the way to an address and back.
LEMMA PageOfAddress ==
    ASSUME NEW p \in Nat PROVE PageDown(p * PageSize) = p
  <1>1. p * PageSize \in Nat
    BY Constants
  <1>2. PageDown(p * PageSize) <= p
    BY <1>1, Constants, PageDownGt
  <1>3. CASE p = 0
    BY <1>1, <1>2, <1>3, PageDownGt
  <1>4. CASE p # 0
    <2>1. p - 1 \in Nat /\ (p - 1) * PageSize + PageSize = p * PageSize
      BY <1>4, Constants
    <2>2. p - 1 < PageDown(p * PageSize)
      BY <1>1, <2>1, PageDownGt
    <2>3. QED
      BY <1>1, <1>2, <2>1, <2>2, PageDownGt
  <1>5. QED
    BY <1>3, <1>4

----------------------------------------------------------------------------
(* pmm_init *)

LEMMA BootNumbers ==
    ASSUME NEW m \in Machines
    PROVE  /\ pmm_total_memory(m) \in Nat /\ pmm_total_memory(m) < Word
           /\ pmm_total_pages(m) \in Nat
           /\ pmm_bitmap_size(m) \in Nat /\ WordBytes \in Nat
           /\ BitmapStart \in Nat /\ BitmapEnd(m) \in Nat
           /\ BitmapStart <= BitmapEnd(m)
  <1>1. m.mem_upper \in Nat
    BY MachinesAssumption
  <1>2. pmm_total_memory(m) \in Nat /\ pmm_total_memory(m) < Word
    BY <1>1, Constants DEF pmm_total_memory
  <1>3. pmm_total_pages(m) \in Nat
    BY <1>2, PageDownGt DEF pmm_total_pages
  <1>4. pmm_total_pages(m) + WordBits - 1 \in Nat
    BY <1>3, Constants
  <1>5. pmm_bitmap_size(m) \in Nat
    BY <1>4, Constants, DivBounds DEF pmm_bitmap_size
  <1>6. WordBytes \in Nat
    BY Constants, DivBounds DEF WordBytes
  <1>7. BitmapStart \in Nat
    <2>1. PageUp(KernelEnd) \in Nat
      BY Constants, PageUpLe
    <2>2. QED
      BY <2>1, Constants DEF BitmapStart
  <1>8. pmm_bitmap_size(m) * WordBytes \in Nat
    BY <1>5, <1>6
  <1>9. QED
    BY <1>2, <1>3, <1>5, <1>6, <1>7, <1>8 DEF BitmapEnd

\* Every page has a bit.
LEMMA BitsCover ==
    ASSUME NEW m \in Machines
    PROVE  0 .. pmm_total_pages(m) - 1 \subseteq Bits(m)
  <1> DEFINE t == pmm_total_pages(m)
             n == pmm_bitmap_size(m)
  <1>1. t \in Nat /\ n \in Nat /\ t + WordBits - 1 \in Nat
    BY BootNumbers, Constants
  <1>2. n < n <=> (n + 1) * WordBits <= t + WordBits - 1
    BY <1>1, Constants, DivAbove DEF pmm_bitmap_size
  <1>3. (n + 1) * WordBits = n * WordBits + WordBits /\ n * WordBits \in Nat
    BY <1>1, Constants
  <1> HIDE DEF t, n
  <1>4. t <= n * WordBits
    BY <1>1, <1>2, <1>3, Constants
  <1>5. QED
    BY <1>1, <1>3, <1>4 DEF Bits, t, n

\* A page of the machine lies within its memory, and no page after it does.
LEMMA PageInMemory ==
    ASSUME NEW m \in Machines, NEW p \in Nat
    PROVE  p < pmm_total_pages(m)
             <=> p * PageSize + PageSize <= pmm_total_memory(m)
  BY BootNumbers, PageDownGt DEF pmm_total_pages

LEMMA NotLow ==
    ASSUME NEW p \in Nat
    PROVE  p \notin LowArea <=> LowMemory <= p * PageSize
  <1> DEFINE L == PageDown(LowMemory)
  <1>1. L \in Nat /\ (p < L <=> p * PageSize + PageSize <= LowMemory)
    BY Constants, PageDownGt
  <1>2. L * PageSize = LowMemory
    BY LayoutAssumption, DivExact DEF PageDown
  <1>3. L <= p => L * PageSize <= p * PageSize
    BY <1>1, Constants, TimesMonotonic
  <1>4. p \in LowArea <=> p < L
    BY <1>1 DEF LowArea
  <1>5. p * PageSize \in Nat
    BY Constants
  <1> HIDE DEF L
  <1>6. QED
    BY <1>1, <1>2, <1>3, <1>4, <1>5, Constants

\* The pages pmm_init marks for the kernel are those that touch the kernel or
\* the bitmap behind it.
LEMMA KernelPages ==
    ASSUME NEW m \in Machines, NEW p \in Nat
    PROVE  p \in KernelArea(m)
             <=> \/ Overlap(p * PageSize, p * PageSize + PageSize,
                            KernelStart, KernelEnd)
                 \/ Overlap(p * PageSize, p * PageSize + PageSize,
                            BitmapStart, BitmapEnd(m))
  <1> DEFINE lo == p * PageSize
             U  == PageUp(KernelEnd)
  <1>1. lo \in Nat
    BY Constants
  <1>2. PageDown(KernelStart) \in Nat
        /\ (PageDown(KernelStart) <= p <=> KernelStart < lo + PageSize)
    BY Constants, PageDownGt
  <1>3. /\ PageUp(BitmapEnd(m)) \in Nat
        /\ PageUp(BitmapEnd(m)) <= p <=> BitmapEnd(m) <= lo
    BY BootNumbers, PageUpLe
  <1>4. U \in Nat /\ (U <= p <=> KernelEnd <= lo)
    BY Constants, PageUpLe
  <1>5. U <= p <=> BitmapStart <= lo
    <2>1. U <= p => U * PageSize <= p * PageSize
      BY <1>4, Constants, TimesMonotonic
    <2>2. p + 1 <= U => (p + 1) * PageSize <= U * PageSize
      BY <1>4, Constants, TimesMonotonic
    <2>3. (p + 1) * PageSize = lo + PageSize
      BY Constants
    <2>4. QED
      BY <1>1, <1>4, <2>1, <2>2, <2>3, Constants, BootNumbers DEF BitmapStart
  <1>6. p < U => lo + PageSize <= BitmapStart
    <2>1. p + 1 <= U => (p + 1) * PageSize <= U * PageSize
      BY <1>4, Constants, TimesMonotonic
    <2>2. (p + 1) * PageSize = lo + PageSize
      BY Constants
    <2>3. QED
      BY <1>4, <2>1, <2>2 DEF BitmapStart
  <1>7. KernelEnd <= BitmapStart
    <2>1. U <= U <=> KernelEnd <= U * PageSize
      BY <1>4, Constants, PageUpLe
    <2>2. QED
      BY <1>4, <2>1 DEF BitmapStart
  <1>8. p \in KernelArea(m) <=> KernelStart < lo + PageSize /\ lo < BitmapEnd(m)
    BY <1>1, <1>2, <1>3, BootNumbers DEF KernelArea
  <1>9. KernelStart <= KernelEnd
    BY LayoutAssumption
  <1> HIDE DEF lo, U
  <1>10. p \in KernelArea(m) <=> \/ Overlap(lo, lo + PageSize, KernelStart, KernelEnd)
                                 \/ Overlap(lo, lo + PageSize, BitmapStart, BitmapEnd(m))
    BY <1>1, <1>4, <1>5, <1>6, <1>7, <1>8, <1>9, BootNumbers, Constants DEF Overlap
  <1>11. QED
    BY <1>10 DEF lo

\* The pages that are free after pmm_init are the usable ones.
LEMMA BootFreesUsable ==
    ASSUME NEW m \in Machines, m.mem
    PROVE  {p \in 0 .. pmm_total_pages(m) - 1 : p \notin BootBitmap(m)}
             = UsablePages(m)
  <1> DEFINE T == pmm_total_pages(m)
  <1>1. T \in Nat /\ pmm_total_memory(m) \in Nat
    BY BootNumbers
  <1>2. ASSUME NEW p \in 0 .. T - 1
        PROVE  p \notin BootBitmap(m) <=> Usable(m, p)
    <2> DEFINE lo == p * PageSize
    <2>1. p \in Nat /\ p < T /\ p \in 0 .. T /\ lo \in Nat /\ p \in Bits(m)
      BY <1>1, <1>2, Constants, BitsCover
    <2>2. lo + PageSize <= pmm_total_memory(m) /\ lo < pmm_total_memory(m)
      BY <1>1, <2>1, PageInMemory, Constants
    <2>3. p \notin LowArea <=> LowMemory <= lo
      BY <2>1, NotLow
    <2>4. p \notin KernelArea(m)
            <=> /\ ~Overlap(lo, lo + PageSize, KernelStart, KernelEnd)
                /\ ~Overlap(lo, lo + PageSize, BitmapStart, BitmapEnd(m))
      BY <2>1, KernelPages
    <2>5. CASE m.has_mmap
      <3>1. ASSUME NEW i \in DOMAIN m.mmap
            PROVE  p \in Clears(m, m.mmap[i])
                     <=> /\ m.mmap[i].available
                         /\ m.mmap[i].addr <= lo
                         /\ lo + PageSize <= m.mmap[i].addr + m.mmap[i].len
        <4> DEFINE e == m.mmap[i]
        <4>1. e \in Entry
          BY MachinesAssumption
        <4>2. e.addr \in Nat /\ e.len \in Nat /\ e.addr + e.len \in Nat
          BY <4>1 DEF Entry
        <4>3. FirstPage(e) <= p <=> e.addr <= lo
          BY <2>1, <4>2, PageUpLe DEF FirstPage
        <4>4. p < PageDown(e.addr + e.len) <=> lo + PageSize <= e.addr + e.len
          BY <2>1, <4>2, PageDownGt
        <4>5. QED
          BY <2>1, <2>2, <4>3, <4>4 DEF Clears
      <3>2. p \in Freed(m) <=> \E i \in DOMAIN m.mmap : p \in Clears(m, m.mmap[i])
        BY <2>5 DEF Freed
      <3>3. QED
        BY <2>1, <2>2, <2>3, <2>4, <2>5, <3>1, <3>2
           DEF BootBitmap, AfterKernel, AfterMap, Usable
    <2>6. CASE ~m.has_mmap
      <3>1. PageDown(LowMemory) \in Nat
        BY Constants, PageDownGt
      <3>2. p \in Freed(m) <=> p \notin LowArea
        BY <1>1, <2>1, <2>6, <3>1 DEF Freed, LowArea
      <3>3. QED
        BY <2>1, <2>2, <2>3, <2>4, <2>6, <3>2
           DEF BootBitmap, AfterKernel, AfterMap, Usable
    <2>7. QED
      BY <2>5, <2>6
  <1>3. ASSUME NEW p \in 0 .. T, Usable(m, p)
        PROVE  p \in 0 .. T - 1
    <2>1. p \in Nat /\ p * PageSize + PageSize <= pmm_total_memory(m)
      BY <1>1, <1>3 DEF Usable
    <2>2. QED
      BY <1>1, <2>1, PageInMemory
  <1>4. QED
    BY <1>1, <1>2, <1>3 DEF UsablePages

LEMMA BootBitmapHasBits ==
    ASSUME NEW m \in Machines, m.mem
    PROVE  BootBitmap(m) \subseteq Bits(m)
  <1>1. KernelArea(m) \cup LowArea \subseteq Bits(m)
    BY KernelFits, BitsCover
  <1>2. QED
    BY <1>1 DEF BootBitmap, AfterKernel, AfterMap

LEMMA PairIn ==
    ASSUME NEW A, NEW B, NEW a \in A, NEW b \in B
    PROVE  <<a, b>> \in A \X B
  OBVIOUS

LEMMA PairParts ==
    ASSUME NEW A, NEW B, NEW s \in A \X B
    PROVE  s = <<s[1], s[2]>> /\ s[1] \in A /\ s[2] \in B
  OBVIOUS

\* The steps of the loops over the map, one for each page of each entry.
LEMMA StepsOfMap ==
    ASSUME NEW m
    PROVE  /\ \A i \in DOMAIN m.mmap : \A p \in Clears(m, m.mmap[i]) :
                <<i, p>> \in MapSteps(m)
           /\ \A s \in MapSteps(m) : /\ s = <<s[1], s[2]>>
                                     /\ s[1] \in DOMAIN m.mmap
                                     /\ s[2] \in Clears(m, m.mmap[s[1]])
  <1>1. \A s \in MapSteps(m) : s \in (DOMAIN m.mmap) \X (0 .. pmm_total_pages(m))
    BY DEF MapSteps
  <1>2. \A s \in MapSteps(m) : s[2] \in Clears(m, m.mmap[s[1]])
    BY Zenon DEF MapSteps
  <1>3. ASSUME NEW i \in DOMAIN m.mmap, NEW p \in Clears(m, m.mmap[i])
        PROVE  <<i, p>> \in MapSteps(m)
    <2>1. p \in 0 .. pmm_total_pages(m)
      BY DEF Clears
    <2>2. <<i, p>> \in (DOMAIN m.mmap) \X (0 .. pmm_total_pages(m))
      BY <2>1, PairIn
    <2>3. <<i, p>>[1] = i /\ <<i, p>>[2] = p
      OBVIOUS
    <2>4. QED
      BY <2>2, <2>3, Zenon DEF MapSteps
  <1>4. ASSUME NEW s \in MapSteps(m)
        PROVE  s = <<s[1], s[2]>> /\ s[1] \in DOMAIN m.mmap
    <2>1. s \in (DOMAIN m.mmap) \X (0 .. pmm_total_pages(m))
      BY <1>1
    <2>2. QED
      BY <2>1, PairParts
  <1>5. QED
    BY <1>2, <1>3, <1>4

LEMMA DecrementsFinite ==
    ASSUME NEW m \in Machines
    PROVE  /\ IsFiniteSet(MapSteps(m)) /\ IsFiniteSet(Freed(m))
           /\ Decrements(m) \in Nat
  <1> DEFINE T == pmm_total_pages(m)
             D == DOMAIN m.mmap
  <1>1. T \in Nat
    BY BootNumbers
  <1>2. IsFiniteSet(0 .. T)
    BY <1>1, FS_Interval
  <1>3. D = 1 .. Len(m.mmap) /\ Len(m.mmap) \in Nat
    BY MachinesAssumption
  <1>4. IsFiniteSet(D)
    BY <1>3, FS_Interval
  <1>5. IsFiniteSet(D \X (0 .. T))
    BY <1>2, <1>4, FS_Product
  <1>6. IsFiniteSet(MapSteps(m))
    <2>1. MapSteps(m) \subseteq (DOMAIN m.mmap) \X (0 .. pmm_total_pages(m))
      BY DEF MapSteps
    <2>2. IsFiniteSet((DOMAIN m.mmap) \X (0 .. pmm_total_pages(m)))
      BY <1>5
    <2>3. QED
      BY <2>1, <2>2, FS_Subset, Zenon
  <1>7. Freed(m) \subseteq 0 .. T
    <2>1. PageDown(LowMemory) \in Nat
      BY Constants, PageDownGt
    <2>2. CASE m.has_mmap
      BY <2>2 DEF Freed, Clears
    <2>3. CASE ~m.has_mmap
      BY <1>1, <2>1, <2>3 DEF Freed
    <2>4. QED
      BY <2>2, <2>3
  <1>8. IsFiniteSet(Freed(m))
    BY <1>2, <1>7, FS_Subset
  <1>9. QED
    BY <1>6, <1>8, FS_CardinalityType DEF Decrements

\* When the map is consistent, every page that becomes free is counted once.
LEMMA DecrementsExact ==
    ASSUME NEW m \in Machines, MapIsConsistent(m)
    PROVE  Decrements(m) = Cardinality(Freed(m))
  <1>1. CASE ~m.has_mmap
    BY <1>1 DEF Decrements
  <1>2. CASE m.has_mmap
    <2> DEFINE page == [s \in MapSteps(m) |-> s[2]]
    <2>1. Freed(m) = {s[2] : s \in MapSteps(m)}
      <3>1. ASSUME NEW p \in Freed(m)
            PROVE  p \in {s[2] : s \in MapSteps(m)}
        <4>1. PICK i \in DOMAIN m.mmap : p \in Clears(m, m.mmap[i])
          BY <1>2 DEF Freed
        <4>2. <<i, p>> \in MapSteps(m) /\ <<i, p>>[2] = p
          BY <4>1, StepsOfMap
        <4>3. QED
          BY <4>2
      <3>2. QED
        BY <1>2, <3>1, StepsOfMap DEF Freed
    <2>2. page \in Surjection(MapSteps(m), Freed(m))
      BY <2>1 DEF Surjection
    <2>3. \A s, t \in MapSteps(m) : s[2] = t[2] => s = t
      <3>1. ASSUME NEW s \in MapSteps(m), NEW t \in MapSteps(m), s[2] = t[2]
            PROVE  s = t
        <4>1. s[1] = t[1]
          BY <3>1, StepsOfMap DEF MapIsConsistent
        <4>2. QED
          BY <3>1, <4>1, StepsOfMap
      <3>2. QED
        BY <3>1
    <2>4. page \in Injection(MapSteps(m), Freed(m))
      <3>1. \A s, t \in MapSteps(m) : page[s] = page[t] => s = t
        BY <2>3
      <3>2. page \in [MapSteps(m) -> Freed(m)]
        BY <2>2 DEF Surjection
      <3> HIDE DEF page
      <3>3. QED
        BY <3>1, <3>2 DEF Injection, IsInjective
    <2>5. IsFiniteSet(MapSteps(m))
      BY DecrementsFinite
    <2> HIDE DEF page
    <2>6. Cardinality(Freed(m)) = Cardinality(MapSteps(m))
      BY <2>2, <2>4, <2>5, FS_Surjection
    <2>7. QED
      BY <1>2, <2>6 DEF Decrements
  <1>3. QED
    BY <1>1, <1>2

\* Then the counter is exact after pmm_init.
LEMMA BootCounterExact ==
    ASSUME NEW m \in Machines, m.mem, MapIsConsistent(m)
    PROVE  BootUsedPages(m) = pmm_total_pages(m) -
             Cardinality({p \in 0 .. pmm_total_pages(m) - 1 : p \notin BootBitmap(m)})
  <1> DEFINE T == pmm_total_pages(m)
             A == Freed(m)
             K == KernelArea(m)
             F == {p \in 0 .. T - 1 : p \notin BootBitmap(m)}
  <1>1. T \in Nat /\ T < Word
    <2>1. T \in Nat /\ pmm_total_memory(m) < Word /\ pmm_total_memory(m) \in Nat
      BY BootNumbers
    <2>2. T = 0 \/ T <= pmm_total_memory(m)
      <3>1. ASSUME T # 0 PROVE T <= pmm_total_memory(m)
        <4>1. T - 1 \in Nat /\ T - 1 < T
          BY <2>1, <3>1
        <4>2. (T - 1) * PageSize + PageSize <= pmm_total_memory(m)
          BY <4>1, PageInMemory
        <4>3. (T - 1) * 1 <= (T - 1) * PageSize
          BY <4>1, Constants
        <4>4. (T - 1) * PageSize \in Nat
          BY <4>1, Constants
        <4>5. QED
          BY <2>1, <4>2, <4>3, <4>4, Constants
      <3>2. QED
        BY <3>1
    <2>3. QED
      BY <2>1, <2>2, Constants
  <1>2. IsFiniteSet(A) /\ A \subseteq 0 .. T - 1
    <2>1. A \subseteq 0 .. T
      <3>1. PageDown(LowMemory) \in Nat
        BY Constants, PageDownGt
      <3>2. QED
        BY <1>1, <3>1 DEF Freed, Clears
    <2>2. T \notin A
      BY DEF MapIsConsistent
    <2>3. QED
      BY <1>1, <2>1, <2>2, DecrementsFinite
  <1>3. K \subseteq Bits(m) /\ LowArea \subseteq 0 .. T - 1
    BY KernelFits, BitsCover
  <1>4. K \ AfterMap(m) = A \cap K
    BY <1>2, <1>3, BitsCover DEF AfterMap
  <1>5. NewlyLow(m) = (A \ K) \cap LowArea
    BY <1>2, <1>3, BitsCover DEF NewlyLow, AfterKernel, AfterMap
  <1>6. F = (A \ K) \ LowArea
    BY <1>2, <1>3, BitsCover DEF BootBitmap, AfterKernel, AfterMap
  <1>7. /\ IsFiniteSet(A \ K)
        /\ Cardinality(A \ K) = Cardinality(A) - Cardinality(A \cap K)
    BY <1>2, FS_Difference
  <1>8. /\ IsFiniteSet(F)
        /\ Cardinality(F) = Cardinality(A \ K) - Cardinality((A \ K) \cap LowArea)
    BY <1>6, <1>7, FS_Difference
  <1>9. /\ Cardinality(A) \in Nat /\ Cardinality(A \cap K) \in Nat
        /\ Cardinality((A \ K) \cap LowArea) \in Nat /\ Cardinality(F) \in Nat
    BY <1>2, <1>7, <1>8, FS_Intersection, FS_CardinalityType
  <1>10. Cardinality(F) <= T
    <2>1. IsFiniteSet(0 .. T - 1) /\ Cardinality(0 .. T - 1) = T
      BY <1>1, FS_Interval
    <2>2. QED
      BY <2>1, FS_Subset
  <1>11. BootUsedPages(m) = (T - Cardinality(A) + Cardinality(A \cap K)
                              + Cardinality((A \ K) \cap LowArea)) % Word
    BY <1>4, <1>5, DecrementsExact DEF BootUsedPages
  <1> HIDE DEF T, A, K, F
  <1>12. BootUsedPages(m) = (T - Cardinality(F)) % Word
    BY <1>1, <1>7, <1>8, <1>9, <1>11
  <1>13. T - Cardinality(F) \in 0 .. Word - 1
    BY <1>1, <1>9, <1>10, Constants
  <1>14. BootUsedPages(m) = T - Cardinality(F)
    BY <1>12, <1>13, Constants
  <1>15. QED
    BY <1>14 DEF T, F

----------------------------------------------------------------------------
(* The invariant *)

\* TypeOK and BitmapIsBootPlusHeld are inductive once it is known that the
\* kernel only runs on a machine that reports its memory.
IInv ==
    /\ TypeOK
    /\ BitmapIsBootPlusHeld
    /\ kernel # "NO_MEMORY_INFO" => machine.mem
    /\ ~machine.mem => held = {}

LEMMA MachineNumbers ==
    ASSUME TypeOK
    PROVE  machine \in Machines /\ total \in Nat
  BY BootNumbers DEF TypeOK, total

\* A page that is found is free, usable and nobody's.
LEMMA FoundIsFree ==
    ASSUME IInv, NEW p, Found(p)
    PROVE  p \in FreePages /\ p \notin held /\ p \in 0 .. total - 1
  <1>1. p \in 0 .. total - 1
    BY MachineNumbers DEF Found, IInv, Bits
  <1>2. p \notin held
    BY DEF Found, IInv, BitmapIsBootPlusHeld
  <1>3. QED
    BY <1>1, <1>2 DEF Found, FreePages

\* Free and held pages make up the usable memory.
LEMMA PoolFromBitmap ==
    ASSUME IInv, machine.mem
    PROVE  FreePages \cup held = UsablePages(machine)
  <1>1. {p \in 0 .. total - 1 : p \notin BootBitmap(machine)}
          = UsablePages(machine)
    BY MachineNumbers, BootFreesUsable DEF IInv, total
  <1>2. bitmap = BootBitmap(machine) \cup held
        /\ BootBitmap(machine) \cap held = {} /\ held \subseteq 0 .. total - 1
    BY DEF IInv, BitmapIsBootPlusHeld, TypeOK
  <1>3. QED
    BY <1>1, <1>2 DEF FreePages

\* A page that pmm_free_page takes back was held.
LEMMA FreedWasHeld ==
    ASSUME IInv, NEW page \in Frees, FreePage(page)
    PROVE  PageDown(page) \in held
  <1>1. total \in Nat
    BY MachineNumbers DEF IInv
  <1>2. page # NULL
    BY DEF FreePage
  <1>3. PICK p \in held \cup FreePages \cup {total} : page = p * PageSize
    BY <1>2 DEF Frees
  <1>4. p \in Nat
    <2>1. held \subseteq 0 .. total - 1 /\ FreePages \subseteq 0 .. total - 1
      BY DEF IInv, TypeOK, FreePages
    <2>2. 0 .. total - 1 \subseteq Nat
      BY <1>1
    <2>3. QED
      BY <1>1, <1>3, <2>1, <2>2
  <1>5. PageDown(page) = p
    BY <1>3, <1>4, PageOfAddress
  <1>6. p # total /\ p \in bitmap
    BY <1>1, <1>4, <1>5 DEF FreePage, Invalid, DoubleFree
  <1>7. QED
    BY <1>3, <1>5, <1>6 DEF FreePages

\* When nothing is found, nothing is free.
LEMMA NotFoundNoneFree ==
    ASSUME TypeOK, \A p \in Bits(machine) : ~Found(p)
    PROVE  FreePages = {}
  <1> SUFFICES ASSUME NEW p \in FreePages PROVE FALSE
    OBVIOUS
  <1>1. total \in Nat
    BY MachineNumbers
  <1>2. p \in Bits(machine) /\ p \in Nat /\ p < total /\ p \notin bitmap
    <2>1. p \in 0 .. total - 1 /\ p \notin bitmap
      BY DEF FreePages
    <2>2. p \in Bits(machine)
      BY <2>1 DEF TypeOK
    <2>3. QED
      BY <1>1, <2>1, <2>2
  <1> DEFINE i == p \div WordBits
  <1>3. i \in Nat /\ i * WordBits <= p /\ p < (i + 1) * WordBits
    BY <1>2, Constants, DivBounds
  <1>4. i * WordBits \in Int /\ (i + 1) * WordBits \in Int
    BY <1>3, Constants
  <1> HIDE DEF i
  <1>5. p \in i * WordBits .. (i + 1) * WordBits - 1
    BY <1>2, <1>3, <1>4
  <1>6. WordHasRoom(i)
    BY <1>2, <1>5 DEF WordHasRoom
  <1>7. QED
    BY <1>2, <1>6 DEF Found, i

THEOREM InitIInv == Init => IInv
  <1> SUFFICES ASSUME Init PROVE IInv
    OBVIOUS
  <1>1. machine \in Machines /\ total \in Nat
    BY BootNumbers DEF Init, total
  <1>2. 0 .. total - 1 \subseteq Bits(machine)
    BY <1>1, BitsCover DEF total
  <1>3. bitmap \subseteq Bits(machine)
    BY <1>1, BootBitmapHasBits DEF Init
  <1>4. pmm_used_pages \in 0 .. Word - 1
    <2>1. CASE machine.mem
      <3>1. Decrements(machine) \in Nat
        BY <1>1, DecrementsFinite
      <3>2. IsFiniteSet(0 .. total - 1)
        BY <1>1, FS_Interval
      <3>3. IsFiniteSet(KernelArea(machine)) /\ IsFiniteSet(LowArea)
        <4>1. KernelArea(machine) \cup LowArea \subseteq 0 .. total - 1
          BY <1>1, <2>1, KernelFits DEF total
        <4>2. QED
          BY <3>2, <4>1, FS_Subset
      <3>4. /\ IsFiniteSet(KernelArea(machine) \ AfterMap(machine))
            /\ IsFiniteSet(NewlyLow(machine))
        BY <3>3, FS_Difference DEF NewlyLow
      <3>5. /\ Cardinality(KernelArea(machine) \ AfterMap(machine)) \in Nat
            /\ Cardinality(NewlyLow(machine)) \in Nat
        BY <3>4, FS_CardinalityType
      <3>6. BootUsedPages(machine) \in 0 .. Word - 1
        BY <1>1, <3>1, <3>5, Constants DEF BootUsedPages, total
      <3>7. QED
        BY <2>1, <3>6 DEF Init
    <2>2. CASE ~machine.mem
      BY <2>2, Constants DEF Init
    <2>3. QED
      BY <2>1, <2>2
  <1>5. TypeOK
    BY <1>1, <1>2, <1>3, <1>4 DEF Init, TypeOK
  <1>6. BitmapIsBootPlusHeld
    BY DEF Init, BitmapIsBootPlusHeld
  <1>7. QED
    BY <1>5, <1>6 DEF Init, IInv

THEOREM NextIInv == IInv /\ [Next]_vars => IInv'
  <1> SUFFICES ASSUME IInv, [Next]_vars PROVE IInv'
    OBVIOUS
  <1>0. /\ TypeOK /\ machine \in Machines /\ total \in Nat
        /\ Word \in Nat \ {0} /\ pmm_used_pages \in 0 .. Word - 1
    BY MachineNumbers, Constants DEF IInv, TypeOK
  <1>1. CASE AllocPage
    <2>1. PICK p \in Bits(machine) :
            /\ FirstFree(p)
            /\ bitmap' = SetBit(bitmap, p)
            /\ held' = held \cup {p}
            /\ kernel' = IF Mapped(p) THEN kernel ELSE "PAGE_FAULT"
      BY <1>1 DEF AllocPage
    <2>2. p \in FreePages /\ p \notin held /\ p \in 0 .. total - 1
      BY <2>1, FoundIsFree DEF FirstFree
    <2>3. machine' = machine /\ total' = total /\ machine.mem
      BY <1>1 DEF AllocPage, IInv, total
    <2>4. pmm_used_pages' \in 0 .. Word - 1
      BY <1>0, <1>1 DEF AllocPage
    <2>5. TypeOK'
      BY <1>0, <1>1, <2>1, <2>2, <2>3, <2>4 DEF TypeOK, AllocPage, SetBit
    <2>6. BitmapIsBootPlusHeld'
      BY <2>1, <2>2, <2>3
         DEF IInv, BitmapIsBootPlusHeld, SetBit, FreePages
    <2>7. QED
      BY <2>3, <2>5, <2>6 DEF IInv
  <1>2. CASE AllocFails
    BY <1>2 DEF AllocFails, IInv, TypeOK, BitmapIsBootPlusHeld, total
  <1>3. ASSUME NEW page \in Frees, FreePage(page) PROVE IInv'
    <2>1. PageDown(page) \in held
      BY <1>3, FreedWasHeld
    <2>2. machine' = machine /\ total' = total /\ machine.mem
      BY <1>3 DEF FreePage, IInv, total
    <2>3. pmm_used_pages' \in 0 .. Word - 1
      BY <1>0, <1>3 DEF FreePage
    <2>4. TypeOK'
      BY <1>0, <1>3, <2>2, <2>3 DEF TypeOK, FreePage, ClearBit
    <2>5. BitmapIsBootPlusHeld'
      BY <1>3, <2>1, <2>2 DEF IInv, BitmapIsBootPlusHeld, FreePage, ClearBit
    <2>6. QED
      BY <2>2, <2>4, <2>5 DEF IInv
  <1>4. ASSUME NEW page \in Frees, FreeRefused(page) PROVE IInv'
    BY <1>4 DEF FreeRefused, IInv, TypeOK, BitmapIsBootPlusHeld, total
  <1>5. CASE UNCHANGED vars
    BY <1>5 DEF vars, IInv, TypeOK, BitmapIsBootPlusHeld, total
  <1>6. QED
    BY <1>1, <1>2, <1>3, <1>4, <1>5 DEF Next

LEMMA InvariantHolds == Spec => []IInv
  BY InitIInv, NextIInv, PTL DEF Spec

----------------------------------------------------------------------------
(* Theorems *)

\* The state of the page manager keeps its type: in particular pmm_init and
\* pmm_free_page touch no bit outside the bitmap.
THEOREM TypeCorrectness == Spec => []TypeOK
  <1>1. IInv => TypeOK
    BY DEF IInv
  <1>2. QED
    BY <1>1, InvariantHolds, PTL

\* No page is lost, shared, or handed out while the kernel keeps it.
THEOREM NoPageLost == Spec => []BitmapIsBootPlusHeld
  <1>1. IInv => BitmapIsBootPlusHeld
    BY DEF IInv
  <1>2. QED
    BY <1>1, InvariantHolds, PTL

\* Whatever the memory map, clients can get all of the usable memory, and
\* never a page that is reserved or that the kernel or the bitmap is in.
THEOREM ExactlyUsableMemory == Spec => []PoolIsUsableMemory
  <1>1. IInv => PoolIsUsableMemory
    BY PoolFromBitmap DEF PoolIsUsableMemory
  <1>2. QED
    BY <1>1, InvariantHolds, PTL

LEMMA FailedMeansAllOut ==
    ASSUME IInv, AllocFails
    PROVE  held = UsablePages(machine)
  <1>1. machine.mem
    BY DEF AllocFails, IInv
  <1>2. FreePages = {}
    BY NotFoundNoneFree DEF AllocFails, IInv
  <1>3. QED
    BY <1>1, <1>2, PoolFromBitmap

\* pmm_alloc_page fails only when every usable page is handed out.
THEOREM OutOfMemoryTrue == Spec => []OutOfMemoryIsTrue
  <1>1. Init => OutOfMemoryIsTrue
    BY DEF Init, OutOfMemoryIsTrue
  <1>2. IInv /\ OutOfMemoryIsTrue /\ [Next]_vars => OutOfMemoryIsTrue'
    <2> SUFFICES ASSUME IInv, OutOfMemoryIsTrue, [Next]_vars
                 PROVE  OutOfMemoryIsTrue'
      OBVIOUS
    <2>1. CASE AllocPage
      BY <2>1 DEF AllocPage, OutOfMemoryIsTrue
    <2>2. CASE AllocFails
      BY <2>2, FailedMeansAllOut DEF AllocFails, OutOfMemoryIsTrue
    <2>3. ASSUME NEW page \in Frees, FreePage(page) PROVE OutOfMemoryIsTrue'
      BY <2>3 DEF FreePage, OutOfMemoryIsTrue
    <2>4. ASSUME NEW page \in Frees, FreeRefused(page) PROVE OutOfMemoryIsTrue'
      BY <2>4 DEF FreeRefused, OutOfMemoryIsTrue
    <2>5. CASE UNCHANGED vars
      BY <2>5 DEF vars, OutOfMemoryIsTrue
    <2>6. QED
      BY <2>1, <2>2, <2>3, <2>4, <2>5 DEF Next
  <1>3. QED
    BY <1>1, <1>2, InvariantHolds, PTL DEF Spec

\* The page manager implements the pool of pages.
THEOREM PmmImplementsPagePool == Spec => ImplementsPagePool
  <1>1. Init => Pool!Init
    BY DEF Init, Pool!Init
  <1>2. IInv /\ [Next]_vars => [Pool!Next]_(Pool!vars)
    <2> SUFFICES ASSUME IInv, [Next]_vars PROVE [Pool!Next]_(Pool!vars)
      OBVIOUS
    <2>1. CASE AllocPage
      <3>1. PICK p \in Bits(machine) : FirstFree(p) /\ held' = held \cup {p}
        BY <2>1 DEF AllocPage
      <3>2. machine.mem /\ machine' = machine /\ warning' = "none"
        BY <2>1 DEF AllocPage, IInv
      <3>3. p \in UsablePages(machine) \ held
        BY <3>1, <3>2, FoundIsFree, PoolFromBitmap DEF FirstFree
      <3>4. Pool!Grant(p)
        BY <3>1, <3>2, <3>3 DEF Pool!Grant
      <3>5. QED
        BY <3>3, <3>4 DEF Pool!Next
    <2>2. CASE AllocFails
      <3>1. Pool!Refuse
        BY <2>2, FailedMeansAllOut DEF AllocFails, Pool!Refuse
      <3>2. QED
        BY <3>1 DEF Pool!Next
    <2>3. ASSUME NEW page \in Frees, FreePage(page) PROVE Pool!Next
      <3>1. PageDown(page) \in held
        BY <2>3, FreedWasHeld
      <3>2. Pool!Reclaim(PageDown(page))
        BY <2>3, <3>1 DEF FreePage, Pool!Reclaim
      <3>3. QED
        BY <3>1, <3>2 DEF Pool!Next
    <2>4. ASSUME NEW page \in Frees, FreeRefused(page) PROVE Pool!Next
      <3>1. Pool!Ignore
        BY <2>4 DEF FreeRefused, Pool!Ignore
      <3>2. QED
        BY <3>1 DEF Pool!Next
    <2>5. CASE UNCHANGED vars
      BY <2>5 DEF vars, Pool!vars
    <2>6. QED
      BY <2>1, <2>2, <2>3, <2>4, <2>5 DEF Next
  <1>3. QED
    BY <1>1, <1>2, InvariantHolds, PTL DEF Spec, ImplementsPagePool, Pool!Spec

\* Where all of the usable memory is identity mapped, no allocation faults.
THEOREM NoFaultInMappedMemory ==
    ASSUME \A m \in Machines : m.mem => \A p \in UsablePages(m) : Mapped(p)
    PROVE  Spec => []NoPageFault
  <1>1. Init => NoPageFault
    BY DEF Init, NoPageFault
  <1>2. IInv /\ NoPageFault /\ [Next]_vars => NoPageFault'
    <2> SUFFICES ASSUME IInv, NoPageFault, [Next]_vars PROVE NoPageFault'
      OBVIOUS
    <2>1. CASE AllocPage
      <3>1. PICK p \in Bits(machine) :
              FirstFree(p) /\ kernel' = IF Mapped(p) THEN kernel ELSE "PAGE_FAULT"
        BY <2>1 DEF AllocPage
      <3>2. machine.mem /\ machine \in Machines
        BY <2>1 DEF AllocPage, IInv, TypeOK
      <3>3. p \in UsablePages(machine)
        BY <3>1, <3>2, FoundIsFree, PoolFromBitmap DEF FirstFree
      <3>4. Mapped(p)
        BY <3>2, <3>3
      <3>5. QED
        BY <3>1, <3>4 DEF NoPageFault
    <2>2. CASE AllocFails
      BY <2>2 DEF AllocFails, NoPageFault
    <2>3. ASSUME NEW page \in Frees, FreePage(page) PROVE NoPageFault'
      BY <2>3 DEF FreePage, NoPageFault
    <2>4. ASSUME NEW page \in Frees, FreeRefused(page) PROVE NoPageFault'
      BY <2>4 DEF FreeRefused, NoPageFault
    <2>5. CASE UNCHANGED vars
      BY <2>5 DEF vars, NoPageFault
    <2>6. QED
      BY <2>1, <2>2, <2>3, <2>4, <2>5 DEF Next
  <1>3. QED
    BY <1>1, <1>2, InvariantHolds, PTL DEF Spec

\* The counter behind pmm_get_free_memory.
CounterExact ==
    machine.mem => pmm_used_pages = total - Cardinality(FreePages)

LEMMA FreePagesFinite ==
    ASSUME TypeOK
    PROVE  /\ IsFiniteSet(FreePages) /\ Cardinality(FreePages) \in 0 .. total
           /\ total * PageSize < Word /\ total <= total * PageSize
  <1>1. total \in Nat /\ machine \in Machines
    BY MachineNumbers
  <1>2. IsFiniteSet(0 .. total - 1) /\ Cardinality(0 .. total - 1) = total
    BY <1>1, FS_Interval
  <1>3. FreePages \in SUBSET (0 .. total - 1)
    BY DEF FreePages
  <1>4. IsFiniteSet(FreePages) /\ Cardinality(FreePages) <= total
    BY <1>2, <1>3, FS_Subset
  <1>5. Cardinality(FreePages) \in Nat
    BY <1>4, FS_CardinalityType
  <1>6. total * PageSize <= pmm_total_memory(machine)
    <2>1. PageDown(pmm_total_memory(machine)) * PageSize
            <= pmm_total_memory(machine)
      BY <1>1, BootNumbers, Constants, DivBounds DEF PageDown
    <2>2. QED
      BY <2>1 DEF total, pmm_total_pages
  <1>7. total * 1 <= total * PageSize /\ total * PageSize \in Nat
    BY <1>1, Constants
  <1>8. total * PageSize < Word
    BY <1>1, <1>6, <1>7, BootNumbers, Constants
  <1>9. QED
    BY <1>1, <1>4, <1>5, <1>7, <1>8

\* pmm_get_free_memory is exact on every machine whose memory map has disjoint
\* entries that end within the memory the machine reports.
THEOREM FreeMemoryIsExact ==
    ASSUME \A m \in Machines : m.mem => MapIsConsistent(m)
    PROVE  Spec => []FreeMemoryExact
  <1>1. Init => CounterExact
    <2> SUFFICES ASSUME Init, machine.mem
                 PROVE  pmm_used_pages = total - Cardinality(FreePages)
      BY DEF CounterExact
    <2>1. pmm_used_pages = BootUsedPages(machine) /\ machine \in Machines
          /\ bitmap = BootBitmap(machine)
      BY DEF Init
    <2>2. QED
      BY <2>1, BootCounterExact DEF total, FreePages
  <1>2. IInv /\ CounterExact /\ [Next]_vars => CounterExact'
    <2> SUFFICES ASSUME IInv, CounterExact, [Next]_vars PROVE CounterExact'
      OBVIOUS
    <2> DEFINE C == Cardinality(FreePages)
    <2>0. /\ IsFiniteSet(FreePages) /\ C \in 0 .. total /\ total < Word
          /\ total \in Nat /\ Word \in Nat \ {0}
      BY FreePagesFinite, MachineNumbers, Constants DEF IInv
    <2>1. CASE AllocPage
      <3>1. PICK p \in Bits(machine) :
              FirstFree(p) /\ bitmap' = SetBit(bitmap, p)
        BY <2>1 DEF AllocPage
      <3>2. p \in FreePages
        BY <3>1, FoundIsFree DEF FirstFree
      <3>3. machine' = machine /\ total' = total /\ machine.mem
            /\ pmm_used_pages' = (pmm_used_pages + 1) % Word
        BY <2>1 DEF AllocPage, IInv, total
      <3>4. FreePages' = FreePages \ {p}
        BY <3>1, <3>3 DEF FreePages, SetBit
      <3>5. Cardinality(FreePages') = C - 1
        BY <2>0, <3>2, <3>4, FS_RemoveElement
      <3>6. pmm_used_pages = total - C
        BY <3>3 DEF CounterExact
      <3>7. Cardinality(FreePages') \in Nat
        <4>1. IsFiniteSet(FreePages')
          BY <2>0, <3>4, FS_RemoveElement
        <4>2. QED
          BY <4>1, FS_CardinalityType
      <3> HIDE DEF C
      <3>8. total - C + 1 \in 0 .. Word - 1
        BY <2>0, <3>5, <3>7
      <3>9. pmm_used_pages' = total - (C - 1)
        BY <2>0, <3>3, <3>6, <3>8
      <3>10. QED
        BY <3>3, <3>5, <3>9 DEF CounterExact
    <2>2. CASE AllocFails
      BY <2>2 DEF AllocFails, CounterExact, FreePages, total
    <2>3. ASSUME NEW page \in Frees, FreePage(page) PROVE CounterExact'
      <3> DEFINE p == PageDown(page)
      <3>1. p \in held /\ p \in bitmap /\ p \in 0 .. total - 1
        BY <2>3, FreedWasHeld DEF IInv, TypeOK, FreePage, DoubleFree
      <3>2. machine' = machine /\ total' = total /\ machine.mem
            /\ bitmap' = bitmap \ {p}
            /\ pmm_used_pages' = (pmm_used_pages - 1) % Word
        BY <2>3 DEF FreePage, ClearBit, IInv, total
      <3>3. p \notin FreePages /\ FreePages' = FreePages \cup {p}
        BY <3>1, <3>2 DEF FreePages
      <3> HIDE DEF p
      <3>4. Cardinality(FreePages') = C + 1
        BY <2>0, <3>3, FS_AddElement
      <3>5. pmm_used_pages = total - C
        BY <3>2 DEF CounterExact
      <3>6. C < total
        <4>1. FreePages \cup {p} \in SUBSET (0 .. total - 1)
          BY <3>1 DEF FreePages
        <4>2. IsFiniteSet(0 .. total - 1) /\ Cardinality(0 .. total - 1) = total
          <5>1. total \in Nat /\ total - 1 \in Int /\ 0 \in Int
            BY <2>0
          <5>2. QED
            BY <5>1, FS_Interval
        <4>3. Cardinality(FreePages') <= total
          BY <3>3, <4>1, <4>2, FS_Subset
        <4>4. QED
          BY <2>0, <3>4, <4>3
      <3> HIDE DEF C
      <3>7. total - C - 1 \in 0 .. Word - 1
        BY <2>0, <3>6
      <3>8. pmm_used_pages' = total - (C + 1)
        BY <2>0, <3>2, <3>5, <3>7
      <3>9. QED
        BY <3>2, <3>4, <3>8 DEF CounterExact
    <2>4. ASSUME NEW page \in Frees, FreeRefused(page) PROVE CounterExact'
      BY <2>4 DEF FreeRefused, CounterExact, FreePages, total
    <2>5. CASE UNCHANGED vars
      BY <2>5 DEF vars, CounterExact, FreePages, total
    <2>6. QED
      BY <2>1, <2>2, <2>3, <2>4, <2>5 DEF Next
  <1>3. IInv /\ CounterExact => FreeMemoryExact
    <2> SUFFICES ASSUME IInv, CounterExact, machine.mem
                 PROVE  pmm_get_free_memory = Cardinality(FreePages) * PageSize
      BY DEF FreeMemoryExact
    <2> DEFINE C == Cardinality(FreePages)
    <2>1. /\ C \in 0 .. total /\ total \in Nat /\ total * PageSize < Word
          /\ Word \in Nat \ {0} /\ PageSize \in Nat
      BY FreePagesFinite, MachineNumbers, Constants DEF IInv
    <2>2. total - pmm_used_pages = C
      BY <2>1 DEF CounterExact
    <2> HIDE DEF C
    <2>3. C * PageSize \in Nat /\ C * PageSize <= total * PageSize
      BY <2>1, TimesMonotonic
    <2>4. C * PageSize \in 0 .. Word - 1
      BY <2>1, <2>3
    <2>5. (C * PageSize) % Word = C * PageSize
      BY <2>1, <2>4
    <2>6. QED
      BY <2>2, <2>5 DEF pmm_get_free_memory, C
  <1>4. QED
    BY <1>1, <1>2, <1>3, InvariantHolds, PTL DEF Spec

\* The bitmap, the pool and the warning together, as the runs check them.
THEOREM PoolIsSound == Spec => []PoolSound
  <1>1. BitmapIsBootPlusHeld /\ PoolIsUsableMemory /\ OutOfMemoryIsTrue => PoolSound
    BY DEF PoolSound
  <1> QED BY <1>1, NoPageLost, ExactlyUsableMemory, OutOfMemoryTrue, PTL

=============================================================================
