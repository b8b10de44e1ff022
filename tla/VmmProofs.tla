------------------------------- MODULE VmmProofs -------------------------------
(***************************************************************************)
(* Proofs about virtual memory, for every size of pages and tables, every  *)
(* pool of frames and every length of the region list.                     *)
(*                                                                         *)
(* The first part is about the frames that a loop over pages takes, the    *)
(* second about the region list, the third is the inductive invariant and  *)
(* the theorems that follow from it.                                       *)
(***************************************************************************)
EXTENDS Vmm, NatFacts, FunctionTheorems

LEMMA Constants ==
    /\ PageSize \in Nat \ {0} /\ Word \in Nat \ {0} /\ HeapPages \in Nat \ {0}
    /\ MaxRegions \in Nat \ {0} /\ PagesPerTable \in Nat \ {0}
    /\ Frames \subseteq Nat /\ IsFiniteSet(Frames)
    /\ Requests \subseteq Nat \ {0} /\ Increments \subseteq Int \ {0}
    /\ APIs \subseteq {"vmalloc", "vbrk", "both"} /\ MaxOthers \in [APIs -> Nat]
  BY VmmAssumption

----------------------------------------------------------------------------
(* Frames: the k-th free one exists for every k below the supply, and      *)
(* different numbers are different frames.                                 *)

LEMMA FreeFinite ==
    Free \subseteq Nat /\ IsFiniteSet(Free) /\ Supply \in Nat
  <1>1. Free \subseteq Frames
    BY DEF Free
  <1>2. IsFiniteSet(Free)
    BY <1>1, Constants, FS_Subset
  <1>3. QED
    BY <1>1, <1>2, Constants, FS_CardinalityType DEF Supply

LEMMA RankBelowSupply ==
    ASSUME NEW f \in Free
    PROVE  Rank(f) \in 0 .. Supply - 1
  <1> DEFINE lower == {g \in Free : g < f}
  <1>1. lower \subseteq Free \ {f}
    BY FreeFinite
  <1>2. IsFiniteSet(Free \ {f}) /\ Cardinality(Free \ {f}) = Supply - 1
    BY FreeFinite, FS_RemoveElement DEF Supply
  <1>3. IsFiniteSet(lower) /\ Cardinality(lower) <= Supply - 1
    BY <1>1, <1>2, FS_Subset
  <1>4. Cardinality(lower) \in Nat
    BY <1>3, FS_CardinalityType
  <1> HIDE DEF lower
  <1>5. Cardinality(lower) \in 0 .. Supply - 1
    BY <1>3, <1>4, FreeFinite
  <1>6. QED
    BY <1>5 DEF Rank, lower

LEMMA RankIncreases ==
    ASSUME NEW f \in Free, NEW g \in Free, f < g
    PROVE  Rank(f) < Rank(g)
  <1> DEFINE lower == {h \in Free : h < f}
             upper == {h \in Free : h < g}
  <1>0. f < g /\ \A h \in Free : h < f => h < g /\ h # f
    <2>1. \A h \in Free : h \in Nat
      BY FreeFinite
    <2>2. QED
      BY <2>1
  <1>1. lower \subseteq upper \ {f} /\ f \in upper /\ upper \subseteq Free
    BY <1>0
  <1>2. IsFiniteSet(upper)
    BY <1>1, FreeFinite, FS_Subset
  <1>3. /\ IsFiniteSet(upper \ {f})
        /\ Cardinality(upper \ {f}) = Cardinality(upper) - 1
    BY <1>1, <1>2, FS_RemoveElement
  <1>4. IsFiniteSet(lower) /\ Cardinality(lower) <= Cardinality(upper) - 1
    BY <1>1, <1>3, FS_Subset
  <1>5. Cardinality(lower) \in Nat /\ Cardinality(upper) \in Nat
    BY <1>2, <1>4, FS_CardinalityType
  <1> HIDE DEF lower, upper
  <1>6. Cardinality(lower) < Cardinality(upper)
    BY <1>4, <1>5
  <1>7. QED
    BY <1>6 DEF Rank, lower, upper

LEMMA NthFreeIsFree ==
    ASSUME NEW k \in 0 .. Supply - 1
    PROVE  NthFree(k) \in Free /\ Rank(NthFree(k)) = k
  <1> DEFINE rank == [f \in Free |-> Rank(f)]
             T == 0 .. Supply - 1
  <1>1. rank \in [Free -> T]
    BY RankBelowSupply
  <1>2. \A f, g \in Free : rank[f] = rank[g] => f = g
    <2>1. \A f, g \in Free : Rank(f) = Rank(g) => f = g
      <3> SUFFICES ASSUME NEW f \in Free, NEW g \in Free, f < g
                   PROVE  Rank(f) # Rank(g)
        BY FreeFinite
      <3>1. Rank(f) \in Int /\ Rank(g) \in Int
        BY RankBelowSupply, FreeFinite
      <3>2. QED
        BY <3>1, RankIncreases
    <2>2. QED
      BY <2>1
  <1>3. rank \in Injection(Free, T)
    BY <1>1, <1>2, Fun_IsInj
  <1>4. IsFiniteSet(T) /\ Cardinality(T) = Cardinality(Free)
    <2>1. IsFiniteSet(T) /\ Cardinality(T) = IF 0 > Supply - 1 THEN 0 ELSE Supply
      BY FreeFinite, FS_Interval
    <2>2. QED
      BY <2>1, FreeFinite DEF Supply
  <1>5. rank \in Surjection(Free, T)
    BY <1>3, <1>4, FS_Injection
  <1>6. \E f \in Free : rank[f] = k
    BY <1>5 DEF Surjection
  <1>7. QED
    BY <1>6 DEF NthFree

LEMMA NthFreeInjective ==
    ASSUME NEW j \in 0 .. Supply - 1, NEW k \in 0 .. Supply - 1,
           NthFree(j) = NthFree(k)
    PROVE  j = k
  BY NthFreeIsFree

----------------------------------------------------------------------------
(* The turns at which the loop takes frames: every page and every new page *)
(* table has a turn of its own.                                            *)

LEMMA NewSlotsFinite ==
    ASSUME NEW start \in Nat, NEW n \in Nat
    PROVE  /\ NewSlots(start, n) \subseteq Nat
           /\ IsFiniteSet(NewSlots(start, n))
           /\ Cardinality(NewSlots(start, n)) \in Nat
           /\ \A v \in Pages(start, n) : v \in Nat /\ v \div PagesPerTable \in Nat
  <1>1. ASSUME NEW v \in Pages(start, n)
        PROVE  v \in Nat /\ v <= start + n /\ v \div PagesPerTable \in Nat
               /\ v \div PagesPerTable <= start + n
    <2>1. v \in Nat /\ v <= start + n
      BY DEF Pages
    <2>2. v \div PagesPerTable \in Nat /\ v \div PagesPerTable <= v
      BY <2>1, Constants, DivBounds, DivLe
    <2>3. QED
      BY <2>1, <2>2
  <1>2. NewSlots(start, n) \subseteq 0 .. start + n
    BY <1>1 DEF NewSlots, Slot
  <1>3. IsFiniteSet(NewSlots(start, n))
    <2>1. IsFiniteSet(0 .. start + n)
      BY FS_Interval
    <2>2. QED
      BY <1>2, <2>1, FS_Subset
  <1>4. QED
    BY <1>1, <1>2, <1>3, FS_CardinalityType

\* The first page in a new slot is one of the pages, and determines the slot.
LEMMA FirstInPages ==
    ASSUME NEW start \in Nat, NEW n \in Nat, NEW s \in NewSlots(start, n)
    PROVE  /\ FirstIn(start, s) \in Pages(start, n)
           /\ FirstIn(start, s) \in Nat
           /\ Slot(FirstIn(start, s)) = s
  <1>1. PICK v \in Pages(start, n) : s = v \div PagesPerTable
    BY DEF NewSlots, Slot
  <1>2. v \in Nat /\ s \in Nat /\ start <= v /\ v < start + n /\ n # 0
    BY <1>1, NewSlotsFinite DEF Pages
  <1>3. PagesPerTable \in Nat \ {0}
    BY Constants
  <1>4. s * PagesPerTable <= v /\ v < (s + 1) * PagesPerTable
    BY <1>1, <1>2, <1>3, DivBounds
  <1>5. s * PagesPerTable \in Nat /\ (s + 1) * PagesPerTable \in Nat
    BY <1>2, <1>3
  <1>6. CASE s * PagesPerTable < start
    <2>1. start < (s + 1) * PagesPerTable /\ s * PagesPerTable <= start
      BY <1>2, <1>4, <1>5, <1>6
    <2>2. start \div PagesPerTable = s
      BY <1>2, <1>3, <2>1, DivUnique
    <2>3. QED
      BY <1>2, <1>6, <2>2 DEF FirstIn, Slot, Pages
  <1>7. CASE ~(s * PagesPerTable < start)
    <2>1. s * PagesPerTable < (s + 1) * PagesPerTable
      BY <1>2, <1>3
    <2>2. (s * PagesPerTable) \div PagesPerTable = s
      BY <1>2, <1>3, <1>5, <2>1, DivUnique
    <2>3. start <= s * PagesPerTable /\ s * PagesPerTable <= start + n - 1
      BY <1>2, <1>4, <1>5, <1>7
    <2>4. QED
      BY <1>5, <1>7, <2>2, <2>3 DEF FirstIn, Slot, Pages
  <1>8. QED
    BY <1>6, <1>7

\* The tables made before the loop comes to page x, counted.
TablesMade(start, n, x) ==
    Cardinality({s \in NewSlots(start, n) : FirstIn(start, s) < x})

LEMMA TablesMadeFacts ==
    ASSUME NEW start \in Nat, NEW n \in Nat, NEW v \in Nat, NEW w \in Nat, v <= w
    PROVE  /\ TablesMade(start, n, v) \in Nat
           /\ TablesMade(start, n, v) <= TablesMade(start, n, w)
           /\ TablesMade(start, n, v) <= Cardinality(NewSlots(start, n))
           /\ \A s \in NewSlots(start, n) :
                v <= FirstIn(start, s) =>
                  /\ FirstIn(start, s) < w =>
                       TablesMade(start, n, v) + 1 <= TablesMade(start, n, w)
                  /\ TablesMade(start, n, v) + 1 <= Cardinality(NewSlots(start, n))
  <1> DEFINE all == NewSlots(start, n)
             before(x) == {s \in all : FirstIn(start, s) < x}
  <1>1. IsFiniteSet(all) /\ Cardinality(all) \in Nat
    BY NewSlotsFinite
  <1>2. \A s \in all : FirstIn(start, s) \in Nat
    BY FirstInPages
  <1> HIDE DEF all
  <1>3. before(v) \subseteq before(w)
    BY <1>2
  <1>4. /\ IsFiniteSet(before(v)) /\ IsFiniteSet(before(w))
        /\ before(v) \subseteq all
        /\ Cardinality(before(v)) <= Cardinality(all)
        /\ Cardinality(before(v)) \in Nat /\ Cardinality(before(w)) \in Nat
    <2>1. before(v) \subseteq all /\ before(w) \subseteq all
      OBVIOUS
    <2>2. QED
      BY <1>1, <2>1, FS_Subset, FS_CardinalityType
  <1>5. Cardinality(before(v)) <= Cardinality(before(w))
    BY <1>3, <1>4, FS_Subset
  <1>6. ASSUME NEW s \in all, v <= FirstIn(start, s)
        PROVE  /\ FirstIn(start, s) < w =>
                    Cardinality(before(v)) + 1 <= Cardinality(before(w))
               /\ Cardinality(before(v)) + 1 <= Cardinality(all)
    <2>1. s \notin before(v)
      BY <1>2, <1>6
    <2>2. /\ IsFiniteSet(before(v) \cup {s})
          /\ Cardinality(before(v) \cup {s}) = Cardinality(before(v)) + 1
      BY <1>4, <2>1, FS_AddElement
    <2>3. Cardinality(before(v)) + 1 <= Cardinality(all)
      <3>1. before(v) \cup {s} \subseteq all
        BY <1>4
      <3>2. QED
        BY <1>1, <2>2, <3>1, FS_Subset
    <2>4. ASSUME FirstIn(start, s) < w
          PROVE  Cardinality(before(v)) + 1 <= Cardinality(before(w))
      <3>1. before(v) \cup {s} \subseteq before(w)
        BY <1>3, <2>4
      <3>2. QED
        BY <1>4, <2>2, <3>1, FS_Subset
    <2>5. QED
      BY <2>3, <2>4
  <1>7. QED
    BY <1>4, <1>5, <1>6 DEF all, TablesMade

LEMMA TablesMadeBounds ==
    ASSUME NEW start \in Nat, NEW n \in Nat, NEW v \in Nat
    PROVE  /\ TablesMade(start, n, v) \in Nat
           /\ TablesMade(start, n, v) <= Cardinality(NewSlots(start, n))
  <1>1. v <= v
    OBVIOUS
  <1>2. QED
    BY <1>1, TablesMadeFacts

LEMMA TablesMadeGrow ==
    ASSUME NEW start \in Nat, NEW n \in Nat, NEW v \in Nat, NEW w \in Nat, v <= w
    PROVE  TablesMade(start, n, v) <= TablesMade(start, n, w)
  BY TablesMadeFacts

LEMMA TablesMadeAtLast ==
    ASSUME NEW start \in Nat, NEW n \in Nat, NEW s \in NewSlots(start, n)
    PROVE  TablesMade(start, n, FirstIn(start, s)) + 1
             <= Cardinality(NewSlots(start, n))
  <1>1. FirstIn(start, s) \in Nat /\ FirstIn(start, s) <= FirstIn(start, s)
    BY FirstInPages
  <1>2. QED
    BY <1>1, TablesMadeFacts

LEMMA TablesMadeMore ==
    ASSUME NEW start \in Nat, NEW n \in Nat, NEW s \in NewSlots(start, n),
           NEW w \in Nat, FirstIn(start, s) < w
    PROVE  TablesMade(start, n, FirstIn(start, s)) + 1 <= TablesMade(start, n, w)
  <1>1. FirstIn(start, s) \in Nat /\ FirstIn(start, s) <= FirstIn(start, s)
        /\ FirstIn(start, s) <= w
    BY FirstInPages
  <1>2. QED
    BY <1>1, TablesMadeFacts

LEMMA PageTurns ==
    ASSUME NEW start \in Nat, NEW n \in Nat, NEW v \in Pages(start, n)
    PROVE  /\ PageTurn(start, n, v) \in Nat
           /\ PageTurn(start, n, v) < Needed(start, n)
           /\ \A w \in Pages(start, n) :
                v < w => PageTurn(start, n, v) < PageTurn(start, n, w)
  <1>1. ASSUME NEW w \in Pages(start, n)
        PROVE  /\ w \in Nat /\ start <= w /\ w < start + n
               /\ PageTurn(start, n, w) = w - start + TablesMade(start, n, w)
    BY DEF PageTurn, TablesMade, Pages
  <1>2. /\ TablesMade(start, n, v) \in Nat
        /\ TablesMade(start, n, v) <= Cardinality(NewSlots(start, n))
    BY <1>1, TablesMadeBounds
  <1>3. Cardinality(NewSlots(start, n)) \in Nat
    BY NewSlotsFinite
  <1>4. PageTurn(start, n, v) < Needed(start, n)
    BY <1>1, <1>2, <1>3 DEF Needed
  <1>5. ASSUME NEW w \in Pages(start, n), v < w
        PROVE  PageTurn(start, n, v) < PageTurn(start, n, w)
    <2>1. TablesMade(start, n, v) <= TablesMade(start, n, w)
      BY <1>1, <1>5, TablesMadeGrow
    <2>2. TablesMade(start, n, w) \in Nat
      BY <1>1, TablesMadeBounds
    <2>3. QED
      BY <1>1, <1>2, <1>5, <2>1, <2>2
  <1>6. QED
    BY <1>1, <1>2, <1>4, <1>5

LEMMA TableTurns ==
    ASSUME NEW start \in Nat, NEW n \in Nat, NEW s \in NewSlots(start, n)
    PROVE  /\ TableTurn(start, n, s) \in Nat
           /\ TableTurn(start, n, s) < Needed(start, n)
           /\ \A v \in Pages(start, n) :
                /\ FirstIn(start, s) < v =>
                     TableTurn(start, n, s) < PageTurn(start, n, v)
                /\ v <= FirstIn(start, s) =>
                     PageTurn(start, n, v) < TableTurn(start, n, s)
           /\ \A t \in NewSlots(start, n) :
                TableTurn(start, n, s) = TableTurn(start, n, t) => s = t
  <1> DEFINE first == FirstIn(start, s)
  <1>1. first \in Pages(start, n) /\ first \in Nat /\ start <= first
        /\ first < start + n
    BY FirstInPages DEF Pages
  <1>2. /\ PageTurn(start, n, first) = first - start + TablesMade(start, n, first)
        /\ TableTurn(start, n, s) = PageTurn(start, n, first) + 1
        /\ PageTurn(start, n, first) \in Nat
    BY <1>1, PageTurns DEF PageTurn, TablesMade, TableTurn
  <1> HIDE DEF first
  <1>3. /\ TablesMade(start, n, first) \in Nat
        /\ TablesMade(start, n, first) + 1 <= Cardinality(NewSlots(start, n))
    BY <1>1, TablesMadeBounds, TablesMadeAtLast DEF first
  <1>4. TableTurn(start, n, s) < Needed(start, n)
    BY <1>1, <1>2, <1>3, NewSlotsFinite DEF Needed
  <1>5. ASSUME NEW v \in Pages(start, n), first < v
        PROVE  TableTurn(start, n, s) < PageTurn(start, n, v)
    <2>1. v \in Nat /\ PageTurn(start, n, v) = v - start + TablesMade(start, n, v)
      BY DEF PageTurn, TablesMade, Pages
    <2>2. TablesMade(start, n, first) + 1 <= TablesMade(start, n, v)
      BY <1>5, <2>1, TablesMadeMore DEF first
    <2>3. TablesMade(start, n, v) \in Nat
      BY <2>1, TablesMadeBounds
    <2>4. QED
      BY <1>1, <1>2, <1>3, <1>5, <2>1, <2>2, <2>3
  <1>6. ASSUME NEW v \in Pages(start, n), v <= first
        PROVE  PageTurn(start, n, v) < TableTurn(start, n, s)
    <2>1. PageTurn(start, n, v) \in Nat /\ v \in Nat
      BY PageTurns, NewSlotsFinite
    <2>2. v < first => PageTurn(start, n, v) < PageTurn(start, n, first)
      BY <1>1, PageTurns
    <2>3. QED
      BY <1>1, <1>2, <1>6, <2>1, <2>2
  <1>7. ASSUME NEW t \in NewSlots(start, n),
               TableTurn(start, n, s) = TableTurn(start, n, t)
        PROVE  s = t
    <2> DEFINE other == FirstIn(start, t)
    <2>1. /\ other \in Pages(start, n) /\ other \in Nat
          /\ PageTurn(start, n, other) \in Nat
          /\ TableTurn(start, n, t) = PageTurn(start, n, other) + 1
      BY FirstInPages, PageTurns DEF TableTurn
    <2> HIDE DEF other
    <2>2. PageTurn(start, n, first) = PageTurn(start, n, other)
      BY <1>2, <1>7, <2>1
    <2>3. /\ first < other => PageTurn(start, n, first) < PageTurn(start, n, other)
          /\ other < first => PageTurn(start, n, other) < PageTurn(start, n, first)
      BY <1>1, <2>1, PageTurns
    <2>4. first = other
      BY <1>1, <1>2, <2>1, <2>2, <2>3
    <2>5. QED
      BY <2>4, FirstInPages DEF first, other
  <1>8. QED
    BY <1>2, <1>4, <1>5, <1>6, <1>7 DEF first

\* There are frames for the first m of the n pages, and for their tables.
Enough(start, n, m) ==
    /\ m \in 0 .. n
    /\ \A v \in Pages(start, m) : PageTurn(start, n, v) < Supply
    /\ \A s \in NewTables(start, n, m) : TableTurn(start, n, s) < Supply

LEMMA PagesPrefix ==
    ASSUME NEW start \in Nat, NEW n \in Nat, NEW m \in 0 .. n
    PROVE  /\ Pages(start, m) \subseteq Pages(start, n)
           /\ m \in Nat /\ start + m \in Nat
           /\ \A v \in Pages(start, n) : v \in Pages(start, m) <=> v < start + m
  BY DEF Pages

LEMMA EnoughForAll ==
    ASSUME NEW start \in Nat, NEW n \in Nat, Needed(start, n) <= Supply
    PROVE  Enough(start, n, n)
  <1>1. Needed(start, n) \in Nat /\ Supply \in Nat
    <2>1. Cardinality(NewSlots(start, n)) \in Nat
      BY NewSlotsFinite
    <2>2. Needed(start, n) \in Nat
      BY <2>1 DEF Needed
    <2>3. QED
      BY <2>2, FreeFinite
  <1>2. ASSUME NEW v \in Pages(start, n) PROVE PageTurn(start, n, v) < Supply
    BY <1>1, PageTurns
  <1>3. ASSUME NEW s \in NewSlots(start, n) PROVE TableTurn(start, n, s) < Supply
    BY <1>1, TableTurns
  <1>4. QED
    BY <1>2, <1>3 DEF Enough, NewTables

LEMMA EnoughUntil ==
    ASSUME NEW start \in Nat, NEW n \in Nat, NEW v, RunsOutAt(start, n, v)
    PROVE  /\ Enough(start, n, v - start)
           /\ v \in Nat /\ v - start \in Nat /\ v - start < n
           /\ Pages(start, v - start) = start .. v - 1
  <1>1. /\ v \in Pages(start, n) /\ v \in Nat /\ start <= v /\ v < start + n
        /\ v - start \in 0 .. n /\ start + (v - start) = v
        /\ PageTurn(start, n, v) = Supply
    BY DEF RunsOutAt, Pages
  <1>2. ASSUME NEW w \in Pages(start, v - start)
        PROVE  PageTurn(start, n, w) < Supply
    <2>1. w \in Pages(start, n) /\ w < v
      BY <1>1 DEF Pages
    <2>2. QED
      BY <1>1, <2>1, PageTurns
  <1>3. ASSUME NEW s \in NewTables(start, n, v - start)
        PROVE  TableTurn(start, n, s) < Supply
    <2>1. s \in NewSlots(start, n) /\ FirstIn(start, s) < v
      BY <1>1 DEF NewTables
    <2>2. QED
      BY <1>1, <2>1, TableTurns
  <1>4. Pages(start, v - start) = start .. v - 1
    BY <1>1 DEF Pages
  <1>5. QED
    BY <1>1, <1>2, <1>3, <1>4 DEF Enough

\* What the loop takes for the first m pages are free frames, all different.
LEMMA TakenAreFree ==
    ASSUME NEW start \in Nat, NEW n \in Nat, NEW m, Enough(start, n, m)
    PROVE  LET page(v) == NthFree(PageTurn(start, n, v))
               table(s) == NthFree(TableTurn(start, n, s))
           IN  /\ \A v \in Pages(start, m) : page(v) \in Free
               /\ \A s \in NewTables(start, n, m) : table(s) \in Free
               /\ \A v, w \in Pages(start, m) : page(v) = page(w) => v = w
               /\ \A s, t \in NewTables(start, n, m) : table(s) = table(t) => s = t
               /\ \A v \in Pages(start, m) : \A s \in NewTables(start, n, m) :
                    page(v) # table(s)
  <1>1. m \in 0 .. n /\ Supply \in Nat
    BY FreeFinite DEF Enough
  <1>2. ASSUME NEW v \in Pages(start, m)
        PROVE  v \in Pages(start, n) /\ v \in Nat
               /\ PageTurn(start, n, v) \in 0 .. Supply - 1
    <2>1. v \in Pages(start, n) /\ v \in Nat
      BY <1>1, PagesPrefix, NewSlotsFinite
    <2>2. PageTurn(start, n, v) \in Nat /\ PageTurn(start, n, v) < Supply
      BY <2>1, PageTurns DEF Enough
    <2>3. QED
      BY <1>1, <2>1, <2>2
  <1>3. ASSUME NEW s \in NewTables(start, n, m)
        PROVE  s \in NewSlots(start, n)
               /\ TableTurn(start, n, s) \in 0 .. Supply - 1
    <2>1. s \in NewSlots(start, n)
      BY DEF NewTables
    <2>2. TableTurn(start, n, s) \in Nat /\ TableTurn(start, n, s) < Supply
      BY <2>1, TableTurns DEF Enough
    <2>3. QED
      BY <1>1, <2>1, <2>2
  <1>4. ASSUME NEW v \in Pages(start, m), NEW w \in Pages(start, m), v < w
        PROVE  PageTurn(start, n, v) # PageTurn(start, n, w)
    BY <1>2, <1>4, PageTurns
  <1>5. ASSUME NEW v \in Pages(start, m), NEW w \in Pages(start, m),
               NthFree(PageTurn(start, n, v)) = NthFree(PageTurn(start, n, w))
        PROVE  v = w
    <2>1. PageTurn(start, n, v) = PageTurn(start, n, w)
      BY <1>2, <1>5, NthFreeInjective
    <2>2. v \in Nat /\ w \in Nat
      BY <1>2
    <2>3. QED
      BY <1>4, <2>1, <2>2
  <1>6. ASSUME NEW s \in NewTables(start, n, m), NEW t \in NewTables(start, n, m),
               NthFree(TableTurn(start, n, s)) = NthFree(TableTurn(start, n, t))
        PROVE  s = t
    <2>1. TableTurn(start, n, s) = TableTurn(start, n, t)
      BY <1>3, <1>6, NthFreeInjective
    <2>2. QED
      BY <1>3, <2>1, TableTurns
  <1>7. ASSUME NEW v \in Pages(start, m), NEW s \in NewTables(start, n, m),
               NthFree(PageTurn(start, n, v)) = NthFree(TableTurn(start, n, s))
        PROVE  FALSE
    <2>1. PageTurn(start, n, v) = TableTurn(start, n, s)
      BY <1>2, <1>3, <1>7, NthFreeInjective
    <2>2. v \in Nat /\ FirstIn(start, s) \in Nat /\ v \in Pages(start, n)
          /\ s \in NewSlots(start, n)
      BY <1>2, <1>3, FirstInPages
    <2>3. TableTurn(start, n, s) \in Nat
      BY <2>2, TableTurns
    <2>4. FirstIn(start, s) < v \/ v <= FirstIn(start, s)
      BY <2>2
    <2>5. QED
      BY <2>1, <2>2, <2>3, <2>4, TableTurns
  <1>8. QED
    BY <1>2, <1>3, <1>5, <1>6, <1>7, NthFreeIsFree

----------------------------------------------------------------------------
(* The page tables: every frame in them is handed out, belongs to nobody    *)
(* else and is there once.                                                 *)

Exclusive(map, dir, handed, other) ==
    /\ DOMAIN map \subseteq 0 .. HeapPages - 1
    /\ DOMAIN dir \subseteq 0 .. Slot(HeapPages - 1)
    /\ handed \subseteq Frames /\ other \subseteq handed
    /\ \A v \in DOMAIN map : map[v] \in handed \ other
    /\ \A s \in DOMAIN dir : dir[s] \in handed \ other
    /\ \A v, w \in DOMAIN map : map[v] = map[w] => v = w
    /\ \A s, t \in DOMAIN dir : dir[s] = dir[t] => s = t
    /\ \A v \in DOMAIN map : \A s \in DOMAIN dir : map[v] # dir[s]

\* What backing some pages does to the page tables: the pages of fresh are
\* mapped, tables are made for the slots of made, and all take free frames.
Backing(map, dir, taken, fresh, made) ==
    /\ DOMAIN map = DOMAIN pte \cup fresh
    /\ \A v \in DOMAIN pte \ fresh : map[v] = pte[v]
    /\ \A v \in fresh : map[v] \in Free /\ map[v] \in taken
    /\ \A v, w \in fresh : map[v] = map[w] => v = w
    /\ DOMAIN dir = DOMAIN page_directory \cup made
    /\ made \cap DOMAIN page_directory = {}
    /\ made \subseteq 0 .. Slot(HeapPages - 1)
    /\ \A s \in DOMAIN page_directory : dir[s] = page_directory[s]
    /\ \A s \in made : dir[s] \in Free /\ dir[s] \in taken
    /\ \A s, t \in made : dir[s] = dir[t] => s = t
    /\ \A v \in fresh : \A s \in made : map[v] # dir[s]
    /\ taken = {map[v] : v \in fresh} \cup {dir[s] : s \in made}

LEMMA BackMaps ==
    ASSUME NEW start \in Nat, NEW n \in Nat, NEW m, Enough(start, n, m),
           Pages(start, n) \subseteq 0 .. HeapPages - 1
    PROVE  Backing(Mapped(start, n, m), Tabled(start, n, m), Taken(start, n, m),
                   Pages(start, m), NewTables(start, n, m))
  <1> DEFINE map == Mapped(start, n, m)
             dir == Tabled(start, n, m)
             made == NewTables(start, n, m)
             taken == Taken(start, n, m)
             page(v) == NthFree(PageTurn(start, n, v))
             table(s) == NthFree(TableTurn(start, n, s))
  <1>1. /\ DOMAIN map = DOMAIN pte \cup Pages(start, m)
        /\ \A v \in DOMAIN pte \ Pages(start, m) : map[v] = pte[v]
        /\ \A v \in Pages(start, m) : map[v] = page(v)
    BY DEF Mapped
  <1>2. made \cap DOMAIN page_directory = {}
    BY DEF NewTables, NewSlots
  <1>3. /\ DOMAIN dir = DOMAIN page_directory \cup made
        /\ \A s \in DOMAIN page_directory : dir[s] = page_directory[s]
        /\ \A s \in made : dir[s] = table(s)
    BY <1>2 DEF Tabled
  <1>4. taken = {page(v) : v \in Pages(start, m)} \cup {table(s) : s \in made}
    BY DEF Taken
  <1>5. /\ \A v \in Pages(start, m) : page(v) \in Free
        /\ \A s \in made : table(s) \in Free
        /\ \A v, w \in Pages(start, m) : page(v) = page(w) => v = w
        /\ \A s, t \in made : table(s) = table(t) => s = t
        /\ \A v \in Pages(start, m) : \A s \in made : page(v) # table(s)
    BY TakenAreFree
  <1>6. made \subseteq 0 .. Slot(HeapPages - 1)
    <2> SUFFICES ASSUME NEW s \in made PROVE s \in 0 .. Slot(HeapPages - 1)
      OBVIOUS
    <2>1. PICK v \in Pages(start, n) : s = v \div PagesPerTable
      BY DEF NewTables, NewSlots, Slot
    <2>2. v \in Nat /\ HeapPages - 1 \in Nat /\ v <= HeapPages - 1
          /\ PagesPerTable \in Nat \ {0}
      BY <2>1, Constants
    <2>3. /\ v \div PagesPerTable \in Nat /\ (HeapPages - 1) \div PagesPerTable \in Nat
          /\ v \div PagesPerTable <= (HeapPages - 1) \div PagesPerTable
      BY <2>2, DivBounds, DivMonotonic
    <2>4. QED
      BY <2>1, <2>3 DEF Slot
  <1> HIDE DEF map, dir, made, taken, page, table
  <1>7. taken = {map[v] : v \in Pages(start, m)} \cup {dir[s] : s \in made}
    BY <1>1, <1>3, <1>4
  <1>8. /\ \A v \in Pages(start, m) : map[v] \in Free /\ map[v] \in taken
        /\ \A v, w \in Pages(start, m) : map[v] = map[w] => v = w
        /\ \A s \in made : dir[s] \in Free /\ dir[s] \in taken
        /\ \A s, t \in made : dir[s] = dir[t] => s = t
        /\ \A v \in Pages(start, m) : \A s \in made : map[v] # dir[s]
    BY <1>1, <1>3, <1>5, <1>7
  <1>9. QED
    BY <1>1, <1>2, <1>3, <1>6, <1>7, <1>8 DEF map, dir, made, taken, Backing

LEMMA BackingKeepsExclusive ==
    ASSUME NEW map, NEW dir, NEW taken, NEW made,
           NEW fresh \in SUBSET (0 .. HeapPages - 1),
           Backing(map, dir, taken, fresh, made),
           Exclusive(pte, page_directory, out, others)
    PROVE  Exclusive(map, dir, out \cup taken, others)
  <1>1. taken \subseteq Free /\ Free = Frames \ out
    BY DEF Backing, Free
  <1>2. /\ DOMAIN map \subseteq 0 .. HeapPages - 1
        /\ DOMAIN dir \subseteq 0 .. Slot(HeapPages - 1)
        /\ out \cup taken \subseteq Frames /\ others \subseteq out \cup taken
    BY <1>1 DEF Exclusive, Backing
  <1>3. /\ \A v \in DOMAIN map : \/ v \in fresh /\ map[v] \in Free \cap taken
                                 \/ v \in DOMAIN pte /\ map[v] = pte[v]
                                    /\ v \notin fresh /\ map[v] \in out \ others
        /\ \A s \in DOMAIN dir : \/ s \in made /\ dir[s] \in Free \cap taken
                                 \/ s \in DOMAIN page_directory
                                    /\ dir[s] = page_directory[s]
                                    /\ dir[s] \in out \ others
    BY DEF Exclusive, Backing
  <1>4. /\ \A v \in DOMAIN map : map[v] \in (out \cup taken) \ others
        /\ \A s \in DOMAIN dir : dir[s] \in (out \cup taken) \ others
    BY <1>1, <1>3 DEF Exclusive
  <1>5. ASSUME NEW v \in DOMAIN map, NEW w \in DOMAIN map, map[v] = map[w]
        PROVE  v = w
    BY <1>1, <1>3, <1>5 DEF Exclusive, Backing
  <1>6. ASSUME NEW s \in DOMAIN dir, NEW t \in DOMAIN dir, dir[s] = dir[t]
        PROVE  s = t
    <2>1. CASE s \in made /\ t \in made
      BY <1>6, <2>1 DEF Backing
    <2>2. CASE s \in DOMAIN page_directory /\ t \in DOMAIN page_directory
      BY <1>6, <2>2 DEF Exclusive, Backing
    <2>3. CASE s \in made /\ t \in DOMAIN page_directory
      <3>1. dir[s] \in Free /\ dir[t] \in out
        BY <2>3 DEF Exclusive, Backing
      <3>2. QED
        BY <1>1, <1>6, <3>1
    <2>4. CASE s \in DOMAIN page_directory /\ t \in made
      <3>1. dir[t] \in Free /\ dir[s] \in out
        BY <2>4 DEF Exclusive, Backing
      <3>2. QED
        BY <1>1, <1>6, <3>1
    <2>5. QED
      BY <1>3, <2>1, <2>2, <2>3, <2>4
  <1>7. ASSUME NEW v \in DOMAIN map, NEW s \in DOMAIN dir
        PROVE  map[v] # dir[s]
    <2>1. CASE v \in fresh /\ s \in made
      BY <2>1 DEF Backing
    <2>2. CASE v \in DOMAIN pte \ fresh /\ s \in DOMAIN page_directory
      BY <2>2 DEF Exclusive, Backing
    <2>3. CASE v \in fresh /\ s \in DOMAIN page_directory
      <3>1. map[v] \in Free /\ dir[s] \in out
        BY <2>3 DEF Exclusive, Backing
      <3>2. QED
        BY <1>1, <3>1
    <2>4. CASE v \in DOMAIN pte \ fresh /\ s \in made
      <3>1. dir[s] \in Free /\ map[v] \in out
        BY <2>4 DEF Exclusive, Backing
      <3>2. QED
        BY <1>1, <3>1
    <2>5. QED
      BY <1>3, <2>1, <2>2, <2>3, <2>4
  <1>8. QED
    BY <1>2, <1>4, <1>5, <1>6, <1>7 DEF Exclusive

\* Taking pages out of the page tables and giving their frames back.
LEMMA RemovingKeepsExclusive ==
    ASSUME NEW map, NEW dir, NEW handed, NEW other, NEW gone \in SUBSET DOMAIN map,
           Exclusive(map, dir, handed, other)
    PROVE  Exclusive([v \in DOMAIN map \ gone |-> map[v]], dir,
                     handed \ {map[v] : v \in gone}, other)
  <1> DEFINE rest == [v \in DOMAIN map \ gone |-> map[v]]
             kept == handed \ {map[v] : v \in gone}
  <1>1. /\ DOMAIN rest = DOMAIN map \ gone
        /\ \A v \in DOMAIN rest : v \in DOMAIN map /\ rest[v] = map[v]
    OBVIOUS
  <1>2. \A v \in DOMAIN rest : rest[v] \in kept \ other
    BY <1>1 DEF Exclusive
  <1>3. \A s \in DOMAIN dir : dir[s] \in kept \ other
    BY DEF Exclusive
  <1>4. other \subseteq kept /\ kept \subseteq Frames
    BY DEF Exclusive
  <1> HIDE DEF rest, kept
  <1>5. Exclusive(rest, dir, kept, other)
    BY <1>1, <1>2, <1>3, <1>4 DEF Exclusive
  <1>6. QED
    BY <1>5 DEF rest, kept

----------------------------------------------------------------------------
(* The region list: it tiles [0, e) if every region starts where the one   *)
(* before it ends.                                                         *)

RegionRec == [start : Nat, size : Nat \ {0}, allocated : BOOLEAN]

Tiles(rs, e) ==
    /\ rs \in Seq(RegionRec)
    /\ Len(rs) = 0 => e = 0
    /\ Len(rs) # 0 => rs[1].start = 0
    /\ \A i \in 1 .. Len(rs) :
         rs[i].start + rs[i].size = IF i = Len(rs) THEN e ELSE rs[i + 1].start

\* The regions in use.
Held(rs) == {r \in Range(rs) : r.allocated}

LEMMA TilesTyped ==
    ASSUME NEW e, NEW rs, Tiles(rs, e)
    PROVE  /\ Len(rs) \in Nat /\ DOMAIN rs = 1 .. Len(rs)
           /\ \A i \in 1 .. Len(rs) :
                /\ rs[i] \in RegionRec
                /\ rs[i].start \in Nat /\ rs[i].size \in Nat \ {0}
                /\ rs[i].allocated \in BOOLEAN
           /\ rs = [i \in 1 .. Len(rs) |-> rs[i]]
           /\ e \in Nat
  <1>1. rs \in Seq(RegionRec)
    BY DEF Tiles
  <1>2. /\ Len(rs) \in Nat /\ DOMAIN rs = 1 .. Len(rs)
        /\ rs = [i \in 1 .. Len(rs) |-> rs[i]]
    BY <1>1
  <1>3. \A i \in 1 .. Len(rs) : rs[i] \in RegionRec
    BY <1>1
  <1>4. \A r \in RegionRec : /\ r.start \in Nat /\ r.size \in Nat \ {0}
                             /\ r.allocated \in BOOLEAN
    BY DEF RegionRec
  <1>5. e \in Nat
    <2>1. CASE Len(rs) = 0
      BY <2>1 DEF Tiles
    <2>2. CASE Len(rs) # 0
      <3>1. Len(rs) \in 1 .. Len(rs)
        BY <1>2, <2>2
      <3>2. e = rs[Len(rs)].start + rs[Len(rs)].size
        BY <3>1 DEF Tiles
      <3>3. QED
        BY <1>3, <1>4, <3>1, <3>2
    <2>3. QED
      BY <2>1, <2>2
  <1>6. QED
    BY <1>2, <1>3, <1>4, <1>5

LEMMA TilesOrdered ==
    ASSUME NEW e, NEW rs, Tiles(rs, e), NEW i \in 1 .. Len(rs),
           NEW j \in 1 .. Len(rs), i < j
    PROVE  rs[i].start + rs[i].size <= rs[j].start
  <1> DEFINE end == rs[i].start + rs[i].size
             S == {d \in Nat : i + 1 + d <= Len(rs) => end <= rs[i + 1 + d].start}
  <1>1. /\ Len(rs) \in Nat /\ i \in Nat /\ j \in Nat
        /\ \A k \in 1 .. Len(rs) : rs[k].start \in Nat /\ rs[k].size \in Nat
        /\ end \in Nat
    BY TilesTyped
  <1> HIDE DEF end
  <1>2. 0 \in S
    <2>1. i + 1 <= Len(rs) => end = rs[i + 1].start
      BY <1>1 DEF Tiles, end
    <2>2. QED
      BY <1>1, <2>1
  <1>3. ASSUME NEW d \in Nat, d \in S PROVE d + 1 \in S
    <2>1. SUFFICES ASSUME i + 1 + (d + 1) <= Len(rs)
                   PROVE  end <= rs[i + 1 + (d + 1)].start
      OBVIOUS
    <2> DEFINE k == i + 1 + d
    <2>2. k \in 1 .. Len(rs) /\ k + 1 \in 1 .. Len(rs) /\ k # Len(rs)
          /\ k + 1 = i + 1 + (d + 1)
      BY <1>1, <2>1
    <2>3. end <= rs[k].start
      BY <1>1, <1>3, <2>2
    <2> HIDE DEF k
    <2>4. rs[k].start + rs[k].size = rs[k + 1].start
      BY <2>2 DEF Tiles
    <2>5. end <= rs[k + 1].start
      BY <1>1, <2>2, <2>3, <2>4
    <2>6. QED
      BY <2>2, <2>5
  <1> HIDE DEF S
  <1>4. \A d \in Nat : d \in S
    BY <1>2, <1>3, SetInduction
  <1>5. PICK d \in Nat : d = j - i - 1
    BY <1>1
  <1>6. end <= rs[j].start
    <2>1. i + 1 + d = j /\ j <= Len(rs)
      BY <1>1, <1>5
    <2>2. i + 1 + d <= Len(rs) => end <= rs[i + 1 + d].start
      BY <1>4 DEF S
    <2>3. QED
      BY <2>1, <2>2
  <1>7. QED
    BY <1>6 DEF end

\* The regions are inside the range, and no two overlap.
LEMMA TilesInside ==
    ASSUME NEW e, NEW rs, Tiles(rs, e), NEW i \in 1 .. Len(rs)
    PROVE  rs[i].start + rs[i].size <= e
  <1>1. /\ Len(rs) \in Nat /\ i \in Nat /\ e \in Nat
        /\ \A k \in 1 .. Len(rs) : rs[k].start \in Nat /\ rs[k].size \in Nat
    BY TilesTyped
  <1>2. Len(rs) \in 1 .. Len(rs)
    BY <1>1
  <1>3. rs[Len(rs)].start + rs[Len(rs)].size = e
    BY <1>2 DEF Tiles
  <1>4. i < Len(rs) => rs[i].start + rs[i].size <= rs[Len(rs)].start
    BY <1>2, TilesOrdered
  <1>5. QED
    BY <1>1, <1>2, <1>3, <1>4

LEMMA TilesDisjoint ==
    ASSUME NEW e, NEW rs, Tiles(rs, e), NEW i \in 1 .. Len(rs),
           NEW j \in 1 .. Len(rs), i # j
    PROVE  /\ \/ rs[i].start + rs[i].size <= rs[j].start
              \/ rs[j].start + rs[j].size <= rs[i].start
           /\ rs[i].start # rs[j].start /\ rs[i] # rs[j]
  <1>1. /\ i \in Nat /\ j \in Nat
        /\ \A k \in 1 .. Len(rs) : rs[k].start \in Nat /\ rs[k].size \in Nat \ {0}
    BY TilesTyped
  <1>2. \/ rs[i].start + rs[i].size <= rs[j].start
        \/ rs[j].start + rs[j].size <= rs[i].start
    <2>1. i < j \/ j < i
      BY <1>1
    <2>2. QED
      BY <2>1, TilesOrdered
  <1>3. rs[i].start # rs[j].start
    BY <1>1, <1>2
  <1>4. QED
    BY <1>2, <1>3

LEMMA HeldFacts ==
    ASSUME NEW e, NEW rs, Tiles(rs, e)
    PROVE  /\ Held(rs) = {rs[i] : i \in {k \in 1 .. Len(rs) : rs[k].allocated}}
           /\ \A r \in Held(rs) :
                /\ r \in RegionRec /\ r.start \in Nat /\ r.size \in Nat \ {0}
                /\ r.allocated /\ r.start + r.size <= e
           /\ \A r, s \in Held(rs) :
                r # s => r.start + r.size <= s.start \/ s.start + s.size <= r.start
  <1>1. Held(rs) = {rs[i] : i \in {k \in 1 .. Len(rs) : rs[k].allocated}}
    BY TilesTyped DEF Held, Range
  <1>2. ASSUME NEW r \in Held(rs)
        PROVE  /\ r \in RegionRec /\ r.start \in Nat /\ r.size \in Nat \ {0}
               /\ r.allocated /\ r.start + r.size <= e
    BY <1>1, TilesTyped, TilesInside
  <1>3. ASSUME NEW r \in Held(rs), NEW s \in Held(rs), r # s
        PROVE  r.start + r.size <= s.start \/ s.start + s.size <= r.start
    <2>1. PICK i \in 1 .. Len(rs) : r = rs[i]
      BY <1>1
    <2>2. PICK j \in 1 .. Len(rs) : s = rs[j]
      BY <1>1
    <2>3. i # j
      BY <1>3, <2>1, <2>2
    <2>4. QED
      BY <2>1, <2>2, <2>3, TilesDisjoint
  <1>4. QED
    BY <1>1, <1>2, <1>3

\* A free region overlaps none in use.
LEMMA FreeApart ==
    ASSUME NEW e, NEW rs, Tiles(rs, e), NEW i \in 1 .. Len(rs), ~rs[i].allocated,
           NEW r \in Held(rs)
    PROVE  r.start + r.size <= rs[i].start \/ rs[i].start + rs[i].size <= r.start
  <1>1. PICK j \in 1 .. Len(rs) : r = rs[j] /\ rs[j].allocated
    BY HeldFacts
  <1>2. i # j
    BY <1>1
  <1>3. QED
    BY <1>1, <1>2, TilesDisjoint

LEMMA FoundFree ==
    ASSUME NEW e, Tiles(vmm_regions, e), NEW n \in Nat, find_free_region(n) # 0
    PROVE  LET i == find_free_region(n)
           IN  /\ i \in 1 .. Len(vmm_regions)
               /\ ~vmm_regions[i].allocated /\ vmm_regions[i].size >= n
  <1> DEFINE I == {i \in 1 .. Len(vmm_regions) :
                     ~vmm_regions[i].allocated /\ vmm_regions[i].size >= n}
  <1>1. I # {} /\ find_free_region(n) = Min(I)
    BY DEF find_free_region, SelectInSeq
  <1>2. I \subseteq Nat
    OBVIOUS
  <1>3. Min(I) \in I
    BY <1>1, <1>2, MinOfNats
  <1>4. QED
    BY <1>1, <1>3

LEMMA FoundRegion ==
    ASSUME NEW e, Tiles(vmm_regions, e), NEW v, find_region(v) # 0
    PROVE  LET i == find_region(v)
           IN  /\ i \in 1 .. Len(vmm_regions)
               /\ vmm_regions[i].allocated /\ vmm_regions[i].start = v
  <1> DEFINE I == {i \in 1 .. Len(vmm_regions) :
                     vmm_regions[i].start = v /\ vmm_regions[i].allocated}
  <1>1. I # {} /\ find_region(v) = Min(I)
    BY DEF find_region, SelectInSeq
  <1>2. I \subseteq Nat
    OBVIOUS
  <1>3. Min(I) \in I
    BY <1>1, <1>2, MinOfNats
  <1>4. QED
    BY <1>1, <1>3

\* vsize is the size of the region in use that starts at the page.
LEMMA VsizeOfHeld ==
    ASSUME NEW e, Tiles(vmm_regions, e), NEW r \in Held(vmm_regions)
    PROVE  Vsize(r.start) = r.size /\ find_region(r.start) # 0
  <1>1. PICK j \in 1 .. Len(vmm_regions) :
          r = vmm_regions[j] /\ vmm_regions[j].allocated
    BY HeldFacts
  <1> DEFINE I == {i \in 1 .. Len(vmm_regions) :
                     vmm_regions[i].start = r.start /\ vmm_regions[i].allocated}
  <1>2. j \in I /\ I \subseteq Nat
    BY <1>1
  <1>3. find_region(r.start) = Min(I) /\ Min(I) \in I
    <2>1. I # {}
      BY <1>2
    <2>2. Min(I) \in I
      BY <1>2, <2>1, MinOfNats
    <2>3. find_region(r.start) = Min(I)
      BY <2>1 DEF find_region, SelectInSeq
    <2>4. QED
      BY <2>2, <2>3
  <1>4. find_region(r.start) = j
    BY <1>1, <1>3, TilesDisjoint
  <1>5. j # 0
    BY TilesTyped
  <1>6. QED
    BY <1>1, <1>4, <1>5 DEF Vsize

\* Putting a region in the place of one with the same start and size.
Alike(new, rs, i) ==
    /\ new \in Seq(RegionRec) /\ Len(new) = Len(rs)
    /\ \A k \in 1 .. Len(rs) : k # i => new[k] = rs[k]
    /\ new[i].start = rs[i].start /\ new[i].size = rs[i].size

LEMMA ReplacingTiles ==
    ASSUME NEW e, NEW rs, Tiles(rs, e), NEW i \in 1 .. Len(rs),
           NEW new, Alike(new, rs, i)
    PROVE  /\ Tiles(new, e)
           /\ new[i].allocated => Held(new) = (Held(rs) \ {rs[i]}) \cup {new[i]}
           /\ ~new[i].allocated => Held(new) = Held(rs) \ {rs[i]}
  <1>0. /\ new \in Seq(RegionRec) /\ Len(new) = Len(rs)
        /\ \A k \in 1 .. Len(rs) : k # i => new[k] = rs[k]
        /\ new[i].start = rs[i].start /\ new[i].size = rs[i].size
    BY DEF Alike
  <1>1. /\ Len(rs) \in Nat
        /\ \A k \in 1 .. Len(rs) : rs[k] \in RegionRec
    BY TilesTyped
  <1>2. \A k \in 1 .. Len(rs) : new[k].start = rs[k].start /\ new[k].size = rs[k].size
    BY <1>0
  <1>3. Tiles(new, e)
    <2>1. ASSUME NEW k \in 1 .. Len(rs)
          PROVE  new[k].start + new[k].size
                   = IF k = Len(rs) THEN e ELSE new[k + 1].start
      <3>1. rs[k].start + rs[k].size = IF k = Len(rs) THEN e ELSE rs[k + 1].start
        BY DEF Tiles
      <3>2. k # Len(rs) => k + 1 \in 1 .. Len(rs)
        BY <1>1
      <3>3. QED
        BY <1>2, <3>1, <3>2
    <2>2. Len(rs) # 0 => new[1].start = 0
      <3>1. Len(rs) # 0 => 1 \in 1 .. Len(rs)
        BY <1>1
      <3>2. QED
        BY <1>2, <3>1 DEF Tiles
    <2>3. Len(rs) = 0 => e = 0
      BY DEF Tiles
    <2>4. QED
      BY <1>0, <2>1, <2>2, <2>3 DEF Tiles
  <1>4. /\ Held(new) = {new[k] : k \in {h \in 1 .. Len(rs) : new[h].allocated}}
        /\ Held(rs) = {rs[k] : k \in {h \in 1 .. Len(rs) : rs[h].allocated}}
    <2>1. Held(new) = {new[k] : k \in {h \in 1 .. Len(new) : new[h].allocated}}
      BY <1>3, HeldFacts
    <2>2. Held(rs) = {rs[k] : k \in {h \in 1 .. Len(rs) : rs[h].allocated}}
      BY HeldFacts
    <2>3. QED
      BY <1>0, <2>1, <2>2
  <1>5. \A k \in 1 .. Len(rs) : k # i => rs[k] # rs[i]
    BY TilesDisjoint
  <1>6. Held(rs) \ {rs[i]} \subseteq Held(new)
    BY <1>0, <1>4
  <1>7. new[i].allocated => new[i] \in Held(new)
    BY <1>4
  <1>8. ASSUME NEW r \in Held(new)
        PROVE  \/ r \in Held(rs) \ {rs[i]}
               \/ r = new[i] /\ new[i].allocated
    <2>1. PICK k \in 1 .. Len(rs) : r = new[k] /\ new[k].allocated
      BY <1>4
    <2>2. QED
      BY <1>0, <1>4, <1>5, <2>1
  <1>9. QED
    BY <1>3, <1>6, <1>7, <1>8

\* Setting the allocated field of a region.
Marked(rs, i, state) == [rs EXCEPT ![i].allocated = state]

LEMMA MarkedElements ==
    ASSUME NEW rs \in Seq(RegionRec), NEW i \in 1 .. Len(rs), NEW state \in BOOLEAN
    PROVE  LET new == Marked(rs, i, state)
           IN  /\ new \in Seq(RegionRec) /\ Len(new) = Len(rs)
               /\ \A k \in 1 .. Len(rs) : k # i => new[k] = rs[k]
               /\ new[i] = Region(rs[i].start, rs[i].size, state)
  <1> DEFINE marked == Region(rs[i].start, rs[i].size, state)
             new == Marked(rs, i, state)
  <1>1. /\ Len(rs) \in Nat /\ DOMAIN rs = 1 .. Len(rs)
        /\ rs = [k \in 1 .. Len(rs) |-> rs[k]]
        /\ \A k \in 1 .. Len(rs) : rs[k] \in RegionRec
    OBVIOUS
  <1>2. marked \in RegionRec
    BY <1>1 DEF Region, RegionRec
  <1>3. marked = [rs[i] EXCEPT !.allocated = state]
    BY <1>1 DEF Region, RegionRec
  <1>4. new = [k \in 1 .. Len(rs) |-> IF k = i THEN marked ELSE rs[k]]
    BY <1>1, <1>3 DEF Marked
  <1> HIDE DEF new, marked
  <1>5. \A k \in 1 .. Len(rs) : (IF k = i THEN marked ELSE rs[k]) \in RegionRec
    BY <1>1, <1>2
  <1>6. new \in [1 .. Len(rs) -> RegionRec]
    BY <1>4, <1>5
  <1>7. new \in Seq(RegionRec) /\ Len(new) = Len(rs)
    BY <1>1, <1>6
  <1>8. QED
    BY <1>4, <1>7 DEF new, marked

LEMMA MarkingUsed ==
    ASSUME NEW e, NEW rs, Tiles(rs, e), NEW i \in 1 .. Len(rs), ~rs[i].allocated
    PROVE  LET new == Marked(rs, i, TRUE)
           IN  /\ Tiles(new, e) /\ Len(new) = Len(rs)
               /\ Held(new) = Held(rs) \cup {Region(rs[i].start, rs[i].size, TRUE)}
  <1> DEFINE new == Marked(rs, i, TRUE)
  <1>1. /\ new \in Seq(RegionRec) /\ Len(new) = Len(rs)
        /\ \A k \in 1 .. Len(rs) : k # i => new[k] = rs[k]
        /\ new[i] = Region(rs[i].start, rs[i].size, TRUE)
    BY MarkedElements DEF Tiles
  <1> HIDE DEF new
  <1>2. new[i].allocated /\ new[i].start = rs[i].start /\ new[i].size = rs[i].size
    BY <1>1 DEF Region
  <1>3. Tiles(new, e) /\ Held(new) = (Held(rs) \ {rs[i]}) \cup {new[i]}
    <2>1. Alike(new, rs, i)
      BY <1>1, <1>2 DEF Alike
    <2>2. QED
      BY <1>2, <2>1, ReplacingTiles
  <1>4. rs[i] \notin Held(rs)
    BY DEF Held
  <1>5. QED
    BY <1>1, <1>3, <1>4 DEF new

LEMMA MarkingFree ==
    ASSUME NEW e, NEW rs, Tiles(rs, e), NEW i \in 1 .. Len(rs)
    PROVE  LET new == Marked(rs, i, FALSE)
           IN  /\ Tiles(new, e) /\ Len(new) = Len(rs)
               /\ Held(new) = Held(rs) \ {rs[i]}
  <1> DEFINE new == Marked(rs, i, FALSE)
  <1>1. /\ new \in Seq(RegionRec) /\ Len(new) = Len(rs)
        /\ \A k \in 1 .. Len(rs) : k # i => new[k] = rs[k]
        /\ new[i] = Region(rs[i].start, rs[i].size, FALSE)
    BY MarkedElements DEF Tiles
  <1> HIDE DEF new
  <1>2. ~new[i].allocated /\ new[i].start = rs[i].start /\ new[i].size = rs[i].size
    BY <1>1 DEF Region
  <1>3. Tiles(new, e) /\ Held(new) = Held(rs) \ {rs[i]}
    <2>1. Alike(new, rs, i)
      BY <1>1, <1>2 DEF Alike
    <2>2. QED
      BY <1>2, <2>1, ReplacingTiles
  <1>4. QED
    BY <1>1, <1>3 DEF new

LEMMA InsertAtElements ==
    ASSUME NEW T, NEW s \in Seq(T), NEW x \in T,
           NEW i \in Nat, 1 <= i, i <= Len(s) + 1, NEW new, new = InsertAt(s, i, x)
    PROVE  /\ new \in Seq(T) /\ Len(new) = Len(s) + 1
           /\ \A j \in 1 .. Len(s) + 1 : /\ j < i => new[j] = s[j]
                                         /\ j = i => new[j] = x
                                         /\ j > i => new[j] = s[j - 1]
  <1> DEFINE front == SubSeq(s, 1, i - 1)
             back == SubSeq(s, i, Len(s))
  <1>1. Len(s) \in Nat /\ i \in Nat /\ i >= 1 /\ i <= Len(s) + 1
    OBVIOUS
  <1>2. /\ front \in Seq(T) /\ Len(front) = i - 1
        /\ \A j \in 1 .. i - 1 : front[j] = s[j]
    BY <1>1
  <1>3. /\ back \in Seq(T) /\ Len(back) = Len(s) + 1 - i
        /\ \A j \in 1 .. Len(s) + 1 - i : back[j] = s[i + j - 1]
    BY <1>1
  <1>4. new = front \o <<x>> \o back
    BY DEF InsertAt
  <1> HIDE DEF front, back
  <1>5. <<x>> \in Seq(T) /\ Len(<<x>>) = 1 /\ <<x>>[1] = x
    OBVIOUS
  <1> DEFINE left == front \o <<x>>
  <1>6. /\ left \in Seq(T) /\ Len(left) = i
        /\ \A j \in 1 .. i : left[j] = IF j < i THEN s[j] ELSE x
    BY <1>1, <1>2, <1>5
  <1> HIDE DEF left
  <1>7. /\ left \o back \in Seq(T) /\ Len(left \o back) = Len(s) + 1
        /\ \A j \in 1 .. Len(s) + 1 :
             (left \o back)[j] = IF j <= i THEN left[j] ELSE back[j - i]
    <2>1. left \o back \in Seq(T)
      BY <1>3, <1>6
    <2>2. Len(left \o back) = Len(s) + 1
      BY <1>1, <1>3, <1>6
    <2>3. ASSUME NEW j \in 1 .. Len(s) + 1
          PROVE  (left \o back)[j] = IF j <= i THEN left[j] ELSE back[j - i]
      <3>1. j \in 1 .. Len(left) + Len(back) /\ Len(left) = i
        BY <1>1, <1>3, <1>6
      <3>2. (left \o back)[j] = IF j <= Len(left) THEN left[j]
                               ELSE back[j - Len(left)]
        BY <1>3, <1>6, <3>1
      <3>3. QED
        BY <3>1, <3>2
    <2>4. QED
      BY <2>1, <2>2, <2>3
  <1>8. \A j \in 1 .. Len(s) + 1 :
          j > i => j - i \in 1 .. Len(s) + 1 - i /\ i + (j - i) - 1 = j - 1
    BY <1>1
  <1>9. \A j \in 1 .. Len(s) + 1 : /\ j < i => (left \o back)[j] = s[j]
                                   /\ j = i => (left \o back)[j] = x
                                   /\ j > i => (left \o back)[j] = s[j - 1]
    BY <1>1, <1>3, <1>6, <1>7, <1>8
  <1>10. QED
    BY <1>4, <1>7, <1>9 DEF left

LEMMA ResizedRegion ==
    ASSUME NEW r \in RegionRec, NEW n
    PROVE  [r EXCEPT !.size = n] = Region(r.start, n, r.allocated)
  BY DEF Region, RegionRec

\* Cutting a free region to n pages, or leaving it as it is.
LEMMA FitTiles ==
    ASSUME NEW e, Tiles(vmm_regions, e), NEW i \in 1 .. Len(vmm_regions),
           ~vmm_regions[i].allocated,
           NEW n \in Nat \ {0}, n <= vmm_regions[i].size
    PROVE  LET new == Fit(i, n)
           IN  /\ Tiles(new, e) /\ i \in 1 .. Len(new)
               /\ Len(new) = Len(vmm_regions) + IF CanSplit(i, n) THEN 1 ELSE 0
               /\ ~new[i].allocated /\ new[i].start = vmm_regions[i].start
               /\ new[i].size = IF CanSplit(i, n) THEN n ELSE vmm_regions[i].size
               /\ Held(new) = Held(vmm_regions)
  <1> DEFINE rs == vmm_regions
             cut == Region(rs[i].start, n, FALSE)
             rest == Region(rs[i].start + n, rs[i].size - n, FALSE)
             short == ReplaceAt(rs, i, [rs[i] EXCEPT !.size = n])
             new == Split(i, n)
  <1>1. /\ Len(rs) \in Nat /\ DOMAIN rs = 1 .. Len(rs) /\ i \in Nat
        /\ rs = [k \in 1 .. Len(rs) |-> rs[k]]
        /\ \A k \in 1 .. Len(rs) :
             /\ rs[k] \in RegionRec /\ rs[k].allocated \in BOOLEAN
             /\ rs[k].start \in Nat /\ rs[k].size \in Nat \ {0}
    BY TilesTyped
  <1>2. CASE ~CanSplit(i, n)
    <2>1. Fit(i, n) = vmm_regions
      BY <1>2 DEF Fit
    <2>2. QED
      BY <1>1, <1>2, <2>1
  <1>3. CASE CanSplit(i, n)
    <2>1. Fit(i, n) = new /\ n < rs[i].size
      BY <1>1, <1>3 DEF Fit, CanSplit
    <2>2. cut \in RegionRec /\ rest \in RegionRec
      BY <1>1, <2>1 DEF Region, RegionRec
    <2>3. [rs[i] EXCEPT !.size = n] = cut
      <3>1. rs[i].allocated = FALSE
        BY <1>1
      <3>2. [rs[i] EXCEPT !.size = n] = Region(rs[i].start, n, rs[i].allocated)
        BY <1>1, ResizedRegion
      <3>3. QED
        BY <3>1, <3>2
    <2>4. short = [k \in 1 .. Len(rs) |-> IF k = i THEN cut ELSE rs[k]]
      BY <1>1, <2>3 DEF ReplaceAt
    <2>5. /\ short \in Seq(RegionRec) /\ Len(short) = Len(rs)
          /\ \A k \in 1 .. Len(rs) : short[k] = IF k = i THEN cut ELSE rs[k]
      <3> HIDE DEF cut, rest, short, new, rs
      <3>1. \A k \in 1 .. Len(rs) :
              (IF k = i THEN cut ELSE rs[k]) \in RegionRec
        BY <1>1, <2>2
      <3>2. short \in [1 .. Len(rs) -> RegionRec]
        BY <2>4, <3>1
      <3>3. short \in Seq(RegionRec) /\ Len(short) = Len(rs)
        BY <1>1, <3>2
      <3>4. QED
        BY <2>4, <3>3
    <2>6. new = InsertAt(short, i + 1, rest)
      BY DEF Split
    <2> HIDE DEF cut, rest, short, new
    <2>7. /\ new \in Seq(RegionRec) /\ Len(new) = Len(rs) + 1
          /\ \A j \in 1 .. Len(rs) + 1 :
               /\ j < i + 1 => new[j] = short[j]
               /\ j = i + 1 => new[j] = rest
               /\ j > i + 1 => new[j] = short[j - 1]
      <3>1. PICK at \in Nat : at = i + 1 /\ 1 <= at /\ at <= Len(short) + 1
        BY <1>1, <2>5
      <3>2. short \in Seq(RegionRec)
        BY <2>5
      <3>3. new = InsertAt(short, at, rest) /\ rest \in RegionRec
        BY <2>2, <2>6, <3>1
      <3>4. /\ new \in Seq(RegionRec) /\ Len(new) = Len(short) + 1
            /\ \A j \in 1 .. Len(short) + 1 :
                 /\ j < at => new[j] = short[j]
                 /\ j = at => new[j] = rest
                 /\ j > at => new[j] = short[j - 1]
        BY SMTT(30), <3>1, <3>2, <3>3, InsertAtElements
      <3>5. QED
        BY <2>5, <3>1, <3>4
    <2>8. \A j \in 1 .. Len(rs) + 1 :
            /\ j < i => new[j] = rs[j]
            /\ j = i => new[j] = cut
            /\ j = i + 1 => new[j] = rest
            /\ j > i + 1 => j - 1 \in 1 .. Len(rs) /\ new[j] = rs[j - 1]
      BY SMTT(30), <1>1, <2>5, <2>7
    <2>9. /\ cut.start = rs[i].start /\ cut.size = n /\ ~cut.allocated
          /\ rest.start = rs[i].start + n /\ rest.size = rs[i].size - n
          /\ ~rest.allocated
      BY DEF cut, rest, Region
    <2>10. Tiles(new, e)
      <3>1. ASSUME NEW j \in 1 .. Len(rs) + 1
            PROVE  new[j].start + new[j].size
                     = IF j = Len(rs) + 1 THEN e ELSE new[j + 1].start
        <4>1. j \in Nat /\ (j # Len(rs) + 1 => j + 1 \in 1 .. Len(rs) + 1)
          BY <1>1
        <4>2. \A k \in 1 .. Len(rs) :
                rs[k].start + rs[k].size
                  = IF k = Len(rs) THEN e ELSE rs[k + 1].start
          BY DEF Tiles
        <4>3. CASE j < i - 1
          <5>1. new[j] = rs[j] /\ new[j + 1] = rs[j + 1] /\ j \in 1 .. Len(rs)
                /\ j # Len(rs) /\ j # Len(rs) + 1
            BY SMTT(30), <1>1, <2>8, <4>1, <4>3
          <5>2. QED
            BY <4>2, <5>1
        <4>4. CASE j = i - 1
          <5>1. new[j] = rs[j] /\ new[j + 1] = cut /\ j \in 1 .. Len(rs)
                /\ j + 1 = i /\ j # Len(rs) /\ j # Len(rs) + 1
            BY <1>1, <2>8, <4>1, <4>4
          <5>2. QED
            BY <2>9, <4>2, <5>1
        <4>5. CASE j = i
          <5>1. new[j] = cut /\ new[j + 1] = rest /\ j # Len(rs) + 1
            BY <1>1, <2>8, <4>1, <4>5
          <5>2. QED
            BY <2>9, <5>1
        <4>6. CASE j = i + 1
          <5>1. new[j] = rest
            BY <2>8, <4>6
          <5>2. rest.start + rest.size = rs[i].start + rs[i].size
            BY <1>1, <2>9
          <5>3. CASE i = Len(rs)
            BY <4>2, <4>6, <5>1, <5>2, <5>3
          <5>4. CASE i # Len(rs)
            <6>1. new[j + 1] = rs[i + 1] /\ j # Len(rs) + 1
              BY <1>1, <2>8, <4>1, <4>6, <5>4
            <6>2. QED
              BY <4>2, <5>1, <5>2, <5>4, <6>1
          <5>5. QED
            BY <5>3, <5>4
        <4>7. CASE j > i + 1
          <5>1. new[j] = rs[j - 1] /\ j - 1 \in 1 .. Len(rs)
            BY <2>8, <4>7
          <5>2. j - 1 = Len(rs) <=> j = Len(rs) + 1
            BY <1>1, <4>1
          <5>3. j # Len(rs) + 1 => new[j + 1] = rs[j] /\ (j - 1) + 1 = j
            BY <1>1, <2>8, <4>1, <4>7
          <5>4. QED
            BY <4>1, <4>2, <5>1, <5>2, <5>3
        <4>8. QED
          BY <1>1, <4>1, <4>3, <4>4, <4>5, <4>6, <4>7
      <3>2. new[1].start = 0
        <4>1. 1 \in 1 .. Len(rs) + 1 /\ (i = 1 \/ 1 < i)
          BY <1>1
        <4>2. rs[1].start = 0
          BY <1>1 DEF Tiles
        <4>3. QED
          BY <2>8, <2>9, <4>1, <4>2
      <3>3. QED
        BY <1>1, <2>7, <3>1, <3>2 DEF Tiles
    <2>11. Held(new) = Held(rs)
      <3>1. /\ Held(new) = {new[k] : k \in {h \in 1 .. Len(rs) + 1 : new[h].allocated}}
            /\ Held(rs) = {rs[k] : k \in {h \in 1 .. Len(rs) : rs[h].allocated}}
        BY <2>7, <2>10, HeldFacts
      <3>2. ASSUME NEW k \in 1 .. Len(rs), rs[k].allocated
            PROVE  \E h \in 1 .. Len(rs) + 1 : new[h] = rs[k]
        <4>1. CASE k < i
          <5>1. k \in 1 .. Len(rs) + 1
            BY <1>1
          <5>2. QED
            BY <2>8, <4>1, <5>1
        <4>2. CASE k > i
          <5>1. k + 1 \in 1 .. Len(rs) + 1 /\ k + 1 > i + 1 /\ (k + 1) - 1 = k
            BY <1>1, <4>2
          <5>2. QED
            BY <2>8, <5>1
        <4>3. QED
          BY <1>1, <3>2, <4>1, <4>2
      <3>3. ASSUME NEW h \in 1 .. Len(rs) + 1, new[h].allocated
            PROVE  \E k \in 1 .. Len(rs) : new[h] = rs[k]
        <4>1. h \in Nat /\ (h < i => h \in 1 .. Len(rs))
          BY <1>1
        <4>2. h < i \/ h = i \/ h = i + 1 \/ h > i + 1
          BY <1>1, <4>1
        <4>3. QED
          BY <2>8, <2>9, <3>3, <4>1, <4>2
      <3>4. QED
        BY <3>1, <3>2, <3>3
    <2>12. i \in 1 .. Len(new) /\ new[i] = cut
      BY <1>1, <2>7, <2>8
    <2>13. QED
      BY <1>3, <2>1, <2>7, <2>9, <2>10, <2>11, <2>12
  <1>4. QED
    BY <1>2, <1>3

----------------------------------------------------------------------------
(* Merging neighbours: coalesce goes through the list one region at a time,  *)
(* so what holds of the regions seen so far is shown by induction.          *)

Merge(done, r) ==
    IF done # <<>> /\ ~Last(done).allocated /\ ~r.allocated
    THEN [done EXCEPT ![Len(done)].size = @ + r.size]
    ELSE Append(done, r)

LEMMA MergedElements ==
    ASSUME NEW done \in Seq(RegionRec), NEW r \in RegionRec,
           done # <<>>, ~Last(done).allocated, ~r.allocated
    PROVE  /\ Len(done) \in 1 .. Len(done)
           /\ Len(Merge(done, r)) = Len(done)
           /\ \A i \in 1 .. Len(done) : i # Len(done) => Merge(done, r)[i] = done[i]
           /\ Merge(done, r)[Len(done)]
                = Region(done[Len(done)].start, done[Len(done)].size + r.size, FALSE)
           /\ Merge(done, r) \in Seq(RegionRec)
  <1> DEFINE k == Len(done)
             grown == Region(done[k].start, done[k].size + r.size, FALSE)
             new == Merge(done, r)
  <1>1. /\ k \in Nat /\ DOMAIN done = 1 .. k
        /\ done = [i \in 1 .. k |-> done[i]]
        /\ \A i \in 1 .. k : done[i] \in RegionRec
    OBVIOUS
  <1>2. k \in 1 .. k
    BY <1>1
  <1>3. /\ done[k].start \in Nat /\ done[k].size \in Nat \ {0}
        /\ done[k].allocated = FALSE /\ r.size \in Nat \ {0}
    BY <1>1, <1>2 DEF Last, RegionRec
  <1>4. grown \in RegionRec
    BY <1>3 DEF Region, RegionRec
  <1>5. [done[k] EXCEPT !.size = done[k].size + r.size] = grown
    <2>1. [done[k] EXCEPT !.size = done[k].size + r.size]
            = Region(done[k].start, done[k].size + r.size, done[k].allocated)
      BY <1>1, <1>2, ResizedRegion
    <2>2. QED
      BY <1>3, <2>1
  <1>6. new = [done EXCEPT ![k] = [done[k] EXCEPT !.size = done[k].size + r.size]]
    BY DEF Merge
  <1> HIDE DEF k, grown, new
  <1>7. new = [i \in 1 .. k |-> IF i = k THEN grown ELSE done[i]]
    BY <1>1, <1>2, <1>5, <1>6
  <1>8. \A i \in 1 .. k : (IF i = k THEN grown ELSE done[i]) \in RegionRec
    BY <1>1, <1>4
  <1>9. new \in [1 .. k -> RegionRec]
    BY <1>7, <1>8
  <1>10. new \in Seq(RegionRec) /\ Len(new) = k
    BY <1>1, <1>9
  <1>11. QED
    BY <1>2, <1>7, <1>10 DEF k, grown, new

LEMMA AppendedElements ==
    ASSUME NEW done \in Seq(RegionRec), NEW r \in RegionRec
    PROVE  /\ Append(done, r) \in Seq(RegionRec)
           /\ Len(Append(done, r)) = Len(done) + 1
           /\ \A i \in 1 .. Len(done) : Append(done, r)[i] = done[i]
           /\ Append(done, r)[Len(done) + 1] = r
  OBVIOUS

LEMMA MergeTyped ==
    ASSUME NEW done \in Seq(RegionRec), NEW r \in RegionRec
    PROVE  Merge(done, r) \in Seq(RegionRec)
  <1>1. CASE done # <<>> /\ ~Last(done).allocated /\ ~r.allocated
    BY <1>1, MergedElements
  <1>2. CASE ~(done # <<>> /\ ~Last(done).allocated /\ ~r.allocated)
    BY <1>2, AppendedElements DEF Merge
  <1>3. QED
    BY <1>1, <1>2

LEMMA MergeTiles ==
    ASSUME NEW done, NEW r \in RegionRec, Tiles(done, r.start)
    PROVE  /\ Tiles(Merge(done, r), r.start + r.size)
           /\ Len(Merge(done, r)) <= Len(done) + 1
           /\ Held(Merge(done, r)) = Held(done) \cup (IF r.allocated THEN {r} ELSE {})
  <1> DEFINE k == Len(done)
             new == Merge(done, r)
             e == r.start + r.size
  <1>1. /\ done \in Seq(RegionRec) /\ k \in Nat
        /\ \A i \in 1 .. k : /\ done[i].start \in Nat /\ done[i].size \in Nat \ {0}
                             /\ done[i].allocated \in BOOLEAN
        /\ r.start \in Nat /\ r.size \in Nat \ {0} /\ r.allocated \in BOOLEAN
    BY TilesTyped DEF Tiles, RegionRec
  <1>2. Held(done) = {done[i] : i \in {h \in 1 .. k : done[h].allocated}}
    BY HeldFacts
  <1>3. /\ k = 0 => r.start = 0
        /\ k # 0 => done[1].start = 0
        /\ \A i \in 1 .. k : done[i].start + done[i].size
                               = IF i = k THEN r.start ELSE done[i + 1].start
    BY DEF Tiles
  <1>4. CASE done # <<>> /\ ~Last(done).allocated /\ ~r.allocated
    <2> DEFINE grown == Region(done[k].start, done[k].size + r.size, FALSE)
    <2>1. /\ k \in 1 .. k /\ Len(new) = k /\ new \in Seq(RegionRec)
          /\ \A i \in 1 .. k : i # k => new[i] = done[i]
          /\ new[k] = grown
      BY <1>1, <1>4, MergedElements
    <2>2. /\ grown.start = done[k].start /\ grown.size = done[k].size + r.size
          /\ ~grown.allocated /\ ~done[k].allocated
      BY <1>4 DEF Region, Last
    <2> HIDE DEF k, new, grown
    <2>3. ASSUME NEW i \in 1 .. k
          PROVE  new[i].start + new[i].size = IF i = k THEN e ELSE new[i + 1].start
      <3>1. CASE i = k
        <4>1. done[k].start + done[k].size = r.start
          BY <1>3, <2>1
        <4>2. new[i].start + new[i].size = done[k].start + done[k].size + r.size
          BY <1>1, <2>1, <2>2, <3>1
        <4>3. QED
          BY <3>1, <4>1, <4>2
      <3>2. CASE i # k
        <4>1. i + 1 \in 1 .. k
          BY <1>1, <3>2
        <4>2. new[i + 1].start = done[i + 1].start
          BY <2>1, <2>2, <4>1
        <4>3. new[i] = done[i]
          BY <2>1, <3>2
        <4>4. done[i].start + done[i].size = done[i + 1].start
          BY <1>3, <3>2
        <4>5. QED
          BY <3>2, <4>2, <4>3, <4>4
      <3>3. QED
        BY <3>1, <3>2
    <2>4. new[1].start = 0 /\ k # 0
      <3>1. 1 \in 1 .. k /\ k # 0
        BY <1>1, <2>1
      <3>2. QED
        BY <1>3, <2>1, <2>2, <3>1
    <2>5. Tiles(new, e)
      BY <2>1, <2>3, <2>4 DEF Tiles
    <2>6. Held(new) = {new[i] : i \in {h \in 1 .. k : new[h].allocated}}
      BY <2>1, <2>5, HeldFacts
    <2>7. \A h \in 1 .. k : /\ new[h].allocated <=> done[h].allocated
                            /\ new[h].allocated => new[h] = done[h]
      BY <2>1, <2>2
    <2>8. Held(new) = Held(done)
      BY <1>2, <2>6, <2>7
    <2>9. QED
      BY <1>1, <1>4, <2>1, <2>5, <2>8 DEF k, new
  <1>5. CASE ~(done # <<>> /\ ~Last(done).allocated /\ ~r.allocated)
    <2>1. new = Append(done, r)
      BY <1>5 DEF Merge
    <2>2. /\ Len(new) = k + 1 /\ new \in Seq(RegionRec)
          /\ \A i \in 1 .. k : new[i] = done[i]
          /\ new[k + 1] = r
      BY <1>1, <2>1, AppendedElements
    <2> HIDE DEF k, new
    <2>3. ASSUME NEW i \in 1 .. k + 1
          PROVE  new[i].start + new[i].size = IF i = k + 1 THEN e ELSE new[i + 1].start
      <3>1. CASE i = k + 1
        BY <2>2, <3>1
      <3>2. CASE i = k
        <4>1. i \in 1 .. k /\ i # k + 1
          BY <1>1, <3>2
        <4>2. QED
          BY <1>3, <2>2, <3>2, <4>1
      <3>3. CASE i # k + 1 /\ i # k
        <4>1. i \in 1 .. k /\ i + 1 \in 1 .. k
          BY <1>1, <3>3
        <4>2. QED
          BY <1>3, <2>2, <3>3, <4>1
      <3>4. QED
        BY <3>1, <3>2, <3>3
    <2>4. new[1].start = 0
      <3>1. CASE k = 0
        BY <1>3, <2>2, <3>1
      <3>2. CASE k # 0
        <4>1. 1 \in 1 .. k
          BY <1>1, <3>2
        <4>2. QED
          BY <1>3, <2>2, <3>2, <4>1
      <3>3. QED
        BY <3>1, <3>2
    <2>5. k + 1 # 0
      BY <1>1
    <2>6. Tiles(new, e)
      BY <2>2, <2>3, <2>4, <2>5 DEF Tiles
    <2>7. Held(new) = {new[i] : i \in {h \in 1 .. k + 1 : new[h].allocated}}
      BY <2>2, <2>6, HeldFacts
    <2>8. 1 .. k + 1 = (1 .. k) \cup {k + 1}
      BY <1>1
    <2>9. Held(new) = Held(done) \cup (IF r.allocated THEN {r} ELSE {})
      BY <1>2, <2>2, <2>7, <2>8
    <2>10. QED
      BY <1>1, <2>2, <2>6, <2>9 DEF k, new
  <1>6. QED
    BY <1>4, <1>5

LEMMA CoalesceIsFold ==
    ASSUME NEW rs \in Seq(RegionRec)
    PROVE  \E pre : /\ Coalesce(rs) = pre[Len(rs)] /\ pre[0] = <<>>
                    /\ \A k \in 0 .. Len(rs) - 1 : pre[k + 1] = Merge(pre[k], rs[k + 1])
  <1> DEFINE n == Len(rs)
             V == Seq(RegionRec)
             step == [done \in V |-> [i \in 1 .. n |-> Merge(done, rs[i])]]
             IsMerging(f) ==
               f = [s \in SUBSET DOMAIN rs |->
                      IF s = {} THEN <<>> ELSE Merge(f[s \ {Max(s)}], rs[Max(s)])]
  <1>1. n \in Nat /\ DOMAIN rs = 1 .. n /\ <<>> \in V
        /\ \A i \in 1 .. n : rs[i] \in RegionRec
    OBVIOUS
  <1>2. step \in [V -> [1 .. n -> V]]
    <2>1. \A done \in V : \A i \in 1 .. n : Merge(done, rs[i]) \in V
      BY <1>1, MergeTyped
    <2>2. QED
      BY <2>1
  <1>3. \A done \in V : \A i \in 1 .. n : step[done][i] = Merge(done, rs[i])
    OBVIOUS
  <1> HIDE DEF step, V
  <1>4. PICK fold : IsFold(fold, n, V, <<>>, step)
    BY <1>1, <1>2, FoldExists
  <1>5. IsMerging(fold)
    <2>1. fold \in [SUBSET (1 .. n) -> V]
      BY <1>4 DEF IsFold
    <2>2. ASSUME NEW s \in SUBSET (1 .. n)
          PROVE  fold[s] = IF s = {} THEN <<>>
                           ELSE Merge(fold[s \ {Max(s)}], rs[Max(s)])
      <3>1. CASE s = {}
        BY <1>4, <3>1 DEF IsFold
      <3>2. CASE s # {}
        <4>1. fold[s] = step[fold[s \ {Max(s)}]][Max(s)]
          BY <1>4, <3>2 DEF IsFold
        <4>2. Max(s) \in 1 .. n
          <5>1. s \in SUBSET Nat /\ \A m \in s : m <= n
            BY <1>1
          <5>2. Max(s) \in s
            BY <1>1, <3>2, <5>1, MaxOfNats
          <5>3. QED
            BY <5>2
        <4>3. fold[s \ {Max(s)}] \in V
          <5>1. s \ {Max(s)} \in SUBSET (1 .. n)
            OBVIOUS
          <5>2. QED
            BY <2>1, <5>1, Zenon
        <4>4. QED
          BY <1>3, <3>2, <4>1, <4>2, <4>3
      <3>3. QED
        BY <3>1, <3>2
    <2>3. fold = [s \in SUBSET (1 .. n) |->
                    IF s = {} THEN <<>> ELSE Merge(fold[s \ {Max(s)}], rs[Max(s)])]
      <3>1. fold = [s \in SUBSET (1 .. n) |-> fold[s]]
        BY <2>1
      <3>2. QED
        BY <2>2, <3>1, Zenon
    <2>4. QED
      BY <1>1, <2>3
  <1> DEFINE g == CHOOSE f : IsMerging(f)
  <1>6. IsMerging(g)
    BY <1>5
  <1>7. Coalesce(rs) = g[DOMAIN rs]
    BY DEF Coalesce, FoldLeft, MapThenFoldSet, Merge
  <1> DEFINE pre == [k \in 0 .. n |-> g[1 .. k]]
  <1> HIDE DEF g
  <1>8. Coalesce(rs) = pre[n]
    BY <1>1, <1>7
  <1>9. \A s \in SUBSET (1 .. n) :
          g[s] = IF s = {} THEN <<>> ELSE Merge(g[s \ {Max(s)}], rs[Max(s)])
    BY <1>1, <1>6, Zenon
  <1>10. pre[0] = <<>>
    <2>1. 1 .. 0 = {} /\ {} \in SUBSET (1 .. n) /\ 0 \in 0 .. n
      BY <1>1
    <2>2. g[{}] = <<>>
      BY <1>9, <2>1
    <2>3. QED
      BY <2>1, <2>2
  <1>11. ASSUME NEW k \in 0 .. n - 1 PROVE pre[k + 1] = Merge(pre[k], rs[k + 1])
    <2>1. PICK m \in Nat : m = k + 1 /\ m # 0 /\ m <= n
      BY <1>1
    <2>2. Max(1 .. m) = m /\ (1 .. m) \ {Max(1 .. m)} = 1 .. m - 1
      BY <2>1, MaxOfInterval
    <2>3. 1 .. m \in SUBSET (1 .. n) /\ 1 .. m # {}
      <3>1. n \in Nat
        BY <1>1
      <3>2. 1 \in 1 .. m /\ \A x \in 1 .. m : x \in 1 .. n
        BY <2>1, <3>1
      <3>3. QED
        BY <3>2
    <2>4. g[1 .. m] = Merge(g[1 .. m - 1], rs[m])
      <3>1. g[1 .. m] = Merge(g[(1 .. m) \ {Max(1 .. m)}], rs[Max(1 .. m)])
        BY <1>9, <2>3, Zenon
      <3>2. QED
        BY <2>2, <3>1, Zenon
    <2>5. m - 1 = k /\ k \in 0 .. n /\ k + 1 \in 0 .. n
      BY <1>1, <2>1
    <2>6. QED
      BY <2>1, <2>4, <2>5
  <1>12. QED
    BY <1>8, <1>10, <1>11

\* coalesce keeps the range tiled and every region that is in use.
LEMMA CoalesceTiles ==
    ASSUME NEW e, NEW rs, Tiles(rs, e)
    PROVE  /\ Tiles(Coalesce(rs), e) /\ Len(Coalesce(rs)) <= Len(rs)
           /\ Held(Coalesce(rs)) = Held(rs)
  <1> DEFINE n == Len(rs)
             seen(k) == IF k = n THEN e ELSE rs[k + 1].start
             used(k) == {rs[i] : i \in {h \in 1 .. k : rs[h].allocated}}
  <1>1. /\ n \in Nat /\ rs \in Seq(RegionRec)
        /\ \A i \in 1 .. n : /\ rs[i] \in RegionRec /\ rs[i].start \in Nat
                             /\ rs[i].size \in Nat /\ rs[i].allocated \in BOOLEAN
    BY TilesTyped DEF Tiles
  <1>2. PICK pre : /\ Coalesce(rs) = pre[n] /\ pre[0] = <<>>
                   /\ \A k \in 0 .. n - 1 : pre[k + 1] = Merge(pre[k], rs[k + 1])
    BY <1>1, CoalesceIsFold
  <1> DEFINE S == {k \in Nat : k <= n =>
                     /\ Tiles(pre[k], seen(k)) /\ Len(pre[k]) <= k
                     /\ Held(pre[k]) = used(k)}
  <1>3. 0 \in S
    <2>1. seen(0) = 0
      <3>1. CASE n = 0
        BY <3>1 DEF Tiles
      <3>2. CASE n # 0
        BY <3>2 DEF Tiles
      <3>3. QED
        BY <3>1, <3>2
    <2> HIDE DEF seen
    <2>2. Tiles(<<>>, 0) /\ Len(<<>>) = 0
      BY DEF Tiles
    <2>3. Held(<<>>) = {}
      BY DEF Held, Range
    <2>4. used(0) = {}
      OBVIOUS
    <2>5. QED
      BY <1>2, <2>1, <2>2, <2>3, <2>4
  <1>4. ASSUME NEW k \in Nat, k \in S PROVE k + 1 \in S
    <2> SUFFICES ASSUME k + 1 <= n
                 PROVE  /\ Tiles(pre[k + 1], seen(k + 1)) /\ Len(pre[k + 1]) <= k + 1
                        /\ Held(pre[k + 1]) = used(k + 1)
      OBVIOUS
    <2> DEFINE r == rs[k + 1]
    <2>1. k \in 0 .. n - 1 /\ k + 1 \in 1 .. n /\ k <= n /\ k # n
      BY <1>1
    <2>2. r \in RegionRec /\ r.allocated \in BOOLEAN /\ seen(k) = r.start
      BY <1>1, <2>1
    <2>3. pre[k + 1] = Merge(pre[k], r)
      BY <1>2, <2>1
    <2>4. r.start + r.size = seen(k + 1)
      BY <2>1 DEF Tiles
    <2>5. Tiles(pre[k], seen(k)) /\ Len(pre[k]) <= k /\ Held(pre[k]) = used(k)
      BY <1>4, <2>1
    <2>6. used(k + 1) = used(k) \cup (IF r.allocated THEN {r} ELSE {})
      <3>1. 1 .. k + 1 = (1 .. k) \cup {k + 1}
        OBVIOUS
      <3>2. QED
        BY <3>1
    <2> HIDE DEF r, seen, used, S
    <2>7. /\ Tiles(Merge(pre[k], r), r.start + r.size)
          /\ Len(Merge(pre[k], r)) <= Len(pre[k]) + 1
          /\ Held(Merge(pre[k], r)) = Held(pre[k]) \cup (IF r.allocated THEN {r} ELSE {})
      BY <2>2, <2>5, MergeTiles
    <2>8. Len(pre[k]) \in Nat /\ Len(pre[k + 1]) \in Nat
      BY <2>3, <2>5, <2>7, TilesTyped
    <2>9. Len(pre[k + 1]) <= k + 1
      BY <2>3, <2>5, <2>7, <2>8
    <2>10. QED
      BY <2>3, <2>4, <2>5, <2>6, <2>7, <2>9
  <1> HIDE DEF S
  <1>5. n \in S
    BY <1>1, <1>3, <1>4, SetInduction
  <1>6. Tiles(pre[n], e) /\ Len(pre[n]) <= n /\ Held(pre[n]) = used(n)
    BY <1>1, <1>5 DEF S
  <1>7. Held(rs) = used(n)
    BY HeldFacts
  <1>8. QED
    BY <1>2, <1>6, <1>7

----------------------------------------------------------------------------
(* The inductive invariant *)

\* No request is so large that rounding it up to pages wraps around.
NoWrap == \A size \in Requests : size + PageSize - 1 < Word

\* A kernel uses vmalloc and vfree or vbrk, never both on the same range.
OneInterface == "both" \notin APIs

\* The regions in use are those of the live allocations, one each, and as
\* large as asked for while region entries are left.
HeldIsLive(held, alive, exhausted) ==
    /\ \A a \in alive :
         /\ a.bytes \in Requests
         /\ \E r \in held : /\ r.start = a.page
                            /\ r.size >= PagesFor(a.bytes)
                            /\ ~exhausted => r.size = PagesFor(a.bytes)
    /\ \A r \in held : \E a \in alive : a.page = r.start
    /\ \A a, b \in alive : a.page = b.page => a = b

RegionsInv ==
    /\ Tiles(vmm_regions, HeapPages)
    /\ region_pool_index \in 1 .. MaxRegions
    /\ Len(vmm_regions) <= region_pool_index
    /\ HeldIsLive(Held(vmm_regions), live, region_pool_index = MaxRegions)

StateInv ==
    /\ vmm_heap_current \in 0 .. HeapPages * PageSize
    /\ kernel \in {"running", "PANIC"} /\ api \in APIs

FramesInv == Exclusive(pte, page_directory, out, others)

IInv == RegionsInv /\ StateInv /\ FramesInv

LEMMA PagesForExact ==
    ASSUME NoWrap, NEW size \in Requests
    PROVE  /\ PagesFor(size) \in Nat \ {0} /\ PagesFor(size) = PageUp(size)
           /\ size <= PagesFor(size) * PageSize
  <1> DEFINE a == size + PageSize - 1
             q == a \div PageSize
  <1>1. /\ size \in Nat \ {0} /\ PageSize \in Nat \ {0} /\ Word \in Nat
        /\ a \in Nat /\ a < Word /\ PageSize <= a
    BY Constants DEF NoWrap
  <1>2. a % Word = a
    BY <1>1
  <1>3. PagesFor(size) = q /\ PageUp(size) = q
    BY <1>2 DEF PagesFor, PageUp
  <1>4. a = size + PageSize - 1
    OBVIOUS
  <1> HIDE DEF a
  <1>5. q \in Nat /\ q * PageSize <= a /\ a < (q + 1) * PageSize
    BY <1>1, DivBounds
  <1> HIDE DEF q
  <1>6. (q + 1) * PageSize = q * PageSize + PageSize /\ q * PageSize \in Int
    BY <1>1, <1>5
  <1>7. q # 0
    BY <1>1, <1>5
  <1>8. size <= q * PageSize
    BY <1>1, <1>4, <1>5, <1>6
  <1>9. QED
    BY <1>3, <1>5, <1>7, <1>8

\* Every region in use belongs to one live allocation, and the regions of two
\* allocations are apart.
LEMMA LiveRegions ==
    ASSUME NoWrap, NEW rs, Tiles(rs, HeapPages), NEW alive, NEW exhausted,
           HeldIsLive(Held(rs), alive, exhausted)
    PROVE  /\ \A a \in alive :
                /\ a.page \in Nat /\ PagesFor(a.bytes) \in Nat \ {0}
                /\ a.page + PagesFor(a.bytes) <= HeapPages
           /\ \A a \in alive : \A r \in Held(rs) :
                \/ r.start = a.page /\ PagesFor(a.bytes) <= r.size
                \/ r.start + r.size <= a.page
                \/ a.page + PagesFor(a.bytes) <= r.start
           /\ \A a, b \in alive :
                a # b => \/ a.page + PagesFor(a.bytes) <= b.page
                         \/ b.page + PagesFor(b.bytes) <= a.page
  <1>1. /\ HeapPages \in Nat
        /\ \A r \in Held(rs) : /\ r.start \in Nat /\ r.size \in Nat \ {0}
                               /\ r.start + r.size <= HeapPages
        /\ \A r, s \in Held(rs) :
             r # s => r.start + r.size <= s.start \/ s.start + s.size <= r.start
    BY Constants, HeldFacts
  <1>2. ASSUME NEW a \in alive
        PROVE  /\ PagesFor(a.bytes) \in Nat \ {0}
               /\ \E r \in Held(rs) : r.start = a.page /\ r.size >= PagesFor(a.bytes)
    <2>1. a.bytes \in Requests
      BY DEF HeldIsLive
    <2>2. QED
      BY <2>1, PagesForExact DEF HeldIsLive
  <1>3. ASSUME NEW a \in alive
        PROVE  /\ a.page \in Nat /\ a.page + PagesFor(a.bytes) <= HeapPages
    <2>1. PICK r \in Held(rs) : r.start = a.page /\ r.size >= PagesFor(a.bytes)
      BY <1>2
    <2>2. QED
      BY <1>1, <1>2, <2>1
  <1>4. ASSUME NEW a \in alive, NEW r \in Held(rs)
        PROVE  \/ r.start = a.page /\ PagesFor(a.bytes) <= r.size
               \/ r.start + r.size <= a.page
               \/ a.page + PagesFor(a.bytes) <= r.start
    <2>1. PICK s \in Held(rs) : s.start = a.page /\ s.size >= PagesFor(a.bytes)
      BY <1>2
    <2>2. CASE r = s
      BY <2>1, <2>2
    <2>3. CASE r # s
      <3>1. r.start + r.size <= s.start \/ s.start + s.size <= r.start
        BY <1>1, <2>3
      <3>2. /\ r.start \in Nat /\ r.size \in Nat /\ s.start \in Nat /\ s.size \in Nat
            /\ PagesFor(a.bytes) \in Nat
        BY <1>1, <1>2
      <3>3. QED
        BY <2>1, <3>1, <3>2
    <2>4. QED
      BY <2>2, <2>3
  <1>5. ASSUME NEW a \in alive, NEW b \in alive, a # b
        PROVE  \/ a.page + PagesFor(a.bytes) <= b.page
               \/ b.page + PagesFor(b.bytes) <= a.page
    <2>1. PICK s \in Held(rs) : s.start = b.page /\ s.size >= PagesFor(b.bytes)
      BY <1>2
    <2>2. a.page # b.page
      BY <1>5 DEF HeldIsLive
    <2>3. \/ s.start + s.size <= a.page \/ a.page + PagesFor(a.bytes) <= s.start
      BY <1>4, <2>1, <2>2
    <2>4. /\ s.start \in Nat /\ s.size \in Nat /\ PagesFor(b.bytes) \in Nat
          /\ a.page \in Nat /\ PagesFor(a.bytes) \in Nat
      BY <1>1, <1>2, <1>3
    <2>5. QED
      BY <2>1, <2>3, <2>4
  <1>6. QED
    BY <1>2, <1>3, <1>4, <1>5

----------------------------------------------------------------------------
(* What the steps do to the region list *)

\* The region vmalloc finds is cut to size, or left whole if no entry is left.
LEMMA FoundFits ==
    ASSUME NoWrap, RegionsInv, NEW size \in Requests, NEW n, n = PagesFor(size),
           NEW i, i = find_free_region(n), i # 0,
           NEW start, start = vmm_regions[i].start
    PROVE  /\ n \in Nat \ {0} /\ start \in Nat /\ start + n <= HeapPages
           /\ \A r \in Held(vmm_regions) :
                r.start + r.size <= start \/ start + n <= r.start
           /\ Tiles(Fit(i, n), HeapPages) /\ i \in 1 .. Len(Fit(i, n))
           /\ Len(Fit(i, n)) <= PoolAfter(i, n)
           /\ PoolAfter(i, n) \in 1 .. MaxRegions
           /\ PoolAfter(i, n) = MaxRegions \/ region_pool_index # MaxRegions
           /\ Held(Fit(i, n)) = Held(vmm_regions)
           /\ ~Fit(i, n)[i].allocated /\ Fit(i, n)[i].start = start
           /\ Fit(i, n)[i].size >= n
           /\ PoolAfter(i, n) # MaxRegions => Fit(i, n)[i].size = n
  <1>1. n \in Nat \ {0} /\ MaxRegions \in Nat /\ HeapPages \in Nat
    BY PagesForExact, Constants
  <1>2. /\ Tiles(vmm_regions, HeapPages)
        /\ region_pool_index \in 1 .. MaxRegions
        /\ Len(vmm_regions) <= region_pool_index
    BY DEF RegionsInv
  <1>3. /\ i \in 1 .. Len(vmm_regions) /\ ~vmm_regions[i].allocated
        /\ vmm_regions[i].size >= n
    BY <1>1, <1>2, FoundFree
  <1>4. /\ start \in Nat /\ vmm_regions[i].size \in Nat /\ Len(vmm_regions) \in Nat
        /\ start + vmm_regions[i].size <= HeapPages
    BY <1>2, <1>3, TilesTyped, TilesInside
  <1>5. n <= vmm_regions[i].size /\ start + n <= HeapPages
    BY <1>1, <1>3, <1>4
  <1>6. ASSUME NEW r \in Held(vmm_regions)
        PROVE  r.start + r.size <= start \/ start + n <= r.start
    <2>1. r.start + r.size <= start \/ start + vmm_regions[i].size <= r.start
      BY <1>2, <1>3, FreeApart
    <2>2. r.start \in Nat
      BY <1>2, HeldFacts
    <2>3. QED
      BY <1>1, <1>4, <1>5, <2>1, <2>2
  <1>7. /\ Tiles(Fit(i, n), HeapPages) /\ i \in 1 .. Len(Fit(i, n))
        /\ Len(Fit(i, n)) = Len(vmm_regions) + IF CanSplit(i, n) THEN 1 ELSE 0
        /\ ~Fit(i, n)[i].allocated /\ Fit(i, n)[i].start = start
        /\ Fit(i, n)[i].size = IF CanSplit(i, n) THEN n ELSE vmm_regions[i].size
        /\ Held(Fit(i, n)) = Held(vmm_regions)
    BY <1>1, <1>2, <1>3, <1>5, FitTiles
  <1>8. PoolAfter(i, n) = region_pool_index + IF CanSplit(i, n) THEN 1 ELSE 0
    BY DEF PoolAfter
  <1>9. CASE CanSplit(i, n)
    <2>1. region_pool_index < MaxRegions
      BY <1>9 DEF CanSplit
    <2>2. QED
      BY <1>1, <1>2, <1>4, <1>5, <1>6, <1>7, <1>8, <1>9, <2>1
  <1>10. CASE ~CanSplit(i, n)
    <2>1. region_pool_index < MaxRegions => vmm_regions[i].size = n
      BY <1>1, <1>4, <1>5, <1>10 DEF CanSplit
    <2>2. region_pool_index # MaxRegions => region_pool_index < MaxRegions
      BY <1>1, <1>2
    <2>3. QED
      BY <1>1, <1>2, <1>4, <1>5, <1>6, <1>7, <1>8, <1>10, <2>1, <2>2
  <1>11. QED
    BY <1>9, <1>10

LEMMA VmallocRegions ==
    ASSUME NoWrap, RegionsInv, NEW size \in Requests, Vmalloc(size)
    PROVE  /\ RegionsInv'
           /\ \E got \in RegionRec, a \in live' :
                /\ Held(vmm_regions') = Held(vmm_regions) \cup {got}
                /\ got.start + got.size <= HeapPages
                /\ \A r \in Held(vmm_regions) :
                     r.start + r.size <= got.start \/ got.start + got.size <= r.start
                /\ live' = live \cup {a} /\ a.page = got.start /\ a.bytes = size
  <1> DEFINE n == PagesFor(size)
             i == find_free_region(n)
             start == vmm_regions[i].start
             fit == Fit(i, n)
             a == [page |-> start, bytes |-> size]
             got == Region(start, fit[i].size, TRUE)
  <1>1. /\ i # 0
        /\ vmm_regions' = Marked(fit, i, TRUE)
        /\ region_pool_index' = PoolAfter(i, n)
        /\ live' = live \cup {a}
    BY DEF Vmalloc, Marked
  <1>2. /\ n \in Nat \ {0} /\ start \in Nat
        /\ Tiles(fit, HeapPages) /\ i \in 1 .. Len(fit)
        /\ Len(fit) <= PoolAfter(i, n)
        /\ PoolAfter(i, n) \in 1 .. MaxRegions
        /\ PoolAfter(i, n) = MaxRegions \/ region_pool_index # MaxRegions
        /\ Held(fit) = Held(vmm_regions)
        /\ ~fit[i].allocated /\ fit[i].start = start
        /\ fit[i].size >= n
        /\ PoolAfter(i, n) # MaxRegions => fit[i].size = n
    BY <1>1, FoundFits
  <1> HIDE DEF n, i, start, fit
  <1>3. /\ Tiles(vmm_regions', HeapPages) /\ Len(vmm_regions') = Len(fit)
        /\ Held(vmm_regions') = Held(fit) \cup {Region(fit[i].start, fit[i].size, TRUE)}
    BY <1>1, <1>2, MarkingUsed
  <1>4. /\ Held(vmm_regions') = Held(vmm_regions) \cup {got}
        /\ got.start = start /\ got.size = fit[i].size
    BY <1>2, <1>3 DEF Region
  <1>5. a.page = start /\ a.bytes = size
    OBVIOUS
  <1>6. fit[i].size \in Nat \ {0} /\ got \in RegionRec
    BY <1>2, TilesTyped DEF Region, RegionRec
  <1>7. \A r \in Held(vmm_regions) :
          r.start + r.size <= got.start \/ got.start + got.size <= r.start
    BY <1>2, <1>4, FreeApart
  <1>8. got.start + got.size <= HeapPages
    BY <1>2, <1>4, TilesInside
  <1>9. \A r \in Held(vmm_regions) : r.start \in Nat /\ r.size \in Nat \ {0}
    BY HeldFacts DEF RegionsInv
  <1>10. \A b \in live : b.page # start
    <2> SUFFICES ASSUME NEW b \in live, b.page = start PROVE FALSE
      OBVIOUS
    <2>1. PICK r \in Held(vmm_regions) : r.start = b.page
      BY DEF RegionsInv, HeldIsLive
    <2>2. r.start + r.size <= start \/ start + got.size <= r.start
      BY <1>4, <1>7
    <2>3. /\ r.start \in Nat /\ r.size \in Nat \ {0} /\ r.start = start
          /\ got.size \in Nat \ {0}
      BY <1>4, <1>6, <1>9, <2>1
    <2> HIDE DEF got
    <2>4. QED
      BY <2>2, <2>3
  <1> HIDE DEF a, got
  <1>11. HeldIsLive(Held(vmm_regions'), live', region_pool_index' = MaxRegions)
    <2>1. HeldIsLive(Held(vmm_regions), live, region_pool_index = MaxRegions)
      BY DEF RegionsInv
    <2>2. ASSUME NEW b \in live'
          PROVE  /\ b.bytes \in Requests
                 /\ \E r \in Held(vmm_regions') :
                      /\ r.start = b.page /\ r.size >= PagesFor(b.bytes)
                      /\ region_pool_index' # MaxRegions => r.size = PagesFor(b.bytes)
      <3>1. CASE b \in live
        <4>1. region_pool_index' # MaxRegions => region_pool_index # MaxRegions
          BY <1>1, <1>2
        <4>2. QED
          BY <1>4, <2>1, <3>1, <4>1 DEF HeldIsLive
      <3>2. CASE b = a
        <4>1. got \in Held(vmm_regions') /\ got.start = b.page
          BY <1>4, <1>5, <3>2
        <4>2. PagesFor(b.bytes) = n /\ b.bytes \in Requests
          BY <1>5, <3>2 DEF n
        <4>3. QED
          BY <1>1, <1>2, <1>4, <4>1, <4>2
      <3>3. QED
        BY <1>1, <3>1, <3>2
    <2>3. ASSUME NEW r \in Held(vmm_regions') PROVE \E b \in live' : b.page = r.start
      BY <1>1, <1>4, <1>5, <2>1 DEF HeldIsLive
    <2>4. ASSUME NEW b \in live', NEW c \in live', b.page = c.page PROVE b = c
      BY <1>1, <1>5, <1>10, <2>1, <2>4 DEF HeldIsLive
    <2>5. QED
      BY <2>2, <2>3, <2>4 DEF HeldIsLive
  <1>12. RegionsInv'
    BY <1>1, <1>2, <1>3, <1>11 DEF RegionsInv
  <1>13. a \in live'
    BY <1>1
  <1>14. QED
    BY <1>1, <1>4, <1>5, <1>6, <1>7, <1>8, <1>12, <1>13

LEMMA VfreeRegions ==
    ASSUME RegionsInv, NEW v, Vfree(v)
    PROVE  /\ RegionsInv'
           /\ \E r \in Held(vmm_regions), a \in live :
                /\ r = vmm_regions[find_region(v)] /\ r.start = v
                /\ Held(vmm_regions') = Held(vmm_regions) \ {r}
                /\ live' = live \ {a} /\ a.page = v
  <1> DEFINE i == find_region(v)
             r == vmm_regions[i]
             freed == Marked(vmm_regions, i, FALSE)
  <1>1. /\ i # 0 /\ vmm_regions' = Coalesce(freed)
        /\ \E a \in live : a.page = v /\ live' = live \ {a}
        /\ UNCHANGED region_pool_index
    BY DEF Vfree, Marked
  <1>2. PICK a \in live : a.page = v /\ live' = live \ {a}
    BY <1>1
  <1>3. /\ Tiles(vmm_regions, HeapPages)
        /\ region_pool_index \in 1 .. MaxRegions
        /\ Len(vmm_regions) <= region_pool_index
        /\ HeldIsLive(Held(vmm_regions), live, region_pool_index = MaxRegions)
    BY DEF RegionsInv
  <1>4. i \in 1 .. Len(vmm_regions) /\ r.allocated /\ r.start = v
    BY <1>1, <1>3, FoundRegion
  <1> HIDE DEF i, freed
  <1>5. /\ Tiles(freed, HeapPages) /\ Len(freed) = Len(vmm_regions)
        /\ Held(freed) = Held(vmm_regions) \ {r}
    BY <1>3, <1>4, MarkingFree DEF freed
  <1>6. /\ Tiles(vmm_regions', HeapPages) /\ Len(vmm_regions') <= Len(freed)
        /\ Held(vmm_regions') = Held(vmm_regions) \ {r}
    BY <1>1, <1>5, CoalesceTiles
  <1>7. r \in Held(vmm_regions)
    BY <1>3, <1>4, HeldFacts
  <1>8. \A s \in Held(vmm_regions) : s.start = v => s = r
    <2> SUFFICES ASSUME NEW s \in Held(vmm_regions), s.start = v, s # r
                 PROVE  FALSE
      OBVIOUS
    <2>1. s.start + s.size <= r.start \/ r.start + r.size <= s.start
      BY <1>3, <1>7, HeldFacts
    <2>2. /\ s.start \in Nat /\ s.size \in Nat \ {0}
          /\ r.start \in Nat /\ r.size \in Nat \ {0}
      BY <1>3, <1>7, HeldFacts
    <2>3. QED
      BY <1>4, <2>1, <2>2
  <1> HIDE DEF r
  <1>9. HeldIsLive(Held(vmm_regions'), live', region_pool_index' = MaxRegions)
    <2>1. ASSUME NEW b \in live'
          PROVE  /\ b.bytes \in Requests
                 /\ \E s \in Held(vmm_regions') :
                      /\ s.start = b.page /\ s.size >= PagesFor(b.bytes)
                      /\ region_pool_index' # MaxRegions => s.size = PagesFor(b.bytes)
      <3>1. b \in live /\ b.page # v
        BY <1>2, <1>3, <2>1 DEF HeldIsLive
      <3>2. PICK s \in Held(vmm_regions) :
              /\ s.start = b.page /\ s.size >= PagesFor(b.bytes)
              /\ region_pool_index # MaxRegions => s.size = PagesFor(b.bytes)
        BY <1>3, <3>1 DEF HeldIsLive
      <3>3. s \in Held(vmm_regions') /\ b.bytes \in Requests
        BY <1>3, <1>4, <1>6, <3>1, <3>2 DEF HeldIsLive
      <3>4. QED
        BY <1>1, <3>2, <3>3
    <2>2. ASSUME NEW s \in Held(vmm_regions') PROVE \E b \in live' : b.page = s.start
      <3>1. s \in Held(vmm_regions) /\ s.start # v
        BY <1>6, <1>8
      <3>2. PICK b \in live : b.page = s.start
        BY <1>3, <3>1 DEF HeldIsLive
      <3>3. QED
        BY <1>2, <3>1, <3>2
    <2>3. ASSUME NEW b \in live', NEW c \in live', b.page = c.page PROVE b = c
      BY <1>2, <1>3, <2>3 DEF HeldIsLive
    <2>4. QED
      BY <2>1, <2>2, <2>3 DEF HeldIsLive
  <1>10. Len(vmm_regions') <= region_pool_index'
    <2>1. Len(vmm_regions') \in Nat /\ Len(vmm_regions) \in Nat
      BY <1>3, <1>6, TilesTyped
    <2>2. region_pool_index' = region_pool_index /\ region_pool_index \in Int
      BY <1>1, <1>3
    <2>3. QED
      BY <1>3, <1>5, <1>6, <2>1, <2>2
  <1>11. RegionsInv'
    BY <1>1, <1>3, <1>6, <1>9, <1>10 DEF RegionsInv
  <1>12. QED
    BY <1>2, <1>4, <1>6, <1>7, <1>11 DEF r, i

----------------------------------------------------------------------------
(* What the steps do to the page tables *)

LEMMA PageUpBounds ==
    ASSUME NEW a \in Nat
    PROVE  /\ PageUp(a) \in Nat /\ a <= PageUp(a) * PageSize
           /\ \A p \in Nat : a <= p * PageSize => PageUp(a) <= p
  <1> DEFINE b == a + PageSize - 1
             q == b \div PageSize
  <1>1. PageSize \in Nat \ {0} /\ b \in Nat
    BY Constants
  <1>2. q \in Nat /\ q * PageSize <= b /\ b < (q + 1) * PageSize
    BY <1>1, DivBounds
  <1>3. PageUp(a) = q /\ b = a + PageSize - 1
    BY DEF PageUp
  <1> HIDE DEF q, b
  <1>4. (q + 1) * PageSize = q * PageSize + PageSize /\ q * PageSize \in Int
    BY <1>1, <1>2
  <1>5. a <= q * PageSize
    BY <1>1, <1>2, <1>3, <1>4
  <1>6. ASSUME NEW p \in Nat, a <= p * PageSize PROVE q <= p
    <2>1. p + 1 <= q => (p + 1) * PageSize <= q * PageSize
      BY <1>1, <1>2, TimesMonotonic
    <2>2. (p + 1) * PageSize = p * PageSize + PageSize /\ p * PageSize \in Int
      BY <1>1
    <2>3. ~(p + 1 <= q)
      BY <1>1, <1>2, <1>3, <1>4, <1>6, <2>1, <2>2
    <2>4. QED
      BY <1>2, <2>3
  <1>7. QED
    BY <1>2, <1>3, <1>5, <1>6

\* The pages between two breaks.
LEMMA BreakPages ==
    ASSUME NEW low \in Nat, NEW high \in 0 .. HeapPages * PageSize, low <= high
    PROVE  /\ PageUp(low) \in Nat /\ PageUp(high) - PageUp(low) \in Nat
           /\ PageUp(low) <= PageUp(high) /\ PageUp(high) <= HeapPages
           /\ Pages(PageUp(low), PageUp(high) - PageUp(low))
                = PageUp(low) .. PageUp(high) - 1
           /\ Pages(PageUp(low), PageUp(high) - PageUp(low))
                \subseteq 0 .. HeapPages - 1
  <1>1. HeapPages \in Nat /\ PageSize \in Nat /\ high \in Nat
        /\ high <= HeapPages * PageSize /\ HeapPages * PageSize \in Int
    BY Constants
  <1>2. PageUp(low) \in Nat /\ PageUp(high) \in Nat
    BY <1>1, PageUpBounds
  <1>3. PageUp(high) <= HeapPages
    BY <1>1, PageUpBounds
  <1>4. PageUp(low) <= PageUp(high)
    <2>1. high <= PageUp(high) * PageSize /\ PageUp(high) * PageSize \in Int
      BY <1>1, <1>2, PageUpBounds
    <2>2. low <= PageUp(high) * PageSize
      BY <1>1, <2>1
    <2>3. QED
      BY <1>2, <2>2, PageUpBounds
  <1>5. QED
    BY <1>1, <1>2, <1>3, <1>4 DEF Pages

\* A call that maps pages start .. start + m - 1, of the n that it was to map.
Backs(start, n, m, map, dir, handed) ==
    /\ Backing(map, dir, Taken(start, n, m), Pages(start, m),
               NewTables(start, n, m))
    /\ handed = out \cup Taken(start, n, m)
    /\ Pages(start, m) \subseteq 0 .. HeapPages - 1

LEMMA BackBacks ==
    ASSUME NEW start \in Nat, NEW n \in Nat, NEW m, Enough(start, n, m),
           Pages(start, n) \subseteq 0 .. HeapPages - 1
    PROVE  Backs(start, n, m, Mapped(start, n, m), Tabled(start, n, m),
                 out \cup Taken(start, n, m))
  <1>1. Pages(start, m) \subseteq Pages(start, n)
    BY PagesPrefix DEF Enough
  <1>2. QED
    BY <1>1, BackMaps DEF Backs

LEMMA BacksExclusive ==
    ASSUME FramesInv, NEW start, NEW n, NEW m, NEW map, NEW dir, NEW handed,
           Backs(start, n, m, map, dir, handed)
    PROVE  Exclusive(map, dir, handed, others)
  BY BackingKeepsExclusive DEF Backs, FramesInv

LEMMA VmallocFrames ==
    ASSUME NoWrap, IInv, NEW size \in Requests, Vmalloc(size)
    PROVE  LET n == PagesFor(size)
               start == vmm_regions[find_free_region(n)].start
           IN  /\ Backs(start, n, n, pte', page_directory', out')
               /\ FramesInv'
  <1> DEFINE n == PagesFor(size)
             i == find_free_region(n)
             start == vmm_regions[i].start
  <1>1. /\ i # 0 /\ Needed(start, n) <= Supply
        /\ pte' = Mapped(start, n, n)
        /\ page_directory' = Tabled(start, n, n)
        /\ out' = out \cup Taken(start, n, n)
        /\ others' = others
    BY DEF Vmalloc, Back
  <1>2. n \in Nat /\ start \in Nat /\ start + n <= HeapPages
    BY <1>1, FoundFits DEF IInv
  <1> HIDE DEF n, i, start
  <1>3. Enough(start, n, n)
    BY <1>1, <1>2, EnoughForAll
  <1>4. Pages(start, n) \subseteq 0 .. HeapPages - 1
    BY <1>2, Constants DEF Pages
  <1>5. Backs(start, n, n, pte', page_directory', out')
    BY <1>1, <1>2, <1>3, <1>4, BackBacks
  <1>6. FramesInv'
    BY <1>1, <1>5, BacksExclusive DEF FramesInv, IInv
  <1>7. QED
    BY <1>5, <1>6 DEF n, i, start

\* A rollback leaves the page tables that the call made, and nothing else.
LEMMA RollbackFrames ==
    ASSUME NoWrap, IInv, NEW size \in Requests, VmallocRollsBack(size)
    PROVE  /\ FramesInv'
           /\ \E fresh, map, taken, made :
                /\ fresh \in SUBSET (0 .. HeapPages - 1)
                /\ Backing(map, page_directory', taken, fresh, made)
                /\ fresh \subseteq Pages(vmm_regions[find_free_region(PagesFor(size))].start,
                                         PagesFor(size))
                /\ pte' = [w \in DOMAIN map \ fresh |-> map[w]]
                /\ out' = (out \cup taken) \ {map[w] : w \in fresh}
                /\ lost' = lost \cup {pte[w] : w \in DOMAIN pte \cap fresh}
  <1> DEFINE n == PagesFor(size)
             i == find_free_region(n)
             start == vmm_regions[i].start
  <1>1. /\ i # 0 /\ others' = others
        /\ \E v \in Pages(start, n) :
             /\ RunsOutAt(start, n, v)
             /\ pte' = [w \in DOMAIN Mapped(start, n, v - start) \ Undone(start, v)
                          |-> Mapped(start, n, v - start)[w]]
             /\ page_directory' = Tabled(start, n, v - start)
             /\ out' = (out \cup Taken(start, n, v - start))
                         \ {Mapped(start, n, v - start)[w] : w \in Undone(start, v)}
             /\ lost' = lost \cup Overmapped(start, v - start)
    BY DEF VmallocRollsBack
  <1>2. n \in Nat /\ start \in Nat /\ start + n <= HeapPages
    BY <1>1, FoundFits DEF IInv
  <1> HIDE DEF n, i, start
  <1>3. PICK v \in Pages(start, n) :
          /\ RunsOutAt(start, n, v)
          /\ pte' = [w \in DOMAIN Mapped(start, n, v - start) \ Undone(start, v)
                       |-> Mapped(start, n, v - start)[w]]
          /\ page_directory' = Tabled(start, n, v - start)
          /\ out' = (out \cup Taken(start, n, v - start))
                      \ {Mapped(start, n, v - start)[w] : w \in Undone(start, v)}
          /\ lost' = lost \cup Overmapped(start, v - start)
    BY <1>1
  <1> DEFINE m == v - start
             map == Mapped(start, n, m)
             taken == Taken(start, n, m)
             fresh == Pages(start, m)
  <1>4. Enough(start, n, m) /\ fresh = Undone(start, v)
    BY <1>2, <1>3, EnoughUntil DEF Undone
  <1>5. Pages(start, n) \subseteq 0 .. HeapPages - 1
    BY <1>2, Constants DEF Pages
  <1>6. Backs(start, n, m, map, page_directory', out \cup taken)
    BY <1>2, <1>3, <1>4, <1>5, BackBacks
  <1>7. /\ pte' = [w \in DOMAIN map \ fresh |-> map[w]]
        /\ out' = (out \cup taken) \ {map[w] : w \in fresh}
        /\ lost' = lost \cup {pte[w] : w \in DOMAIN pte \cap fresh}
    BY <1>3, <1>4 DEF Overmapped
  <1> HIDE DEF m, map, taken, fresh
  <1>8. Exclusive(map, page_directory', out \cup taken, others)
    BY <1>6, BacksExclusive DEF IInv
  <1>9. /\ Backing(map, page_directory', taken, fresh, NewTables(start, n, m))
        /\ fresh \subseteq 0 .. HeapPages - 1
    BY <1>6 DEF Backs, taken, fresh
  <1>10. fresh \subseteq DOMAIN map
    BY <1>9 DEF Backing
  <1>11. Exclusive(pte', page_directory', out', others)
    BY <1>7, <1>8, <1>10, RemovingKeepsExclusive
  <1>12. FramesInv'
    BY <1>1, <1>11 DEF FramesInv
  <1>13. fresh \subseteq Pages(start, n)
    BY <1>2, <1>4, PagesPrefix DEF Enough, fresh
  <1>14. QED
    BY <1>7, <1>9, <1>12, <1>13 DEF n, i, start

LEMMA UnbackFrames ==
    ASSUME FramesInv, NEW start, NEW n, Unback(start, n), others' = others
    PROVE  /\ FramesInv' /\ page_directory' = page_directory
           /\ DOMAIN pte' = DOMAIN pte \ Pages(start, n)
           /\ \A v \in DOMAIN pte' : v \in DOMAIN pte /\ pte'[v] = pte[v]
           /\ out' = out \ {pte[v] : v \in Backed(start, n)}
  <1>1. /\ pte' = [v \in DOMAIN pte \ Backed(start, n) |-> pte[v]]
        /\ out' = out \ {pte[v] : v \in Backed(start, n)}
        /\ page_directory' = page_directory
    BY DEF Unback
  <1>2. Backed(start, n) \in SUBSET DOMAIN pte
    BY DEF Backed
  <1>3. Exclusive(pte', page_directory, out', others)
    BY <1>1, <1>2, RemovingKeepsExclusive DEF FramesInv
  <1>4. QED
    BY <1>1, <1>3 DEF FramesInv, Backed

\* Growing the break maps pages above the old one, all of them if it succeeds.
LEMMA GrowingFrames ==
    ASSUME IInv, NEW increment \in Increments,
           VbrkGrows(increment) \/ VbrkFails(increment)
    PROVE  LET start == PageUp(vmm_heap_current)
               n == PageUp(vmm_heap_current + increment) - start
           IN  /\ vmm_heap_current + increment \in 0 .. HeapPages * PageSize
               /\ vmm_heap_current <= vmm_heap_current + increment
               /\ \E m \in Nat :
                    /\ Backs(start, n, m, pte', page_directory', out')
                    /\ lost' = lost \cup Overmapped(start, m)
                    /\ \/ /\ m = n /\ stranded' = stranded \ Pages(start, n)
                          /\ vmm_heap_current' = vmm_heap_current + increment
                       \/ /\ stranded' = stranded \cup Pages(start, m)
                          /\ vmm_heap_current' = vmm_heap_current
               /\ FramesInv'
  <1> DEFINE new == vmm_heap_current + increment
             start == PageUp(vmm_heap_current)
             n == PageUp(new) - start
  <1>1. /\ increment > 0 /\ new <= HeapPages * PageSize /\ others' = others
        /\ VbrkGrows(increment) =>
             /\ Needed(start, n) <= Supply /\ Back(start, n, n)
             /\ stranded' = stranded \ Pages(start, n)
             /\ vmm_heap_current' = new
        /\ VbrkFails(increment) =>
             /\ \E v \in Pages(start, n) :
                  /\ RunsOutAt(start, n, v)
                  /\ Back(start, n, v - start)
                  /\ stranded' = stranded \cup Pages(start, v - start)
             /\ vmm_heap_current' = vmm_heap_current
    BY DEF VbrkGrows, VbrkFails
  <1>2. /\ vmm_heap_current \in Nat /\ vmm_heap_current <= HeapPages * PageSize
        /\ increment \in Int
    BY Constants DEF IInv, StateInv
  <1>3. new \in 0 .. HeapPages * PageSize /\ vmm_heap_current <= new
    BY <1>1, <1>2, Constants
  <1>4. /\ start \in Nat /\ n \in Nat
        /\ Pages(start, n) \subseteq 0 .. HeapPages - 1
    BY <1>2, <1>3, BreakPages
  <1> HIDE DEF start, n
  <1> DEFINE moves(m) == \/ /\ m = n /\ stranded' = stranded \ Pages(start, n)
                            /\ vmm_heap_current' = new
                         \/ /\ stranded' = stranded \cup Pages(start, m)
                            /\ vmm_heap_current' = vmm_heap_current
  <1>5. \E m \in Nat : Enough(start, n, m) /\ Back(start, n, m) /\ moves(m)
    <2>1. CASE VbrkGrows(increment)
      BY <1>1, <1>4, <2>1, EnoughForAll
    <2>2. CASE VbrkFails(increment)
      <3>1. PICK v \in Pages(start, n) :
              /\ RunsOutAt(start, n, v) /\ Back(start, n, v - start)
              /\ stranded' = stranded \cup Pages(start, v - start)
        BY <1>1, <2>2
      <3>2. Enough(start, n, v - start) /\ v - start \in Nat
        BY <1>4, <3>1, EnoughUntil
      <3>3. QED
        BY <1>1, <2>2, <3>1, <3>2
    <2>3. QED
      BY <2>1, <2>2
  <1>6. PICK m \in Nat : Enough(start, n, m) /\ Back(start, n, m) /\ moves(m)
    BY <1>5
  <1>7. /\ Backs(start, n, m, pte', page_directory', out')
        /\ lost' = lost \cup Overmapped(start, m)
    BY <1>4, <1>6, BackBacks DEF Back
  <1>8. FramesInv'
    BY <1>1, <1>7, BacksExclusive DEF FramesInv, IInv
  <1>9. QED
    BY <1>3, <1>6, <1>7, <1>8 DEF start, n

LEMMA OtherFrames ==
    ASSUME FramesInv, OtherTakes \/ \E f \in others : OtherReturns(f)
    PROVE  /\ FramesInv' /\ UNCHANGED <<pte, page_directory>>
           /\ out' \cap others' = others' /\ out' \ others' = out \ others
  <1>1. pte' = pte /\ page_directory' = page_directory
    BY DEF OtherTakes, OtherReturns
  <1>2. CASE OtherTakes
    <2>1. /\ Supply > 0
          /\ out' = out \cup {NthFree(0)} /\ others' = others \cup {NthFree(0)}
      BY <1>2 DEF OtherTakes
    <2>2. NthFree(0) \in Frames \ out
      <3>1. 0 \in 0 .. Supply - 1
        BY <2>1, FreeFinite
      <3>2. QED
        BY <3>1, NthFreeIsFree DEF Free
    <2> DEFINE f == NthFree(0)
    <2> HIDE DEF f
    <2>3. Exclusive(pte, page_directory, out \cup {f}, others \cup {f})
      BY <2>2 DEF FramesInv, Exclusive, f
    <2>4. QED
      BY <1>1, <2>1, <2>2, <2>3 DEF FramesInv, Exclusive, f
  <1>3. CASE \E f \in others : OtherReturns(f)
    <2>1. PICK f \in others : OtherReturns(f)
      BY <1>3
    <2>2. out' = out \ {f} /\ others' = others \ {f}
      BY <2>1 DEF OtherReturns
    <2>3. Exclusive(pte, page_directory, out \ {f}, others \ {f})
      BY DEF FramesInv, Exclusive
    <2>4. QED
      BY <1>1, <2>2, <2>3 DEF FramesInv, Exclusive
  <1>4. QED
    BY <1>2, <1>3

----------------------------------------------------------------------------
(* The invariant is inductive *)

LEMMA OneRegion ==
    ASSUME NEW r \in RegionRec, r.start = 0, ~r.allocated
    PROVE  Tiles(<<r>>, r.size) /\ Len(<<r>>) = 1 /\ Held(<<r>>) = {}
  <1>1. <<r>> \in Seq(RegionRec) /\ Len(<<r>>) = 1 /\ <<r>>[1] = r
    OBVIOUS
  <1> DEFINE rs == <<r>>
  <1> HIDE DEF rs
  <1>2. rs \in Seq(RegionRec) /\ Len(rs) = 1 /\ rs[1] = r
    BY <1>1 DEF rs
  <1>3. r.size \in Nat
    BY DEF RegionRec
  <1>4. Tiles(rs, r.size)
    BY <1>2, <1>3 DEF Tiles
  <1>5. Held(rs) = {rs[i] : i \in {k \in 1 .. Len(rs) : rs[k].allocated}}
    BY <1>4, HeldFacts
  <1>6. QED
    BY <1>2, <1>4, <1>5 DEF rs

\* The initial state, one free region and nothing mapped, satisfies it.
LEMMA InitIInv ==
    ASSUME Init
    PROVE  IInv
  <1>1. Region(0, HeapPages, FALSE) \in RegionRec
    BY Constants DEF Region, RegionRec
  <1>2. /\ vmm_regions = <<Region(0, HeapPages, FALSE)>>
        /\ region_pool_index = 1 /\ live = {}
    BY DEF Init
  <1>3. RegionsInv
    <2> DEFINE r == Region(0, HeapPages, FALSE)
    <2>1. r.start = 0 /\ r.size = HeapPages /\ ~r.allocated
      BY DEF Region
    <2> HIDE DEF r
    <2>2. /\ Tiles(vmm_regions, HeapPages) /\ Len(vmm_regions) = 1
          /\ Held(vmm_regions) = {}
      BY <1>1, <1>2, <2>1, OneRegion DEF r
    <2>3. HeldIsLive(Held(vmm_regions), live, region_pool_index = MaxRegions)
      BY <1>2, <2>2 DEF HeldIsLive
    <2>4. 1 \in 1 .. MaxRegions
      BY Constants
    <2>5. region_pool_index \in 1 .. MaxRegions
      BY <1>2, <2>4
    <2>6. Len(vmm_regions) <= region_pool_index
      BY <1>2, <2>2
    <2>7. QED
      BY <2>2, <2>3, <2>5, <2>6 DEF RegionsInv
  <1>4. StateInv
    <2>1. HeapPages * PageSize \in Nat
      BY Constants
    <2>2. QED
      BY <2>1 DEF StateInv, Init
  <1>5. FramesInv
    BY DEF FramesInv, Exclusive, Init
  <1>6. QED
    BY <1>3, <1>4, <1>5 DEF IInv

\* Every step keeps it, whatever the interfaces in use.
LEMMA NextIInv ==
    ASSUME NoWrap, IInv, [Next]_vars
    PROVE  IInv'
  <1>1. CASE UNCHANGED vars
    BY <1>1 DEF IInv, RegionsInv, StateInv, FramesInv, vars
  <1>2. ASSUME Next PROVE IInv'
    <2>0. api' = api
      BY <1>2 DEF Next
    <2>1. ASSUME NEW size \in Requests, Vmalloc(size) PROVE IInv'
      BY <2>0, <2>1, VmallocRegions, VmallocFrames
        DEF IInv, StateInv, Vmalloc
    <2>2. ASSUME NEW size \in Requests, VmallocNoRegion(size) PROVE IInv'
      BY <2>0, <2>2
        DEF IInv, RegionsInv, StateInv, FramesInv, VmallocNoRegion, mapVars
    <2>3. ASSUME NEW size \in Requests, VmallocRollsBack(size) PROVE IInv'
      <3> DEFINE n == PagesFor(size)
                 i == find_free_region(n)
      <3>1. /\ i # 0 /\ vmm_regions' = Fit(i, n)
            /\ region_pool_index' = PoolAfter(i, n)
            /\ UNCHANGED <<vmm_heap_current, kernel, live>>
        BY <2>3 DEF VmallocRollsBack
      <3>2. /\ Tiles(Fit(i, n), HeapPages) /\ Len(Fit(i, n)) <= PoolAfter(i, n)
            /\ PoolAfter(i, n) \in 1 .. MaxRegions
            /\ PoolAfter(i, n) = MaxRegions \/ region_pool_index # MaxRegions
            /\ Held(Fit(i, n)) = Held(vmm_regions)
        BY <3>1, FoundFits DEF IInv
      <3> HIDE DEF n, i
      <3>3. HeldIsLive(Held(vmm_regions'), live', region_pool_index' = MaxRegions)
        <4>1. HeldIsLive(Held(vmm_regions), live, region_pool_index = MaxRegions)
          BY DEF IInv, RegionsInv
        <4>2. region_pool_index' # MaxRegions => region_pool_index # MaxRegions
          BY <3>1, <3>2
        <4>3. Held(vmm_regions') = Held(vmm_regions) /\ live' = live
          BY <3>1, <3>2
        <4>4. QED
          BY <4>1, <4>2, <4>3 DEF HeldIsLive
      <3>4. RegionsInv'
        BY <3>1, <3>2, <3>3 DEF RegionsInv
      <3>5. FramesInv'
        BY <2>3, RollbackFrames
      <3>6. QED
        BY <2>0, <3>1, <3>4, <3>5 DEF IInv, StateInv
    <2>4. ASSUME NEW size \in Requests, VmallocPanics(size) PROVE IInv'
      BY <2>0, <2>4
        DEF IInv, RegionsInv, StateInv, FramesInv, VmallocPanics, mapVars
    <2>5. ASSUME NEW v, Vfree(v) PROVE IInv'
      <3>1. RegionsInv'
        BY <2>5, VfreeRegions DEF IInv
      <3>2. FramesInv'
        BY <2>5, UnbackFrames DEF IInv, Vfree
      <3>3. QED
        BY <2>0, <2>5, <3>1, <3>2 DEF IInv, StateInv, Vfree
    <2>6. ASSUME NEW v, VfreeInvalid(v) PROVE IInv'
      BY <2>0, <2>6
        DEF IInv, RegionsInv, StateInv, FramesInv, VfreeInvalid, mapVars
    <2>7. ASSUME NEW increment \in Increments,
                 VbrkGrows(increment) \/ VbrkFails(increment)
          PROVE  IInv'
      <3>1. FramesInv' /\ vmm_heap_current + increment \in 0 .. HeapPages * PageSize
        BY <2>7, GrowingFrames
      <3>2. /\ vmm_heap_current' \in {vmm_heap_current, vmm_heap_current + increment}
            /\ UNCHANGED <<vmm_regions, region_pool_index, kernel, live>>
        BY <2>7 DEF VbrkGrows, VbrkFails
      <3>3. QED
        BY <2>0, <3>1, <3>2 DEF IInv, RegionsInv, StateInv
    <2>8. ASSUME NEW increment \in Increments, VbrkPanics(increment) PROVE IInv'
      BY <2>0, <2>8
        DEF IInv, RegionsInv, StateInv, FramesInv, VbrkPanics, mapVars
    <2>9. ASSUME NEW increment \in Increments, VbrkShrinks(increment) PROVE IInv'
      <3>1. FramesInv'
        BY <2>9, UnbackFrames DEF IInv, VbrkShrinks
      <3>2. vmm_heap_current' \in 0 .. HeapPages * PageSize
        <4>1. /\ vmm_heap_current' = vmm_heap_current + increment
              /\ increment < 0 /\ vmm_heap_current + increment >= 0
          BY <2>9 DEF VbrkShrinks
        <4>2. HeapPages * PageSize \in Nat /\ increment \in Int
          BY Constants
        <4>3. QED
          BY <4>1, <4>2 DEF IInv, StateInv
      <3>3. QED
        BY <2>0, <2>9, <3>1, <3>2 DEF IInv, RegionsInv, StateInv, VbrkShrinks
    <2>10. ASSUME NEW increment \in Increments, VbrkOutOfBounds(increment)
           PROVE  IInv'
      BY <2>0, <2>10
        DEF IInv, RegionsInv, StateInv, FramesInv, VbrkOutOfBounds, mapVars
    <2>11. ASSUME OtherTakes \/ \E f \in others : OtherReturns(f) PROVE IInv'
      <3>1. FramesInv'
        BY <2>11, OtherFrames DEF IInv
      <3>2. UNCHANGED allocVars /\ UNCHANGED kernel
        BY <2>11 DEF OtherTakes, OtherReturns
      <3>3. QED
        BY <2>0, <3>1, <3>2 DEF IInv, RegionsInv, StateInv, allocVars
    <2>12. QED
      BY <1>2, <2>1, <2>2, <2>3, <2>4, <2>5, <2>6, <2>7, <2>8, <2>9, <2>10, <2>11
        DEF Next, UseVmalloc, UseVbrk
  <1>3. QED
    BY <1>1, <1>2

LEMMA InvariantHolds ==
    ASSUME NoWrap
    PROVE  Spec => []IInv
  <1>1. Init => IInv
    BY InitIInv
  <1>2. IInv /\ [Next]_vars => IInv'
    BY NextIInv
  <1>3. QED
    BY <1>1, <1>2, PTL DEF Spec

----------------------------------------------------------------------------
(* Theorems about the region list and the page tables, whatever the        *)
(* interfaces in use                                                       *)

LEMMA RegionsFromIInv ==
    ASSUME NoWrap, IInv
    PROVE  RegionsSound
  <1>1. /\ Tiles(vmm_regions, HeapPages)
        /\ region_pool_index \in 1 .. MaxRegions
        /\ Len(vmm_regions) <= region_pool_index
        /\ HeldIsLive(Held(vmm_regions), live, region_pool_index = MaxRegions)
    BY DEF IInv, RegionsInv
  <1>2. /\ HeapPages \in Nat \ {0} /\ Len(vmm_regions) \in Nat
        /\ DOMAIN vmm_regions = 1 .. Len(vmm_regions)
    BY <1>1, TilesTyped, Constants
  <1>3. TypeOK
    <2>1. ASSUME NEW j \in 1 .. Len(vmm_regions)
          PROVE  vmm_regions[j] \in [start : 0 .. HeapPages, size : 0 .. HeapPages,
                                     allocated : BOOLEAN]
      <3>1. vmm_regions[j] \in RegionRec
        BY <1>1, TilesTyped
      <3>2. vmm_regions[j].start + vmm_regions[j].size <= HeapPages
        BY <1>1, TilesInside
      <3>3. /\ vmm_regions[j].start \in 0 .. HeapPages
            /\ vmm_regions[j].size \in 0 .. HeapPages
        BY <1>2, <3>1, <3>2 DEF RegionRec
      <3>4. QED
        BY <3>1, <3>3 DEF RegionRec
    <2>2. Range(pte) \cup Range(page_directory) \subseteq Frames
      BY DEF IInv, FramesInv, Exclusive, Range
    <2>3. out \subseteq Frames /\ others \subseteq Frames
      BY DEF IInv, FramesInv, Exclusive
    <2>4. /\ DOMAIN page_directory \subseteq 0 .. Slot(HeapPages - 1)
          /\ DOMAIN pte \subseteq 0 .. HeapPages - 1
      BY DEF IInv, FramesInv, Exclusive
    <2>5. /\ vmm_heap_current \in 0 .. HeapPages * PageSize
          /\ kernel \in {"running", "PANIC"} /\ api \in APIs
      BY DEF IInv, StateInv
    <2>6. QED
      BY <1>1, <1>2, <2>1, <2>2, <2>3, <2>4, <2>5 DEF TypeOK
  <1>4. RegionsTile
    BY <1>1, <1>2 DEF RegionsTile, Tiles
  <1>5. RegionsAreLive
    <2>1. {r.start : r \in Held(vmm_regions)} = {a.page : a \in live}
      BY <1>1 DEF HeldIsLive
    <2>2. ASSUME NEW a \in live PROVE Vsize(a.page) >= PagesFor(a.bytes)
      <3>1. PICK r \in Held(vmm_regions) : r.start = a.page /\ r.size >= PagesFor(a.bytes)
        BY <1>1 DEF HeldIsLive
      <3>2. Vsize(r.start) = r.size
        BY <1>1, VsizeOfHeld
      <3>3. QED
        BY <3>1, <3>2
    <2>3. QED
      BY <2>1, <2>2 DEF RegionsAreLive, Held
  <1>6. SizeUnlessExhausted
    <2> SUFFICES ASSUME region_pool_index < MaxRegions, NEW a \in live
                 PROVE  Vsize(a.page) = PagesFor(a.bytes)
      BY DEF SizeUnlessExhausted
    <2>1. region_pool_index # MaxRegions
      BY <1>1, Constants
    <2>2. PICK r \in Held(vmm_regions) : r.start = a.page /\ r.size = PagesFor(a.bytes)
      BY <1>1, <2>1 DEF HeldIsLive
    <2>3. Vsize(r.start) = r.size
      BY <1>1, VsizeOfHeld
    <2>4. QED
      BY <2>2, <2>3
  <1>7. QED
    BY <1>3, <1>4, <1>5, <1>6 DEF RegionsSound

\* The region list tiles the address range and describes every live
\* allocation, through every split, merge and rollback.
THEOREM RegionListIsSound == ASSUME NoWrap PROVE Spec => []RegionsSound
  <1>1. Spec => []IInv
    BY InvariantHolds
  <1>2. IInv => RegionsSound
    BY RegionsFromIInv
  <1>3. QED
    BY <1>1, <1>2, PTL

\* A live allocation is never smaller than what was asked for: it can be only
\* if rounding the size up wraps around, which a run shows.
THEOREM AllocationsServedInFull == ASSUME NoWrap PROVE Spec => []ServedInFull
  <1>1. ASSUME IInv PROVE ServedInFull
    <2> SUFFICES ASSUME NEW a \in live PROVE Vsize(a.page) >= PageUp(a.bytes)
      BY DEF ServedInFull
    <2>1. Vsize(a.page) >= PagesFor(a.bytes)
      BY <1>1, RegionsFromIInv DEF RegionsSound, RegionsAreLive
    <2>2. a.bytes \in Requests
      BY <1>1 DEF IInv, RegionsInv, HeldIsLive
    <2>3. QED
      BY <2>1, <2>2, PagesForExact
  <1>2. Spec => []IInv
    BY InvariantHolds
  <1>3. QED
    BY <1>1, <1>2, PTL

\* No two pages share a frame, and none is shared with a page table or with
\* other code, even when vmalloc and vbrk map the same pages.
THEOREM FramesAreExclusive == ASSUME NoWrap PROVE Spec => []FramesExclusive
  <1>1. IInv => FramesExclusive
    <2> SUFFICES ASSUME FramesInv PROVE FramesExclusive
      BY DEF IInv
    <2>1. IsInjective(pte) /\ IsInjective(page_directory)
      BY DEF FramesInv, Exclusive, IsInjective
    <2>2. Range(pte) \cap Range(page_directory) = {}
      BY DEF FramesInv, Exclusive, Range
    <2>3. (Range(pte) \cup Range(page_directory)) \cap others = {}
      BY DEF FramesInv, Exclusive, Range
    <2>4. Range(pte) \cup Range(page_directory) \subseteq out
      BY DEF FramesInv, Exclusive, Range
    <2>5. QED
      BY <2>1, <2>2, <2>3, <2>4 DEF FramesExclusive
  <1>2. Spec => []IInv
    BY InvariantHolds
  <1>3. QED
    BY <1>1, <1>2, PTL

----------------------------------------------------------------------------
(* The refinement: the regions in use behave like those of AbstractAlloc   *)

RangeOf(r) == [lo |-> r.start, hi |-> r.start + r.size]

LEMMA RangesOfHeld == Ranges = {RangeOf(r) : r \in Held(vmm_regions)}
  BY DEF Ranges, Held, RangeOf

\* Two regions in use are two ranges.
LEMMA RangeOfInjective ==
    ASSUME RegionsInv, NEW r \in Held(vmm_regions), NEW s \in Held(vmm_regions),
           RangeOf(r) = RangeOf(s)
    PROVE  r = s
  <1>1. r.start = s.start
    BY DEF RangeOf
  <1>2. /\ r.start \in Nat /\ r.size \in Nat \ {0}
        /\ s.start \in Nat /\ s.size \in Nat \ {0}
    BY HeldFacts DEF RegionsInv
  <1>3. r # s => r.start + r.size <= s.start \/ s.start + s.size <= r.start
    BY HeldFacts DEF RegionsInv
  <1>4. QED
    BY <1>1, <1>2, <1>3

LEMMA VmallocIsAlloc ==
    ASSUME NoWrap, IInv, NEW size \in Requests, Vmalloc(size)
    PROVE  Abstract!Next
  <1>1. PICK got \in RegionRec, a \in live' :
          /\ Held(vmm_regions') = Held(vmm_regions) \cup {got}
          /\ got.start + got.size <= HeapPages
          /\ \A r \in Held(vmm_regions) :
               r.start + r.size <= got.start \/ got.start + got.size <= r.start
    BY VmallocRegions DEF IInv
  <1> DEFINE new == RangeOf(got)
  <1>2. Ranges' = Ranges \cup {new}
    <2>1. Ranges' = {RangeOf(r) : r \in Held(vmm_regions')}
      BY RangesOfHeld DEF Ranges, Held, RangeOf
    <2>2. QED
      BY <1>1, <2>1, RangesOfHeld
  <1>3. got.start \in Nat /\ got.size \in Nat \ {0}
    BY DEF RegionRec
  <1>4. /\ new.lo = got.start /\ new.hi = got.start + got.size
        /\ 0 <= new.lo /\ new.lo <= new.hi /\ new.hi <= HeapPages
    BY <1>1, <1>3 DEF RangeOf
  <1>5. \A s \in Ranges : Abstract!Disjoint(new, s)
    <2> SUFFICES ASSUME NEW r \in Held(vmm_regions)
                 PROVE  Abstract!Disjoint(new, RangeOf(r))
      BY RangesOfHeld
    <2>1. RangeOf(r).lo = r.start /\ RangeOf(r).hi = r.start + r.size
      BY DEF RangeOf
    <2>2. QED
      BY <1>1, <1>4, <2>1 DEF Abstract!Disjoint
  <1>6. new \notin Ranges
    <2> SUFFICES ASSUME NEW r \in Held(vmm_regions), new = RangeOf(r) PROVE FALSE
      BY RangesOfHeld
    <2>1. got.start = r.start
      BY DEF RangeOf
    <2>2. r.start \in Nat /\ r.size \in Nat \ {0}
      BY HeldFacts DEF IInv, RegionsInv
    <2>3. r.start + r.size <= got.start \/ got.start + got.size <= r.start
      BY <1>1
    <2>4. QED
      BY <1>3, <2>1, <2>2, <2>3
  <1>7. kernel = "running" /\ kernel' = kernel
    BY DEF Vmalloc
  <1> HIDE DEF new
  <1>8. Abstract!Alloc(new)
    BY <1>2, <1>4, <1>5, <1>7 DEF Abstract!Alloc
  <1>9. new \in Ranges' \ Ranges
    BY <1>2, <1>6
  <1>10. QED
    BY <1>8, <1>9 DEF Abstract!Next

LEMMA VfreeIsRelease ==
    ASSUME IInv, NEW v, Vfree(v)
    PROVE  Abstract!Next
  <1>1. PICK r \in Held(vmm_regions) : Held(vmm_regions') = Held(vmm_regions) \ {r}
    BY VfreeRegions DEF IInv
  <1>2. Ranges' = {RangeOf(s) : s \in Held(vmm_regions')}
    BY RangesOfHeld DEF Ranges, Held, RangeOf
  <1>3. Ranges' = Ranges \ {RangeOf(r)}
    <2>1. \A s \in Held(vmm_regions) : RangeOf(s) = RangeOf(r) => s = r
      BY RangeOfInjective DEF IInv
    <2>2. QED
      BY <1>1, <1>2, <2>1, RangesOfHeld
  <1>4. RangeOf(r) \in Ranges
    BY RangesOfHeld
  <1>5. kernel = "running" /\ kernel' = kernel
    BY DEF Vfree
  <1>6. Abstract!Release(RangeOf(r))
    BY <1>3, <1>5 DEF Abstract!Release
  <1>7. QED
    BY <1>4, <1>6 DEF Abstract!Next

LEMMA RollbackStutters ==
    ASSUME NoWrap, IInv, NEW size \in Requests, VmallocRollsBack(size)
    PROVE  Ranges' = Ranges /\ kernel' = kernel
  <1> DEFINE n == PagesFor(size)
             i == find_free_region(n)
  <1>1. i # 0 /\ vmm_regions' = Fit(i, n) /\ kernel' = kernel
    BY DEF VmallocRollsBack
  <1>2. Held(Fit(i, n)) = Held(vmm_regions)
    BY <1>1, FoundFits DEF IInv
  <1> HIDE DEF n, i
  <1>3. Ranges' = {RangeOf(r) : r \in Held(vmm_regions')}
    BY RangesOfHeld DEF Ranges, Held, RangeOf
  <1>4. QED
    BY <1>1, <1>2, <1>3, RangesOfHeld

\* The regions handed out behave like those of the abstract allocator: one is
\* added, apart from all others, or one is removed, and nothing else changes.
THEOREM VmmImplementsAllocator == ASSUME NoWrap PROVE Spec => ImplementsAllocator
  <1>1. ASSUME Init PROVE Abstract!Init
    <2>1. Ranges = {}
      <3>1. vmm_regions = <<Region(0, HeapPages, FALSE)>>
        BY <1>1 DEF Init
      <3>2. Region(0, HeapPages, FALSE) \in RegionRec
            /\ Region(0, HeapPages, FALSE).start = 0
            /\ ~Region(0, HeapPages, FALSE).allocated
        BY Constants DEF Region, RegionRec
      <3>3. Held(vmm_regions) = {}
        BY <3>1, <3>2, OneRegion
      <3>4. QED
        BY <3>3, RangesOfHeld
    <2>2. kernel = "running"
      BY <1>1 DEF Init
    <2>3. QED
      BY <2>1, <2>2 DEF Abstract!Init
  <1>2. ASSUME IInv, [Next]_vars PROVE [Abstract!Next]_(Abstract!vars)
    <2>1. ASSUME vmm_regions' = vmm_regions, kernel' = kernel
          PROVE  UNCHANGED Abstract!vars
      BY <2>1 DEF Abstract!vars, Ranges
    <2>2. ASSUME vmm_regions' = vmm_regions, kernel = "running", kernel' = "PANIC"
          PROVE  Abstract!Next
      <3>1. Ranges' = Ranges
        BY <2>2 DEF Ranges
      <3>2. Abstract!Halt
        BY <2>2, <3>1 DEF Abstract!Halt
      <3>3. QED
        BY <3>2 DEF Abstract!Next
    <2>3. CASE UNCHANGED vars
      BY <2>1, <2>3 DEF vars
    <2>4. ASSUME NEW size \in Requests, VmallocRollsBack(size)
          PROVE  UNCHANGED Abstract!vars
      BY <1>2, <2>4, RollbackStutters DEF Abstract!vars
    <2>5. CASE UseVmalloc
      <3>1. ASSUME NEW size \in Requests,
                   Vmalloc(size) \/ VmallocNoRegion(size) \/ VmallocRollsBack(size)
                     \/ VmallocPanics(size)
            PROVE  [Abstract!Next]_(Abstract!vars)
        <4>1. CASE Vmalloc(size)
          BY <1>2, <4>1, VmallocIsAlloc
        <4>2. CASE VmallocNoRegion(size)
          BY <2>1, <4>2 DEF VmallocNoRegion
        <4>3. CASE VmallocRollsBack(size)
          BY <2>4, <4>3
        <4>4. CASE VmallocPanics(size)
          BY <2>2, <4>4 DEF VmallocPanics
        <4>5. QED
          BY <3>1, <4>1, <4>2, <4>3, <4>4
      <3>2. ASSUME NEW v, Vfree(v) PROVE Abstract!Next
        BY <1>2, <3>2, VfreeIsRelease
      <3>3. ASSUME NEW v, VfreeInvalid(v) PROVE UNCHANGED Abstract!vars
        BY <2>1, <3>3 DEF VfreeInvalid
      <3>4. QED
        BY <2>5, <3>1, <3>2, <3>3 DEF UseVmalloc
    <2>6. CASE UseVbrk
      <3>1. ASSUME NEW increment \in Increments, VbrkPanics(increment)
            PROVE  Abstract!Next
        BY <2>2, <3>1 DEF VbrkPanics
      <3>2. ASSUME NEW increment \in Increments,
                   VbrkGrows(increment) \/ VbrkFails(increment)
                     \/ VbrkShrinks(increment) \/ VbrkOutOfBounds(increment)
            PROVE  UNCHANGED Abstract!vars
        BY <2>1, <3>2 DEF VbrkGrows, VbrkFails, VbrkShrinks, VbrkOutOfBounds
      <3>3. QED
        BY <2>6, <3>1, <3>2 DEF UseVbrk
    <2>7. CASE OtherTakes \/ \E f \in others : OtherReturns(f)
      BY <2>1, <2>7 DEF OtherTakes, OtherReturns, allocVars
    <2>8. QED
      BY <1>2, <2>3, <2>5, <2>6, <2>7 DEF Next
  <1>3. Spec => []IInv
    BY InvariantHolds
  <1>4. QED
    BY <1>1, <1>2, <1>3, PTL DEF Spec, ImplementsAllocator, Abstract!Spec

----------------------------------------------------------------------------
(* A kernel that uses one of the two interfaces only: what is mapped is    *)
(* what clients hold, and every frame handed out is accounted for.         *)

UseInv ==
    /\ api \in {"vmalloc", "vbrk"}
    /\ api = "vmalloc" => vmm_heap_current = 0
    /\ api = "vbrk" => live = {}
    /\ NoFrameLeaks /\ MappedIsLive /\ BreakIsBacked

Used(map, dir, other) ==
    {map[v] : v \in DOMAIN map} \cup {dir[s] : s \in DOMAIN dir} \cup other

\* The frames handed out are those in use and those gone, which nobody uses.
Accounted(map, dir, handed, other, gone) ==
    /\ handed = Used(map, dir, other) \cup gone
    /\ gone \cap Used(map, dir, other) = {}

LEMMA UsedFrames ==
    NoFrameLeaks <=>
      /\ api # "both" => Accounted(pte, page_directory, out, others, lost)
      /\ api = "vmalloc" => lost = {}
  BY DEF NoFrameLeaks, FramesKept, Accounted, Used, Range

LEMMA UsedFramesNext ==
    NoFrameLeaks' <=>
      /\ api' # "both" => Accounted(pte', page_directory', out', others', lost')
      /\ api' = "vmalloc" => lost' = {}
  BY DEF NoFrameLeaks, FramesKept, Accounted, Used, Range

\* Mapping pages loses the frames of those that were mapped already.
LEMMA BackingAccounted ==
    ASSUME FramesInv, NEW map, NEW dir, NEW taken, NEW fresh, NEW made,
           Backing(map, dir, taken, fresh, made),
           Accounted(pte, page_directory, out, others, lost)
    PROVE  Accounted(map, dir, out \cup taken, others,
                     lost \cup {pte[v] : v \in DOMAIN pte \cap fresh})
  <1> DEFINE rest == {pte[v] : v \in DOMAIN pte \ fresh}
             over == {pte[v] : v \in DOMAIN pte \cap fresh}
             tables == {page_directory[s] : s \in DOMAIN page_directory}
  <1>1. {pte[v] : v \in DOMAIN pte} = rest \cup over
    OBVIOUS
  <1>2. /\ over \cap rest = {} /\ over \cap tables = {} /\ over \cap others = {}
        /\ over \subseteq out
    BY DEF FramesInv, Exclusive
  <1>3. taken \cap out = {}
    BY DEF Backing, Free
  <1>4. {map[v] : v \in DOMAIN map} = rest \cup {map[v] : v \in fresh}
    BY DEF Backing
  <1>5. {dir[s] : s \in DOMAIN dir} = tables \cup {dir[s] : s \in made}
    <2>1. /\ DOMAIN dir = DOMAIN page_directory \cup made
          /\ \A s \in DOMAIN page_directory : dir[s] = page_directory[s]
      BY DEF Backing
    <2>2. QED
      BY <2>1
  <1>6. taken = {map[v] : v \in fresh} \cup {dir[s] : s \in made}
    BY DEF Backing
  <1> DEFINE pages == {map[v] : v \in DOMAIN map}
             dirs == {dir[s] : s \in DOMAIN dir}
             before == {pte[v] : v \in DOMAIN pte}
  <1>7. /\ Used(map, dir, others) = pages \cup dirs \cup others
        /\ Used(pte, page_directory, others) = before \cup tables \cup others
    BY DEF Used
  <1>8. /\ out = (before \cup tables \cup others) \cup lost
        /\ lost \cap (before \cup tables \cup others) = {}
    BY <1>7 DEF Accounted
  <1>9. pages \cup dirs \cup others = rest \cup tables \cup others \cup taken
    BY <1>4, <1>5, <1>6
  <1> HIDE DEF rest, over, tables, pages, dirs, before
  <1>10. /\ out \cup taken = (pages \cup dirs \cup others) \cup (lost \cup over)
         /\ (lost \cup over) \cap (pages \cup dirs \cup others) = {}
    BY <1>1, <1>2, <1>3, <1>8, <1>9 DEF before
  <1>11. QED
    BY <1>7, <1>10 DEF Accounted, over

\* Unmapping pages gives their frames back and no other.
LEMMA RemovingAccounted ==
    ASSUME NEW map, NEW dir, NEW handed, NEW other, NEW gone,
           NEW removed \in SUBSET DOMAIN map,
           Exclusive(map, dir, handed, other),
           Accounted(map, dir, handed, other, gone)
    PROVE  Accounted([v \in DOMAIN map \ removed |-> map[v]], dir,
                     handed \ {map[v] : v \in removed}, other, gone)
  <1> DEFINE rest == [v \in DOMAIN map \ removed |-> map[v]]
             kept == {map[v] : v \in DOMAIN map \ removed}
             back == {map[v] : v \in removed}
             tables == {dir[s] : s \in DOMAIN dir}
  <1>1. {rest[v] : v \in DOMAIN rest} = kept
    OBVIOUS
  <1>2. {map[v] : v \in DOMAIN map} = kept \cup back
    OBVIOUS
  <1>3. /\ Used(rest, dir, other) = kept \cup tables \cup other
        /\ Used(map, dir, other) = kept \cup back \cup tables \cup other
    BY <1>1, <1>2 DEF Used
  <1>4. back \cap kept = {} /\ back \cap tables = {} /\ back \cap other = {}
    BY DEF Exclusive
  <1>5. /\ handed = (kept \cup back \cup tables \cup other) \cup gone
        /\ gone \cap (kept \cup back \cup tables \cup other) = {}
    BY <1>3 DEF Accounted
  <1> HIDE DEF kept, back, tables, rest
  <1>6. /\ handed \ back = (kept \cup tables \cup other) \cup gone
        /\ gone \cap (kept \cup tables \cup other) = {}
    BY <1>4, <1>5
  <1>7. Accounted(rest, dir, handed \ back, other, gone)
    BY <1>3, <1>6 DEF Accounted
  <1>8. QED
    BY <1>7 DEF rest, back

\* Pages that nobody holds are not mapped.
LEMMA ApartUnmapped ==
    ASSUME NoWrap, RegionsInv, UseInv, api = "vmalloc",
           NEW start \in Nat, NEW n \in Nat,
           \A r \in Held(vmm_regions) :
               r.start + r.size <= start \/ start + n <= r.start
    PROVE  Pages(start, n) \cap DOMAIN pte = {}
  <1> SUFFICES ASSUME NEW v \in DOMAIN pte, v \in Pages(start, n) PROVE FALSE
    OBVIOUS
  <1>1. PICK a \in live : v \in PagesOf(a)
    BY DEF UseInv, MappedIsLive
  <1>2. a.bytes \in Requests /\ PagesFor(a.bytes) \in Nat
    BY PagesForExact DEF RegionsInv, HeldIsLive
  <1>3. PICK r \in Held(vmm_regions) : r.start = a.page /\ r.size >= PagesFor(a.bytes)
    BY DEF RegionsInv, HeldIsLive
  <1>4. r.start \in Nat /\ r.size \in Nat
    BY HeldFacts DEF RegionsInv
  <1>5. /\ v \in start .. start + n - 1
        /\ v \in a.page .. a.page + PagesFor(a.bytes) - 1
    BY <1>1 DEF PagesOf, Pages
  <1>6. r.start + r.size <= start \/ start + n <= r.start
    OBVIOUS
  <1>7. QED
    BY <1>2, <1>3, <1>4, <1>5, <1>6

LEMMA VmallocUses ==
    ASSUME NoWrap, IInv, UseInv, NEW size \in Requests, Vmalloc(size),
           api = "vmalloc", api' = api
    PROVE  UseInv' /\ \A v \in DOMAIN pte : pte'[v] = pte[v]
  <1> DEFINE n == PagesFor(size)
             i == find_free_region(n)
             start == vmm_regions[i].start
             a == [page |-> start, bytes |-> size]
  <1>1. /\ i # 0 /\ live' = live \cup {a}
        /\ vmm_heap_current' = vmm_heap_current /\ others' = others
        /\ lost' = lost \cup Overmapped(start, n)
    BY DEF Vmalloc, Back
  <1>2. /\ n \in Nat /\ start \in Nat
        /\ \A r \in Held(vmm_regions) :
             r.start + r.size <= start \/ start + n <= r.start
    BY <1>1, FoundFits DEF IInv
  <1>3. Backs(start, n, n, pte', page_directory', out')
    BY VmallocFrames
  <1>4. PagesOf(a) = Pages(start, n)
    BY DEF PagesOf
  <1> HIDE DEF n, i, start, a
  <1>5. Pages(start, n) \cap DOMAIN pte = {}
    BY <1>2, ApartUnmapped DEF IInv
  <1>6. /\ Backing(pte', page_directory', Taken(start, n, n), Pages(start, n),
                   NewTables(start, n, n))
        /\ out' = out \cup Taken(start, n, n)
    BY <1>3 DEF Backs
  <1>7. \A v \in DOMAIN pte : pte'[v] = pte[v]
    BY <1>5, <1>6 DEF Backing
  <1>8. Accounted(pte, page_directory, out, others, lost) /\ lost = {}
    BY UsedFrames DEF UseInv
  <1>9. /\ lost' = lost \cup {pte[v] : v \in DOMAIN pte \cap Pages(start, n)}
        /\ lost' = {}
    BY <1>1, <1>5, <1>8 DEF Overmapped
  <1>10. NoFrameLeaks'
    BY <1>1, <1>6, <1>8, <1>9, BackingAccounted, UsedFramesNext DEF IInv
  <1>11. DOMAIN pte' = DOMAIN pte \cup PagesOf(a)
    BY <1>4, <1>6 DEF Backing
  <1>12. MappedIsLive'
    <2>1. DOMAIN pte = UNION {PagesOf(b) : b \in live}
      BY DEF UseInv, MappedIsLive
    <2>2. DOMAIN pte' = UNION {PagesOf(b) : b \in live'}
      BY <1>1, <1>11, <2>1
    <2>3. QED
      BY <2>2 DEF MappedIsLive, PagesOf, Pages, PagesFor
  <1>13. BreakIsBacked'
    BY <1>1, <1>11 DEF UseInv, BreakIsBacked, PageUp
  <1>14. QED
    BY <1>1, <1>7, <1>10, <1>12, <1>13 DEF UseInv

LEMMA RollbackUses ==
    ASSUME NoWrap, IInv, UseInv, NEW size \in Requests, VmallocRollsBack(size),
           api = "vmalloc", api' = api
    PROVE  UseInv' /\ \A v \in DOMAIN pte : pte'[v] = pte[v]
  <1> DEFINE n == PagesFor(size)
             i == find_free_region(n)
             start == vmm_regions[i].start
  <1>1. i # 0 /\ UNCHANGED <<live, vmm_heap_current, others>>
    BY DEF VmallocRollsBack
  <1>2. /\ n \in Nat /\ start \in Nat
        /\ \A r \in Held(vmm_regions) :
             r.start + r.size <= start \/ start + n <= r.start
    BY <1>1, FoundFits DEF IInv
  <1>3. PICK fresh, map, taken, made :
          /\ fresh \in SUBSET (0 .. HeapPages - 1)
          /\ Backing(map, page_directory', taken, fresh, made)
          /\ fresh \subseteq Pages(start, n)
          /\ pte' = [w \in DOMAIN map \ fresh |-> map[w]]
          /\ out' = (out \cup taken) \ {map[w] : w \in fresh}
          /\ lost' = lost \cup {pte[w] : w \in DOMAIN pte \cap fresh}
    BY RollbackFrames
  <1> HIDE DEF n, i, start
  <1>4. fresh \cap DOMAIN pte = {}
    BY <1>2, <1>3, ApartUnmapped DEF IInv
  <1>5. \A v \in DOMAIN pte : map[v] = pte[v]
    BY <1>3, <1>4 DEF Backing
  <1>6. DOMAIN pte' = DOMAIN pte /\ \A v \in DOMAIN pte : pte'[v] = pte[v]
    BY <1>3, <1>4, <1>5 DEF Backing
  <1>7. Accounted(pte, page_directory, out, others, lost) /\ lost = {}
    BY UsedFrames DEF UseInv
  <1>8. lost' = {}
    BY <1>3, <1>4, <1>7
  <1>9. Accounted(map, page_directory', out \cup taken, others, lost')
    BY <1>3, <1>7, BackingAccounted DEF IInv
  <1>10. Exclusive(map, page_directory', out \cup taken, others)
    BY <1>3, BackingKeepsExclusive DEF IInv, FramesInv
  <1>11. NoFrameLeaks'
    <2>1. fresh \in SUBSET DOMAIN map
      BY <1>3 DEF Backing
    <2>2. Accounted(pte', page_directory', out', others, lost')
      BY <1>3, <1>9, <1>10, <2>1, RemovingAccounted
    <2>3. QED
      BY <1>1, <1>8, <2>2, UsedFramesNext
  <1>12. MappedIsLive'
    BY <1>1, <1>6 DEF UseInv, MappedIsLive, PagesOf, Pages, PagesFor
  <1>13. BreakIsBacked'
    BY <1>1, <1>6 DEF UseInv, BreakIsBacked, PageUp
  <1>14. QED
    BY <1>1, <1>6, <1>11, <1>12, <1>13 DEF UseInv

LEMMA UnbackUses ==
    ASSUME FramesInv, NoFrameLeaks, NEW start, NEW n, Unback(start, n),
           others' = others, api' = api
    PROVE  NoFrameLeaks'
  <1>1. /\ pte' = [v \in DOMAIN pte \ Backed(start, n) |-> pte[v]]
        /\ out' = out \ {pte[v] : v \in Backed(start, n)}
        /\ page_directory' = page_directory /\ lost' = lost
    BY DEF Unback
  <1>2. Backed(start, n) \in SUBSET DOMAIN pte
    BY DEF Backed
  <1>3. ASSUME api # "both"
        PROVE  Accounted(pte', page_directory', out', others', lost')
    <2>1. Accounted(pte, page_directory, out, others, lost)
      BY <1>3, UsedFrames
    <2>2. QED
      BY <1>1, <1>2, <2>1, RemovingAccounted DEF FramesInv
  <1>4. QED
    BY <1>1, <1>3, UsedFrames, UsedFramesNext

LEMMA VfreeUses ==
    ASSUME NoWrap, IInv, UseInv, NEW p, Vfree(p), api = "vmalloc", api' = api
    PROVE  /\ UseInv'
           /\ \A a \in live \cap live' : \A v \in PagesOf(a) : pte'[v] = pte[v]
  <1>1. PICK r \in Held(vmm_regions), a \in live :
          /\ r = vmm_regions[find_region(p)] /\ r.start = p
          /\ live' = live \ {a} /\ a.page = p
    BY VfreeRegions DEF IInv
  <1>2. /\ Unback(r.start, r.size)
        /\ UNCHANGED <<vmm_heap_current, others>>
    BY <1>1 DEF Vfree
  <1>3. /\ DOMAIN pte' = DOMAIN pte \ Pages(r.start, r.size)
        /\ \A v \in DOMAIN pte' : pte'[v] = pte[v]
    BY <1>2, UnbackFrames DEF IInv
  <1>4. /\ Tiles(vmm_regions, HeapPages)
        /\ HeldIsLive(Held(vmm_regions), live, region_pool_index = MaxRegions)
    BY DEF IInv, RegionsInv
  <1>5. r.start \in Nat /\ r.size \in Nat
    BY <1>4, HeldFacts
  <1>6. \A b \in live : b.page \in Nat /\ PagesFor(b.bytes) \in Nat
    BY <1>4, LiveRegions
  <1>7. PagesOf(a) \subseteq Pages(r.start, r.size)
    <2>1. PICK s \in Held(vmm_regions) : s.start = a.page /\ s.size >= PagesFor(a.bytes)
      BY <1>4 DEF HeldIsLive
    <2>2. s.size \in Nat \ {0} /\ s.start \in Nat /\ r.size \in Nat \ {0}
      BY <1>4, HeldFacts
    <2>3. s = r
      <3>1. s # r => s.start + s.size <= r.start \/ r.start + r.size <= s.start
        BY <1>4, HeldFacts
      <3>2. QED
        BY <1>1, <1>5, <2>1, <2>2, <3>1
    <2>4. QED
      BY <1>1, <1>5, <1>6, <2>1, <2>3 DEF PagesOf, Pages
  <1>8. ASSUME NEW b \in live' PROVE PagesOf(b) \cap Pages(r.start, r.size) = {}
    <2>1. b \in live /\ b # a
      BY <1>1
    <2>2. b.page # r.start
      BY <1>1, <1>4, <2>1 DEF HeldIsLive
    <2>3. r.start + r.size <= b.page \/ b.page + PagesFor(b.bytes) <= r.start
      BY <1>4, <2>1, <2>2, LiveRegions
    <2>4. QED
      BY <1>5, <1>6, <2>1, <2>3 DEF PagesOf, Pages
  <1>9. DOMAIN pte = UNION {PagesOf(b) : b \in live}
    BY DEF UseInv, MappedIsLive
  <1>10. DOMAIN pte' = UNION {PagesOf(b) : b \in live'}
    BY <1>1, <1>3, <1>7, <1>8, <1>9
  <1>11. MappedIsLive'
    BY <1>10 DEF MappedIsLive, PagesOf, Pages, PagesFor
  <1>12. NoFrameLeaks'
    BY <1>2, UnbackUses DEF IInv, UseInv
  <1>13. BreakIsBacked'
    <2>1. vmm_heap_current' = 0
      BY <1>2 DEF UseInv
    <2>2. PageUp(0) = 0
      <3>1. 0 <= 0 * PageSize
        BY Constants
      <3>2. QED
        BY <3>1, PageUpBounds
    <2>3. QED
      BY <2>1, <2>2 DEF BreakIsBacked, PageUp
  <1>14. ASSUME NEW b \in live \cap live', NEW v \in PagesOf(b)
         PROVE  pte'[v] = pte[v]
    BY <1>3, <1>10
  <1>15. QED
    BY <1>2, <1>11, <1>12, <1>13, <1>14 DEF UseInv

\* vbrk backs what it adds, and a shrinking break drops nothing below it; one
\* that fails half way strands what it has mapped.
LEMMA VbrkUses ==
    ASSUME IInv, UseInv, NEW increment \in Increments, api = "vbrk", api' = api,
           VbrkGrows(increment) \/ VbrkFails(increment) \/ VbrkShrinks(increment)
    PROVE  UseInv' /\ live' = {}
  <1>1. live' = {} /\ api' = "vbrk" /\ others' = others
    BY DEF UseInv, VbrkGrows, VbrkFails, VbrkShrinks
  <1>2. /\ DOMAIN pte = (0 .. PageUp(vmm_heap_current) - 1) \cup stranded
        /\ (0 .. PageUp(vmm_heap_current) - 1) \cap stranded = {}
    BY DEF UseInv, MappedIsLive
  <1>3. NoFrameLeaks /\ Accounted(pte, page_directory, out, others, lost)
    BY UsedFrames DEF UseInv
  <1>4. /\ vmm_heap_current \in Nat /\ vmm_heap_current <= HeapPages * PageSize
        /\ increment \in Int /\ HeapPages * PageSize \in Nat
    BY Constants DEF IInv, StateInv
  <1> DEFINE new == vmm_heap_current + increment
             start == PageUp(vmm_heap_current)
  <1>5. CASE VbrkGrows(increment) \/ VbrkFails(increment)
    <2> DEFINE n == PageUp(new) - start
               moves(m) == \/ /\ m = n /\ stranded' = stranded \ Pages(start, n)
                              /\ vmm_heap_current' = new
                           \/ /\ stranded' = stranded \cup Pages(start, m)
                              /\ vmm_heap_current' = vmm_heap_current
    <2>1. /\ new \in 0 .. HeapPages * PageSize /\ vmm_heap_current <= new
          /\ \E m \in Nat : /\ Backs(start, n, m, pte', page_directory', out')
                            /\ lost' = lost \cup Overmapped(start, m)
                            /\ moves(m)
      BY <1>5, GrowingFrames
    <2>2. /\ start \in Nat /\ PageUp(new) \in Nat
          /\ Pages(start, n) = start .. PageUp(new) - 1
          /\ start <= PageUp(new)
      BY <1>4, <2>1, BreakPages
    <2> HIDE DEF n, start
    <2>3. PICK m \in Nat : /\ Backs(start, n, m, pte', page_directory', out')
                           /\ lost' = lost \cup Overmapped(start, m)
                           /\ moves(m)
      BY <2>1
    <2>4. DOMAIN pte' = DOMAIN pte \cup Pages(start, m)
      BY <2>3 DEF Backs, Backing
    <2>5. /\ DOMAIN pte' = (0 .. PageUp(vmm_heap_current') - 1) \cup stranded'
          /\ (0 .. PageUp(vmm_heap_current') - 1) \cap stranded' = {}
      <3>1. CASE /\ m = n /\ stranded' = stranded \ Pages(start, n)
                 /\ vmm_heap_current' = new
        <4>1. 0 .. PageUp(new) - 1 = (0 .. start - 1) \cup Pages(start, n)
          BY <2>2
        <4>2. QED
          BY <1>2, <2>4, <3>1, <4>1 DEF start
      <3>2. CASE /\ stranded' = stranded \cup Pages(start, m)
                 /\ vmm_heap_current' = vmm_heap_current
        <4>1. (0 .. start - 1) \cap Pages(start, m) = {}
          BY <2>2, <2>3 DEF Pages
        <4>2. QED
          BY <1>2, <2>4, <3>2, <4>1 DEF start
      <3>3. QED
        BY <2>3, <3>1, <3>2
    <2>6. Accounted(pte', page_directory', out', others', lost')
      <3>1. /\ Backing(pte', page_directory', Taken(start, n, m), Pages(start, m),
                       NewTables(start, n, m))
            /\ out' = out \cup Taken(start, n, m)
        BY <2>3 DEF Backs
      <3>2. lost' = lost \cup {pte[v] : v \in DOMAIN pte \cap Pages(start, m)}
        BY <2>3 DEF Overmapped
      <3>3. QED
        BY <1>1, <1>3, <3>1, <3>2, BackingAccounted DEF IInv
    <2>7. NoFrameLeaks'
      BY <1>1, <2>6, UsedFramesNext
    <2>8. MappedIsLive'
      BY <1>1, <2>5 DEF MappedIsLive, PageUp
    <2>9. BreakIsBacked'
      BY <2>5 DEF BreakIsBacked, PageUp
    <2>10. QED
      BY <1>1, <2>7, <2>8, <2>9 DEF UseInv
  <1>6. CASE VbrkShrinks(increment)
    <2>1. /\ Unback(PageUp(new), start - PageUp(new))
          /\ new >= 0 /\ increment < 0 /\ vmm_heap_current' = new
          /\ stranded' = stranded
      BY <1>6 DEF VbrkShrinks, FirstDropped, Unback
    <2>2. DOMAIN pte' = DOMAIN pte \ Pages(PageUp(new), start - PageUp(new))
      BY <1>1, <2>1, UnbackFrames DEF IInv
    <2>3. new \in Nat /\ new <= vmm_heap_current
      BY <1>4, <2>1
    <2>4. /\ PageUp(new) \in Nat /\ start \in Nat /\ PageUp(new) <= start
          /\ Pages(PageUp(new), start - PageUp(new)) = PageUp(new) .. start - 1
      <3>1. vmm_heap_current \in 0 .. HeapPages * PageSize
        BY <1>4
      <3>2. PageUp(vmm_heap_current) \in Nat
        BY <1>4, PageUpBounds
      <3> HIDE DEF new
      <3>3. QED
        BY <2>3, <3>1, <3>2, BreakPages
    <2>5. stranded \cap (0 .. start - 1) = {}
      BY <1>2
    <2>6. /\ DOMAIN pte' = (0 .. PageUp(new) - 1) \cup stranded
          /\ (0 .. PageUp(new) - 1) \cap stranded = {}
      <3>1. DOMAIN pte' = ((0 .. start - 1) \cup stranded) \ (PageUp(new) .. start - 1)
        BY <1>2, <2>2, <2>4
      <3> HIDE DEF start, new
      <3>2. (0 .. start - 1) \ (PageUp(new) .. start - 1) = 0 .. PageUp(new) - 1
        BY <2>4
      <3>3. /\ stranded \cap (PageUp(new) .. start - 1) = {}
            /\ stranded \cap (0 .. PageUp(new) - 1) = {}
        BY <2>4, <2>5
      <3>4. QED
        BY <3>1, <3>2, <3>3
    <2>7. NoFrameLeaks'
      BY <1>1, <1>3, <2>1, UnbackUses DEF IInv
    <2>8. MappedIsLive'
      BY <1>1, <2>1, <2>6 DEF MappedIsLive, PageUp
    <2>9. BreakIsBacked'
      BY <2>1, <2>6 DEF BreakIsBacked, PageUp
    <2>10. QED
      BY <1>1, <2>7, <2>8, <2>9 DEF UseInv
  <1>7. QED
    BY <1>1, <1>5, <1>6

LEMMA OtherUses ==
    ASSUME FramesInv, UseInv, OtherTakes \/ \E f \in others : OtherReturns(f),
           api' = api
    PROVE  UseInv' /\ live' = live /\ pte' = pte
  <1>1. /\ pte' = pte /\ page_directory' = page_directory
        /\ out' \cap others' = others' /\ out' \ others' = out \ others
    BY OtherFrames
  <1>2. UNCHANGED <<live, vmm_heap_current, stranded>>
    BY DEF OtherTakes, OtherReturns, allocVars
  <1>3. NoFrameLeaks'
    <2>1. /\ \A v \in DOMAIN pte : pte[v] \notin others
          /\ \A s \in DOMAIN page_directory : page_directory[s] \notin others
          /\ others \subseteq out
      BY DEF FramesInv, Exclusive
    <2>2. /\ \A v \in DOMAIN pte : pte[v] \notin others'
          /\ \A s \in DOMAIN page_directory : page_directory[s] \notin others'
          /\ others' \subseteq out'
      BY <1>1 DEF FramesInv, Exclusive
    <2>3. ASSUME api # "both"
          PROVE  Accounted(pte, page_directory, out', others', lost)
      <3>1. Accounted(pte, page_directory, out, others, lost)
        BY <2>3, UsedFrames DEF UseInv
      <3> DEFINE mine == Used(pte, page_directory, {})
      <3>2. /\ Used(pte, page_directory, others) = mine \cup others
            /\ Used(pte, page_directory, others') = mine \cup others'
        BY DEF Used
      <3>3. mine \cap others = {} /\ mine \cap others' = {}
        BY <2>1, <2>2 DEF Used
      <3>4. out = (mine \cup others) \cup lost /\ lost \cap (mine \cup others) = {}
        BY <3>1, <3>2 DEF Accounted
      <3> HIDE DEF mine
      <3>5. out \ others = mine \cup lost /\ (mine \cup lost) \cap others' = {}
        BY <1>1, <3>3, <3>4
      <3>6. out' = (mine \cup others') \cup lost /\ lost \cap (mine \cup others') = {}
        BY <1>1, <2>2, <3>4, <3>5
      <3>7. QED
        BY <3>2, <3>6 DEF Accounted
    <2>4. lost' = lost /\ NoFrameLeaks
      BY DEF OtherTakes, OtherReturns, UseInv
    <2>5. api = "vmalloc" => lost' = {}
      BY <2>4, UsedFrames
    <2>6. QED
      BY <1>1, <2>3, <2>4, <2>5, UsedFramesNext
  <1>4. MappedIsLive' /\ BreakIsBacked'
    BY <1>1, <1>2 DEF UseInv, MappedIsLive, BreakIsBacked, PagesOf, Pages, PagesFor, PageUp
  <1>5. QED
    BY <1>1, <1>2, <1>3, <1>4 DEF UseInv

LEMMA InitUseInv ==
    ASSUME OneInterface, Init
    PROVE  UseInv
  <1>1. api \in {"vmalloc", "vbrk"}
    BY Constants DEF Init, OneInterface
  <1>2. NoFrameLeaks
    BY DEF Init, NoFrameLeaks, FramesKept, Range
  <1>3. BreakIsBacked /\ MappedIsLive
    <2>1. 0 <= 0 * PageSize
      BY Constants
    <2>2. PageUp(0) = 0
      BY <2>1, PageUpBounds
    <2>3. 0 .. PageUp(vmm_heap_current) - 1 = {}
      BY <2>2 DEF Init
    <2>4. QED
      BY <2>3 DEF BreakIsBacked, MappedIsLive, Init
  <1>4. QED
    BY <1>1, <1>2, <1>3 DEF UseInv, Init

\* Every step keeps it, and no call changes the frames of a live allocation.
LEMMA NextUseInv ==
    ASSUME NoWrap, IInv, UseInv, [Next]_vars
    PROVE  /\ UseInv'
           /\ \A a \in live \cap live' : \A v \in PagesOf(a) : pte'[v] = pte[v]
  <1>1. CASE UNCHANGED vars
    BY <1>1 DEF UseInv, NoFrameLeaks, FramesKept, MappedIsLive, BreakIsBacked,
                PagesOf, Pages, PagesFor, PageUp, vars
  <1>2. ASSUME Next
        PROVE  /\ UseInv'
               /\ \A a \in live \cap live' : \A v \in PagesOf(a) : pte'[v] = pte[v]
    <2>0. api' = api /\ api \in {"vmalloc", "vbrk"}
      BY <1>2 DEF Next, UseInv
    <2> DEFINE Kept == \A a \in live \cap live' : \A v \in PagesOf(a) : pte'[v] = pte[v]
    <2>1. ASSUME (\A v \in DOMAIN pte : pte'[v] = pte[v]), api = "vmalloc" PROVE Kept
      BY <2>1 DEF UseInv, MappedIsLive
    <2> HIDE DEF Kept
    <2>2. ASSUME api = "vmalloc", NEW size \in Requests, Vmalloc(size)
          PROVE  UseInv' /\ Kept
      BY <2>0, <2>1, <2>2, VmallocUses
    <2>3. ASSUME api = "vmalloc", NEW size \in Requests, VmallocRollsBack(size)
          PROVE  UseInv' /\ Kept
      BY <2>0, <2>1, <2>3, RollbackUses
    <2>4. ASSUME NEW p, api = "vmalloc", Vfree(p) PROVE UseInv' /\ Kept
      BY <2>0, <2>4, VfreeUses DEF Kept
    <2>5. ASSUME UNCHANGED <<vmm_heap_current, mapVars, live, others>>
          PROVE  UseInv' /\ Kept
      BY <2>0, <2>5 DEF UseInv, NoFrameLeaks, FramesKept, MappedIsLive, BreakIsBacked,
                  PagesOf, Pages, PagesFor, PageUp, mapVars, Kept
    <2>6. ASSUME NEW size,
                 VmallocNoRegion(size) \/ VmallocPanics(size) \/ VfreeInvalid(size)
                   \/ VbrkPanics(size) \/ VbrkOutOfBounds(size)
          PROVE  UNCHANGED <<vmm_heap_current, mapVars, live, others>>
      BY <2>6 DEF VmallocNoRegion, VmallocPanics, VfreeInvalid, VbrkPanics,
                  VbrkOutOfBounds, mapVars
    <2>7. ASSUME api = "vbrk", NEW increment \in Increments,
                 VbrkGrows(increment) \/ VbrkFails(increment) \/ VbrkShrinks(increment)
          PROVE  UseInv' /\ Kept
      BY <2>0, <2>7, VbrkUses DEF Kept
    <2>8. ASSUME OtherTakes \/ \E f \in others : OtherReturns(f)
          PROVE  UseInv' /\ Kept
      BY <2>0, <2>8, OtherUses DEF IInv, Kept
    <2>9. CASE api = "vmalloc" /\ UseVmalloc
      BY <2>2, <2>3, <2>4, <2>5, <2>6, <2>9 DEF UseVmalloc, Kept
    <2>10. CASE api = "vbrk" /\ UseVbrk
      BY <2>5, <2>6, <2>7, <2>10 DEF UseVbrk, Kept
    <2>11. \/ api = "vmalloc" /\ UseVmalloc
           \/ api = "vbrk" /\ UseVbrk
           \/ OtherTakes \/ \E f \in others : OtherReturns(f)
      BY <1>2, <2>0 DEF Next
    <2>12. QED
      BY <2>8, <2>9, <2>10, <2>11 DEF Kept
  <1>3. QED
    BY <1>1, <1>2 DEF vars

LEMMA UseInvariantHolds ==
    ASSUME NoWrap, OneInterface
    PROVE  Spec => [](IInv /\ UseInv)
  <1>1. Init => IInv /\ UseInv
    BY InitIInv, InitUseInv
  <1>2. IInv /\ UseInv /\ [Next]_vars => (IInv /\ UseInv)'
    BY NextIInv, NextUseInv
  <1>3. QED
    BY <1>1, <1>2, PTL DEF Spec

\* The page tables back what clients hold with frames of their own: the live
\* allocations, or the pages below the break and those that a vbrk which failed
\* half way left behind.  Every frame handed out backs one of these pages, is a
\* page table, belongs to other code, or was lost when such a page that was left
\* behind was mapped again; vmalloc and vfree lose none.  With both interfaces
\* on the same range it fails: vfree unmaps pages below the break.
THEOREM FramesAccountedFor ==
    ASSUME NoWrap, OneInterface PROVE Spec => []FramesSound
  <1>1. Spec => [](IInv /\ UseInv)
    BY UseInvariantHolds
  <1>2. UseInv => NoFrameLeaks /\ MappedIsLive /\ BreakIsBacked
    BY DEF UseInv
  <1>3. Spec => []FramesExclusive
    BY FramesAreExclusive
  <1>4. FramesExclusive /\ UseInv => FramesSound
    BY <1>2 DEF FramesSound
  <1>5. QED
    BY <1>1, <1>3, <1>4, PTL

\* No call changes the frame of a page of an allocation that stays live: its
\* contents survive every other call, also one that fails half way.
THEOREM ContentsSurvive ==
    ASSUME NoWrap, OneInterface PROVE Spec => LiveKeepsFrames
  <1>1. Spec => [](IInv /\ UseInv)
    BY UseInvariantHolds
  <1>2. IInv /\ UseInv /\ [Next]_vars =>
          [\A a \in live \cap live' : \A v \in PagesOf(a) : pte'[v] = pte[v]]_vars
    BY NextUseInv
  <1>3. Spec => []([Next]_vars)
    BY PTL DEF Spec
  <1>4. QED
    BY <1>1, <1>2, <1>3, PTL DEF LiveKeepsFrames, Spec

=============================================================================
