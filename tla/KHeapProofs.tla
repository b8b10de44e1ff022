----------------------------- MODULE KHeapProofs -----------------------------
(***************************************************************************)
(* Proofs about the kernel heap, for every arena size, header size and     *)
(* set of requests.                                                        *)
(***************************************************************************)
EXTENDS KHeap, NatFacts

\* What every header list the handlers build satisfies: the type of the
\* headers, the tiling, and agreement of the magic word with the free flag.
HeapOK(h) ==
    /\ DOMAIN h \subseteq 0 .. HeapSize - HeaderSize
    /\ h \in [DOMAIN h -> Header]
    /\ TiledList(h)
    /\ \A a \in DOMAIN h : h[a].free = 1 <=> h[a].magic = HEAP_MAGIC_FREE

----------------------------------------------------------------------------
LEMMA ModRange == ASSUME NEW x \in Int, NEW m \in Nat \ {0}
                  PROVE  x % m \in 0 .. m - 1
  OBVIOUS

\* align_size yields a size.
LEMMA AlignSizeNat == ASSUME NEW n \in Nat PROVE AlignSize(n) \in Nat
  <1>1. Word \in Nat \ {0}
    BY LayoutAssumption
  <1>2. (n + 3) % Word \in Nat
    BY <1>1, ModRange
  <1>3. \A u \in Nat : u - (u % 4) \in Nat
    OBVIOUS
  <1>4. QED
    BY <1>2, <1>3 DEF AlignSize

\* split_block keeps the arena tiled; the new block is free, the old one has
\* the size asked for, and no other block changes its size or its flag.
SplitKeeps(h, b, n) ==
    /\ HeapOK(Split(h, b, n))
    /\ DOMAIN Split(h, b, n) = DOMAIN h \cup {b + HeaderSize + n}
    /\ b + HeaderSize + n \notin DOMAIN h
    /\ Split(h, b, n)[b].size = n
    /\ Split(h, b, n)[b].next = b + HeaderSize + n
    /\ Split(h, b, n)[b].free = h[b].free
    /\ Split(h, b, n)[b + HeaderSize + n].free = 1
    /\ Split(h, b, n)[b + HeaderSize + n].next = h[b].next
    /\ Split(h, b, n)[b + HeaderSize + n].size = h[b].size - n - HeaderSize
    /\ \A a \in DOMAIN h \ {b} : /\ Split(h, b, n)[a].size = h[a].size
                                 /\ Split(h, b, n)[a].free = h[a].free
                                 /\ Split(h, b, n)[a].next = h[a].next

LEMMA SplitOK ==
  ASSUME NEW h, HeapOK(h), NEW b \in DOMAIN h, NEW n \in Nat, Splits(h, b, n)
  PROVE  SplitKeeps(h, b, n)
  <1> DEFINE s == Split(h, b, n)
             new == b + HeaderSize + n
             rest == h[b].size - n - HeaderSize
             nx == h[b].next
  <1>0. HeaderSize \in Nat \ {0} /\ HeapSize \in Nat /\ MinBlock \in Nat
    BY LayoutAssumption
  <1>1. /\ b \in 0 .. HeapSize - HeaderSize
        /\ h[b] \in Header
        /\ DOMAIN h \subseteq 0 .. HeapSize - HeaderSize
        /\ \A a \in DOMAIN h : h[a] \in Header
    BY DEF HeapOK
  <1>2. rest \in Nat /\ new \in 0 .. HeapSize - HeaderSize
    BY <1>0, <1>1 DEF Splits, HeapOK, TiledList, BlockEnd, Header
  <1>3. new \notin DOMAIN h
    <2>1. BlockEnd(h, b) = new + HeaderSize + rest
      BY <1>0, <1>1, <1>2 DEF BlockEnd, Header
    <2>2. \A c \in DOMAIN h : b < c => BlockEnd(h, b) <= c
      BY DEF HeapOK, TiledList
    <2>3. b < new
      BY <1>0, <1>1
    <2>4. QED
      BY <1>0, <1>1, <1>2, <2>1, <2>2, <2>3
  <1>4. nx # b
    <2>1. nx = NULL \/ nx = BlockEnd(h, b)
      BY DEF HeapOK, TiledList
    <2>2. BlockEnd(h, b) \in Nat /\ b < BlockEnd(h, b)
      BY <1>0, <1>1 DEF BlockEnd, Header
    <2>3. QED
      BY <1>1, <2>1, <2>2 DEF NULL
  <1>5. DOMAIN s = DOMAIN h \cup {new}
    BY DEF Split
  <1>6. s[new] = [magic |-> HEAP_MAGIC_FREE, size |-> rest, free |-> 1,
                  next |-> nx, prev |-> b]
    BY DEF Split
  <1>7. /\ s[b].magic = h[b].magic /\ s[b].size = n /\ s[b].free = h[b].free
        /\ s[b].next = new /\ s[b].prev = h[b].prev /\ s[b] \in Header
    <2>1. s[b] = [h[b] EXCEPT !.size = n, !.next = new]
      BY <1>1, <1>3, <1>4 DEF Split, HeapOK
    <2>2. new \in Int /\ n \in Nat
      BY <1>0, <1>2
    <2> HIDE DEF s
    <2>3. QED
      BY <1>1, <2>1, <2>2 DEF Header
  <1>8. ASSUME NEW a \in DOMAIN h \ {b}
        PROVE  /\ s[a].magic = h[a].magic /\ s[a].size = h[a].size
               /\ s[a].free = h[a].free /\ s[a].next = h[a].next
               /\ s[a].prev = IF a = nx THEN new ELSE h[a].prev
               /\ s[a] \in Header
    BY <1>1, <1>2, <1>3, <1>4 DEF Split, Header, NULL
  <1> HIDE DEF s
  <1>9. \A a \in DOMAIN s : s[a] \in Header
    BY <1>1, <1>2, <1>5, <1>6, <1>7, <1>8 DEF Header
  <1>10. DOMAIN s \subseteq 0 .. HeapSize - HeaderSize
    BY <1>1, <1>2, <1>5
  <1>11. s \in [DOMAIN s -> Header]
    <2>1. s = [a \in DOMAIN s |-> s[a]]
      BY DEF s, Split
    <2>2. QED
      BY <2>1, <1>9
  <1>12. \A a \in DOMAIN s : s[a].free = 1 <=> s[a].magic = HEAP_MAGIC_FREE
    BY <1>5, <1>6, <1>7, <1>8 DEF HeapOK
  <1>13. TiledList(s)
    <2>1. 0 \in DOMAIN s
      BY <1>5 DEF HeapOK, TiledList
    <2>2. /\ BlockEnd(s, b) = new
          /\ BlockEnd(s, new) = BlockEnd(h, b)
          /\ BlockEnd(h, b) \in Nat /\ new < BlockEnd(h, b) /\ b < new
      BY <1>0, <1>1, <1>2, <1>6, <1>7 DEF BlockEnd, Header
    <2>3. \A a \in DOMAIN h \ {b} : BlockEnd(s, a) = BlockEnd(h, a)
      BY <1>8 DEF BlockEnd
    <2>4. ASSUME NEW a \in DOMAIN s
          PROVE  BlockEnd(s, a) <= HeapSize
      BY <1>0, <1>2, <1>5, <2>2, <2>3 DEF HeapOK, TiledList
    <2>5. ASSUME NEW a \in DOMAIN s
          PROVE  IF BlockEnd(s, a) = HeapSize THEN s[a].next = NULL
                 ELSE /\ s[a].next = BlockEnd(s, a)
                      /\ s[a].next \in DOMAIN s
                      /\ s[s[a].next].prev = a
      <3>1. CASE a = new
        <4>1. nx # NULL => nx \in DOMAIN h \ {b} /\ s[nx].prev = new
          BY <1>4, <1>8 DEF HeapOK, TiledList
        <4>2. /\ BlockEnd(s, a) = BlockEnd(h, b)
              /\ s[a].next = nx
          BY <3>1, <1>6, <2>2
        <4>3. IF BlockEnd(h, b) = HeapSize THEN nx = NULL
              ELSE nx = BlockEnd(h, b) /\ nx \in DOMAIN h
          BY DEF HeapOK, TiledList
        <4>4. BlockEnd(h, b) # HeapSize => nx # NULL
          BY <4>3, <2>2 DEF NULL
        <4>5. QED
          BY <3>1, <4>1, <4>2, <4>3, <4>4, <1>5
      <3>2. CASE a = b
        <4>1. BlockEnd(s, b) # HeapSize
          BY <1>0, <1>2, <2>2
        <4>2. s[b].next = new /\ new \in DOMAIN s /\ s[new].prev = b
          BY <1>5, <1>6, <1>7
        <4>3. QED
          BY <3>2, <4>1, <4>2, <2>2
      <3>3. CASE a \in DOMAIN h \ {b}
        <4>1. CASE BlockEnd(h, a) = HeapSize
          BY <3>3, <4>1, <1>8, <2>3 DEF HeapOK, TiledList
        <4>2. CASE BlockEnd(h, a) # HeapSize
          <5>1. /\ h[a].next = BlockEnd(h, a) /\ h[a].next \in DOMAIN h
                /\ h[h[a].next].prev = a
            BY <3>3, <4>2 DEF HeapOK, TiledList
          <5>2. h[a].next # nx
            <6>1. SUFFICES ASSUME h[a].next = nx PROVE FALSE
              OBVIOUS
            <6>2. nx # NULL
              BY <5>1, <6>1, <1>1 DEF NULL
            <6>3. h[nx].prev = b
              BY <6>2 DEF HeapOK, TiledList
            <6>4. QED
              BY <3>3, <5>1, <6>1, <6>3
          <5>3. s[h[a].next].prev = a
            BY <5>1, <5>2, <1>7, <1>8
          <5>4. QED
            BY <3>3, <4>2, <5>1, <5>3, <1>5, <1>8, <2>3
        <4>3. QED
          BY <4>1, <4>2
      <3>4. QED
        BY <3>1, <3>2, <3>3, <1>5
    <2>6. ASSUME NEW a \in DOMAIN s
          PROVE  IF a = 0 THEN s[a].prev = NULL
                 ELSE s[a].prev \in DOMAIN s /\ BlockEnd(s, s[a].prev) = a
      <3>1. CASE a = new
        BY <3>1, <1>5, <1>6, <2>2, <1>1
      <3>2. ASSUME a \in DOMAIN h, a # nx
            PROVE  s[a].prev = h[a].prev
        BY <3>2, <1>7, <1>8
      <3>3. CASE a = 0 /\ a # new
        <4>1. a # nx
          BY <3>3, <1>1, <2>2 DEF HeapOK, TiledList, NULL
        <4>2. QED
          BY <3>2, <3>3, <4>1, <1>5 DEF HeapOK, TiledList
      <3>4. CASE a = nx /\ a # 0 /\ a # new
        <4>1. a \in DOMAIN h \ {b} /\ nx = BlockEnd(h, b)
          BY <3>4, <1>1, <1>4, <1>5 DEF HeapOK, TiledList, NULL
        <4>2. QED
          BY <3>4, <4>1, <1>5, <1>8, <2>2
      <3>5. CASE a # nx /\ a # 0 /\ a # new
        <4>1. /\ a \in DOMAIN h /\ h[a].prev \in DOMAIN h
              /\ BlockEnd(h, h[a].prev) = a
          BY <3>5, <1>5 DEF HeapOK, TiledList
        <4>2. h[a].prev # b
          <5>1. SUFFICES ASSUME BlockEnd(h, b) = a PROVE FALSE
            BY <4>1
          <5>2. a # HeapSize
            BY <1>0, <1>1, <4>1
          <5>3. QED
            BY <3>5, <5>1, <5>2 DEF HeapOK, TiledList
        <4>3. QED
          BY <3>2, <3>5, <4>1, <4>2, <1>5, <2>3
      <3>6. QED
        BY <3>1, <3>3, <3>4, <3>5
    <2>7. ASSUME NEW a \in DOMAIN s, NEW c \in DOMAIN s, a < c
          PROVE  BlockEnd(s, a) <= c
      <3>1. a \in Nat /\ c \in Nat /\ BlockEnd(s, a) \in Nat
        BY <1>0, <1>9, <1>10 DEF BlockEnd, Header
      <3>2. \A x, y \in DOMAIN h : x < y => BlockEnd(h, x) <= y
        BY DEF HeapOK, TiledList
      <3>3. CASE a \in DOMAIN h /\ c \in DOMAIN h
        <4>1. CASE a = b
          BY <2>2, <2>7, <3>1, <3>2, <3>3, <4>1
        <4>2. CASE a # b
          BY <2>3, <2>7, <3>2, <3>3, <4>2
        <4>3. QED
          BY <4>1, <4>2
      <3>4. CASE a = new /\ c \in DOMAIN h
        BY <2>2, <2>7, <3>1, <3>2, <3>4, <1>1
      <3>5. CASE c = new /\ a \in DOMAIN h
        <4>1. CASE a = b
          BY <2>2, <3>1, <3>5, <4>1
        <4>2. CASE a # b
          <5>1. ~(b < a)
            BY <2>2, <2>7, <3>1, <3>2, <3>5, <1>1
          <5>2. QED
            BY <5>1, <2>2, <2>3, <3>1, <3>2, <3>5, <4>2, <1>1
        <4>3. QED
          BY <4>1, <4>2
      <3>6. CASE a = new /\ c = new
        BY <2>7, <3>1, <3>6
      <3>7. QED
        BY <3>3, <3>4, <3>5, <3>6, <1>5
    <2>8. QED
      BY <2>1, <2>4, <2>5, <2>6, <2>7 DEF TiledList
  <1>14. QED
    BY <1>3, <1>5, <1>6, <1>7, <1>8, <1>10, <1>11, <1>12, <1>13 DEF HeapOK, s, SplitKeeps

\* A merge keeps the arena tiled; the block that swallows keeps its flag and
\* only its size and its next link change.
AbsorbKeeps(h, a) ==
    /\ HeapOK(Absorb(h, a))
    /\ DOMAIN Absorb(h, a) = DOMAIN h \ {h[a].next}
    /\ h[a].next \in DOMAIN h /\ a < h[a].next
    /\ h[a].next = BlockEnd(h, a)
    /\ h[h[a].next].prev = a
    /\ a \in DOMAIN Absorb(h, a)
    /\ BlockEnd(Absorb(h, a), a) = BlockEnd(h, h[a].next)
    /\ Absorb(h, a)[a].next = h[h[a].next].next
    /\ Absorb(h, a)[a].prev = h[a].prev
    /\ Absorb(h, a)[a].free = h[a].free
    /\ \A c \in DOMAIN h \ {a, h[a].next} :
         /\ Absorb(h, a)[c].size = h[c].size
         /\ Absorb(h, a)[c].free = h[c].free
         /\ Absorb(h, a)[c].next = h[c].next
         /\ Absorb(h, a)[c].next # h[a].next

LEMMA AbsorbOK ==
  ASSUME NEW h, HeapOK(h), NEW a \in DOMAIN h, h[a].next # NULL
  PROVE  AbsorbKeeps(h, a)
  <1> DEFINE s == Absorb(h, a)
             gone == h[a].next
             nx == h[gone].next
  <1>0. HeaderSize \in Nat \ {0} /\ HeapSize \in Nat
    BY LayoutAssumption
  <1>1. /\ \A c \in DOMAIN h : h[c] \in Header
        /\ DOMAIN h \subseteq 0 .. HeapSize - HeaderSize
        /\ \A c \in DOMAIN h : BlockEnd(h, c) \in Nat /\ c < BlockEnd(h, c)
    BY <1>0 DEF HeapOK, BlockEnd, Header
  <1>2. /\ gone \in DOMAIN h /\ gone = BlockEnd(h, a) /\ h[gone].prev = a
        /\ BlockEnd(h, a) # HeapSize
    BY DEF HeapOK, TiledList
  <1>3. a < gone
    BY <1>1, <1>2
  <1>4. nx # NULL => nx \in DOMAIN h \ {a, gone}
    <2>1. nx # NULL => nx \in DOMAIN h /\ nx = BlockEnd(h, gone)
      BY <1>2 DEF HeapOK, TiledList
    <2>2. QED
      BY <1>0, <1>1, <1>2, <1>3, <2>1
  <1>5. DOMAIN s = DOMAIN h \ {gone}
    BY DEF Absorb
  <1>6. /\ s[a].size = h[a].size + HeaderSize + h[gone].size
        /\ s[a].magic = h[a].magic /\ s[a].free = h[a].free
        /\ s[a].next = nx /\ s[a].prev = h[a].prev /\ s[a] \in Header
    <2>1. s[a] = [h[a] EXCEPT !.size = @ + HeaderSize + h[gone].size,
                              !.next = nx]
      BY <1>2, <1>3, <1>4 DEF Absorb, HeapOK
    <2>2. h[gone].size \in Nat /\ nx \in Int /\ h[a] \in Header
      BY <1>1, <1>2 DEF Header
    <2> HIDE DEF s, nx
    <2>3. /\ s[a].size = h[a].size + HeaderSize + h[gone].size
          /\ s[a].magic = h[a].magic /\ s[a].free = h[a].free
          /\ s[a].next = nx /\ s[a].prev = h[a].prev
      BY <2>1, <2>2 DEF Header
    <2>4. h[a].size + HeaderSize + h[gone].size \in Nat
      BY <1>0, <2>2 DEF Header
    <2>5. s[a] \in Header
      BY <2>1, <2>2, <2>4 DEF Header
    <2>6. QED
      BY <2>3, <2>5
  <1>7. ASSUME NEW c \in DOMAIN h \ {a, gone}
        PROVE  /\ s[c].magic = h[c].magic /\ s[c].size = h[c].size
               /\ s[c].free = h[c].free /\ s[c].next = h[c].next
               /\ s[c].prev = IF c = nx THEN a ELSE h[c].prev
               /\ s[c] \in Header
    <2>1. s[c] = IF c = nx THEN [h[c] EXCEPT !.prev = a] ELSE h[c]
      <3>1. CASE nx = NULL
        <4>1. c # NULL
          BY <1>1 DEF NULL
        <4>2. QED
          BY <3>1, <4>1 DEF Absorb
      <3>2. CASE nx # NULL
        BY <3>2, <1>4 DEF Absorb
      <3>3. QED
        BY <3>1, <3>2
    <2>2. h[c] \in Header /\ a \in Int
      BY <1>1
    <2> HIDE DEF s, nx
    <2>3. QED
      BY <2>1, <2>2 DEF Header
  <1> HIDE DEF s
  <1>8. \A c \in DOMAIN s : s[c] \in Header
    BY <1>5, <1>6, <1>7
  <1>9. s \in [DOMAIN s -> Header]
    <2>1. s = [c \in DOMAIN s |-> s[c]]
      BY DEF s, Absorb
    <2>2. QED
      BY <2>1, <1>8
  <1>10. \A c \in DOMAIN s : s[c].free = 1 <=> s[c].magic = HEAP_MAGIC_FREE
    BY <1>5, <1>6, <1>7 DEF HeapOK
  <1>11. BlockEnd(s, a) = BlockEnd(h, gone)
    BY <1>0, <1>1, <1>2, <1>6 DEF BlockEnd, Header
  <1>12. \A c \in DOMAIN h \ {a, gone} : BlockEnd(s, c) = BlockEnd(h, c)
    BY <1>7 DEF BlockEnd
  <1>13. ASSUME NEW c \in DOMAIN h \ {a, gone} PROVE h[c].next # gone
    <2>1. SUFFICES ASSUME h[c].next = gone PROVE FALSE
      OBVIOUS
    <2>2. gone # NULL
      BY <1>1, <1>2 DEF NULL
    <2>3. h[gone].prev = c
      BY <2>1, <2>2 DEF HeapOK, TiledList
    <2>4. QED
      BY <2>3, <1>2
  <1>14. TiledList(s)
    <2>1. 0 \in DOMAIN s
      BY <1>1, <1>2, <1>3, <1>5 DEF HeapOK, TiledList
    <2>2. ASSUME NEW c \in DOMAIN s
          PROVE  BlockEnd(s, c) <= HeapSize
      BY <1>2, <1>5, <1>11, <1>12 DEF HeapOK, TiledList
    <2>3. ASSUME NEW c \in DOMAIN s
          PROVE  IF BlockEnd(s, c) = HeapSize THEN s[c].next = NULL
                 ELSE /\ s[c].next = BlockEnd(s, c)
                      /\ s[c].next \in DOMAIN s
                      /\ s[s[c].next].prev = c
      <3>1. CASE c = a
        <4>1. IF BlockEnd(h, gone) = HeapSize THEN nx = NULL
              ELSE nx = BlockEnd(h, gone) /\ nx \in DOMAIN h
          BY <1>2 DEF HeapOK, TiledList
        <4>2. BlockEnd(h, gone) # HeapSize => nx # NULL
          BY <1>1, <1>2, <4>1 DEF NULL
        <4>3. nx # NULL => s[nx].prev = a
          BY <1>4, <1>7
        <4>4. QED
          BY <3>1, <4>1, <4>2, <4>3, <1>4, <1>5, <1>6, <1>11
      <3>2. CASE c # a
        <4>1. c \in DOMAIN h \ {a, gone}
          BY <3>2, <1>5
        <4>2. CASE BlockEnd(h, c) = HeapSize
          BY <4>1, <4>2, <1>7, <1>12 DEF HeapOK, TiledList
        <4>3. CASE BlockEnd(h, c) # HeapSize
          <5>1. /\ h[c].next = BlockEnd(h, c) /\ h[c].next \in DOMAIN h
                /\ h[h[c].next].prev = c
            BY <4>1, <4>3 DEF HeapOK, TiledList
          <5>2. h[c].next # gone
            BY <4>1, <1>13
          <5>3. h[c].next # nx
            <6>1. SUFFICES ASSUME h[c].next = nx PROVE FALSE
              OBVIOUS
            <6>2. nx # NULL
              BY <5>1, <6>1, <1>1 DEF NULL
            <6>3. h[nx].prev = gone
              BY <6>2, <1>2 DEF HeapOK, TiledList
            <6>4. QED
              BY <4>1, <5>1, <6>1, <6>3
          <5>4. s[h[c].next].prev = c
            BY <5>1, <5>2, <5>3, <1>6, <1>7
          <5>5. QED
            BY <4>1, <4>3, <5>1, <5>2, <5>4, <1>5, <1>7, <1>12
        <4>4. QED
          BY <4>2, <4>3
      <3>3. QED
        BY <3>1, <3>2
    <2>4. ASSUME NEW c \in DOMAIN s
          PROVE  IF c = 0 THEN s[c].prev = NULL
                 ELSE s[c].prev \in DOMAIN s /\ BlockEnd(s, s[c].prev) = c
      <3>1. CASE c = nx
        <4>1. c \in DOMAIN h \ {a, gone} /\ nx # NULL
          BY <3>1, <1>1, <1>4, <1>5 DEF NULL
        <4>2. c = BlockEnd(h, gone)
          BY <3>1, <4>1, <1>2 DEF HeapOK, TiledList
        <4>3. c # 0
          BY <4>2, <1>1, <1>2
        <4>4. QED
          BY <3>1, <4>1, <4>2, <4>3, <1>2, <1>3, <1>5, <1>7, <1>11
      <3>2. CASE c # nx
        <4>1. c \in DOMAIN h /\ s[c].prev = h[c].prev
          BY <3>2, <1>5, <1>6, <1>7
        <4>2. CASE c = 0
          BY <4>1, <4>2 DEF HeapOK, TiledList
        <4>3. CASE c # 0
          <5>1. h[c].prev \in DOMAIN h /\ BlockEnd(h, h[c].prev) = c
            BY <4>1, <4>3 DEF HeapOK, TiledList
          <5>2. c # HeapSize /\ c # gone
            BY <1>0, <1>1, <1>5, <4>1
          <5>3. h[c].prev # a
            BY <5>1, <5>2, <1>2
          <5>4. h[c].prev # gone
            BY <5>1, <5>2, <3>2, <1>2 DEF HeapOK, TiledList
          <5>5. QED
            BY <4>1, <4>3, <5>1, <5>3, <5>4, <1>5, <1>12
        <4>4. QED
          BY <4>2, <4>3
      <3>3. QED
        BY <3>1, <3>2
    <2>5. ASSUME NEW c \in DOMAIN s, NEW d \in DOMAIN s, c < d
          PROVE  BlockEnd(s, c) <= d
      <3>1. c \in DOMAIN h /\ d \in DOMAIN h /\ c \in Nat /\ d \in Nat
            /\ d # gone
        BY <1>1, <1>5
      <3>2. \A x, y \in DOMAIN h : x < y => BlockEnd(h, x) <= y
        BY DEF HeapOK, TiledList
      <3>3. CASE c = a
        <4>1. gone < d
          BY <2>5, <3>1, <3>2, <3>3, <1>1, <1>2
        <4>2. QED
          BY <4>1, <3>1, <3>2, <3>3, <1>2, <1>11
      <3>4. CASE c # a
        BY <2>5, <3>1, <3>2, <3>4, <1>5, <1>12
      <3>5. QED
        BY <3>3, <3>4
    <2>6. QED
      BY <2>1, <2>2, <2>3, <2>4, <2>5 DEF TiledList
  <1>15. DOMAIN s \subseteq 0 .. HeapSize - HeaderSize
    BY <1>1, <1>5
  <1>16. HeapOK(s)
    BY <1>9, <1>10, <1>14, <1>15 DEF HeapOK
  <1>17. \A c \in DOMAIN h \ {a, gone} :
           /\ s[c].size = h[c].size /\ s[c].free = h[c].free
           /\ s[c].next = h[c].next /\ s[c].next # gone
    BY <1>7, <1>13
  <1>18. a \in DOMAIN s
    BY <1>1, <1>3, <1>5
  <1>19. QED
    BY <1>2, <1>3, <1>5, <1>6, <1>11, <1>16, <1>17, <1>18 DEF s, AbsorbKeeps

\* Marking a block changes its magic and its free flag, and nothing else.
MarkKeeps(h, b, s) ==
    /\ HeapOK(s) /\ DOMAIN s = DOMAIN h
    /\ \A a \in DOMAIN h : /\ s[a].size = h[a].size
                           /\ s[a].next = h[a].next
                           /\ s[a].prev = h[a].prev
                           /\ BlockEnd(s, a) = BlockEnd(h, a)
    /\ \A a \in DOMAIN h \ {b} : s[a] = h[a]

LEMMA MarkOK ==
  ASSUME NEW h, HeapOK(h), NEW b \in DOMAIN h, NEW s,
         DOMAIN s = DOMAIN h, s \in [DOMAIN s -> Header],
         \A a \in DOMAIN h \ {b} : s[a] = h[a],
         s[b].size = h[b].size, s[b].next = h[b].next, s[b].prev = h[b].prev,
         s[b].free = 1 <=> s[b].magic = HEAP_MAGIC_FREE
  PROVE  MarkKeeps(h, b, s)
  <1>1. \A a \in DOMAIN h : /\ s[a].size = h[a].size
                           /\ s[a].next = h[a].next
                           /\ s[a].prev = h[a].prev
                           /\ BlockEnd(s, a) = BlockEnd(h, a)
    BY DEF BlockEnd
  <1>2. TiledList(s)
    <2>1. 0 \in DOMAIN s
      BY <1>1 DEF HeapOK, TiledList
    <2>2. ASSUME NEW a \in DOMAIN s
          PROVE  /\ BlockEnd(s, a) <= HeapSize
                 /\ IF BlockEnd(s, a) = HeapSize THEN s[a].next = NULL
                    ELSE /\ s[a].next = BlockEnd(s, a)
                         /\ s[a].next \in DOMAIN s
                         /\ s[s[a].next].prev = a
      <3>1. /\ BlockEnd(h, a) <= HeapSize
            /\ IF BlockEnd(h, a) = HeapSize THEN h[a].next = NULL
               ELSE /\ h[a].next = BlockEnd(h, a)
                    /\ h[a].next \in DOMAIN h
                    /\ h[h[a].next].prev = a
        BY <1>1 DEF HeapOK, TiledList
      <3>2. h[a].next \in DOMAIN h => s[h[a].next].prev = h[h[a].next].prev
        BY <1>1
      <3>3. s[a].next = h[a].next /\ BlockEnd(s, a) = BlockEnd(h, a)
        BY <1>1, <1>1
      <3>4. QED
        BY <1>1, <3>1, <3>2, <3>3
    <2>3. ASSUME NEW a \in DOMAIN s
          PROVE  IF a = 0 THEN s[a].prev = NULL
                 ELSE s[a].prev \in DOMAIN s /\ BlockEnd(s, s[a].prev) = a
      <3>1. IF a = 0 THEN h[a].prev = NULL
            ELSE h[a].prev \in DOMAIN h /\ BlockEnd(h, h[a].prev) = a
        BY <1>1 DEF HeapOK, TiledList
      <3>2. h[a].prev \in DOMAIN h
              => BlockEnd(s, h[a].prev) = BlockEnd(h, h[a].prev)
        BY <1>1
      <3>3. s[a].prev = h[a].prev
        BY <1>1, <1>1
      <3>4. QED
        BY <1>1, <3>1, <3>2, <3>3
    <2>4. \A a, c \in DOMAIN s : a < c => BlockEnd(s, a) <= c
      BY <1>1, <1>1 DEF HeapOK, TiledList
    <2>5. QED
      BY <2>1, <2>2, <2>3, <2>4 DEF TiledList
  <1>3. \A a \in DOMAIN s : s[a].free = 1 <=> s[a].magic = HEAP_MAGIC_FREE
    BY DEF HeapOK
  <1>4. DOMAIN s \subseteq 0 .. HeapSize - HeaderSize
    BY DEF HeapOK
  <1>5. QED
    BY <1>1, <1>2, <1>3, <1>4 DEF MarkKeeps, HeapOK

LEMMA MarkUsedOK ==
  ASSUME NEW h, HeapOK(h), NEW b \in DOMAIN h
  PROVE  MarkKeeps(h, b, MarkUsed(h, b)) /\ MarkUsed(h, b)[b].free = 0
  <1> DEFINE s == MarkUsed(h, b)
  <1>1. DOMAIN s = DOMAIN h /\ \A a \in DOMAIN h \ {b} : s[a] = h[a]
    BY DEF MarkUsed, HeapOK
  <1>2. s[b] = [h[b] EXCEPT !.magic = HEAP_MAGIC, !.free = 0]
    BY DEF MarkUsed, HeapOK
  <1>3. s = [a \in DOMAIN s |-> s[a]]
    BY DEF MarkUsed, HeapOK
  <1>4. \A a \in DOMAIN h : h[a] \in Header
    BY DEF HeapOK
  <1> HIDE DEF s
  <1>5. /\ s[b].free = 0 /\ s[b].magic = HEAP_MAGIC
        /\ s[b].size = h[b].size /\ s[b].next = h[b].next
        /\ s[b].prev = h[b].prev /\ s[b] \in Header
    BY <1>2, <1>4 DEF Header
  <1>6. s \in [DOMAIN s -> Header]
    BY <1>1, <1>3, <1>4, <1>5
  <1>7. s[b].free = 1 <=> s[b].magic = HEAP_MAGIC_FREE
    BY <1>5 DEF HEAP_MAGIC, HEAP_MAGIC_FREE
  <1>8. MarkKeeps(h, b, s)
    BY <1>1, <1>5, <1>6, <1>7, MarkOK
  <1>9. QED
    BY <1>5, <1>8 DEF s

LEMMA MarkFreeOK ==
  ASSUME NEW h, HeapOK(h), NEW b \in DOMAIN h
  PROVE  MarkKeeps(h, b, MarkFree(h, b)) /\ MarkFree(h, b)[b].free = 1
  <1> DEFINE s == MarkFree(h, b)
  <1>1. DOMAIN s = DOMAIN h /\ \A a \in DOMAIN h \ {b} : s[a] = h[a]
    BY DEF MarkFree, HeapOK
  <1>2. s[b] = [h[b] EXCEPT !.magic = HEAP_MAGIC_FREE, !.free = 1]
    BY DEF MarkFree, HeapOK
  <1>3. s = [a \in DOMAIN s |-> s[a]]
    BY DEF MarkFree, HeapOK
  <1>4. \A a \in DOMAIN h : h[a] \in Header
    BY DEF HeapOK
  <1> HIDE DEF s
  <1>5. /\ s[b].free = 1 /\ s[b].magic = HEAP_MAGIC_FREE
        /\ s[b].size = h[b].size /\ s[b].next = h[b].next
        /\ s[b].prev = h[b].prev /\ s[b] \in Header
    BY <1>2, <1>4 DEF Header
  <1>6. s \in [DOMAIN s -> Header]
    BY <1>1, <1>3, <1>4, <1>5
  <1>7. s[b].free = 1 <=> s[b].magic = HEAP_MAGIC_FREE
    BY <1>5 DEF HEAP_MAGIC, HEAP_MAGIC_FREE
  <1>8. MarkKeeps(h, b, s)
    BY <1>1, <1>5, <1>6, <1>7, MarkOK
  <1>9. QED
    BY <1>5, <1>8 DEF s

\* After a merge heap_end still names the last block.
LEMMA EndAfterOK ==
  ASSUME NEW h, HeapOK(h), NEW a \in DOMAIN h, h[a].next # NULL,
         NEW last \in DOMAIN h, BlockEnd(h, last) = HeapSize
  PROVE  /\ EndAfter(last, h, a) \in DOMAIN Absorb(h, a)
         /\ BlockEnd(Absorb(h, a), EndAfter(last, h, a)) = HeapSize
  <1> DEFINE gone == h[a].next
             s == Absorb(h, a)
  <1>1. /\ DOMAIN s = DOMAIN h \ {gone} /\ gone = BlockEnd(h, a)
        /\ gone \in DOMAIN h /\ a \in DOMAIN s
        /\ BlockEnd(s, a) = BlockEnd(h, gone)
        /\ \A c \in DOMAIN h \ {a, gone} : s[c].size = h[c].size
    <2>1. AbsorbKeeps(h, a)
      BY AbsorbOK
    <2>2. QED
      BY <2>1 DEF AbsorbKeeps
  <1>2. CASE last = gone
    BY <1>1, <1>2 DEF EndAfter
  <1>3. CASE last # gone
    <2>1. last # a
      <3>1. gone <= HeapSize - HeaderSize /\ HeaderSize \in Nat \ {0}
            /\ HeapSize \in Nat /\ gone \in Int
        BY <1>1, LayoutAssumption DEF HeapOK
      <3>2. QED
        BY <1>1, <3>1
    <2>2. BlockEnd(s, last) = BlockEnd(h, last)
      BY <1>1, <1>3, <2>1 DEF BlockEnd
    <2>3. QED
      BY <1>1, <1>3, <2>2 DEF EndAfter
  <1>4. QED
    BY <1>2, <1>3

----------------------------------------------------------------------------
\* The inductive invariant.
IInv ==
    /\ TypeOK
    /\ HeapOK(hdr)
    /\ BlockEnd(hdr, heap_end) = HeapSize
    /\ Coalesced
    /\ NoCorruption
    /\ UsedIsLive

\* What the steps of the handlers keep about the header list, the end of the
\* list and the totals.  used is the set of blocks in use afterwards.
ListKept(used) ==
    /\ HeapOK(hdr')
    /\ heap_end' \in DOMAIN hdr'
    /\ BlockEnd(hdr', heap_end') = HeapSize
    /\ Coalesced'
    /\ {a \in DOMAIN hdr' : hdr'[a].free = 0} = used
    /\ heap_total_allocated' \in 0 .. Word - 1
    /\ heap_total_free' \in 0 .. Word - 1

\* kmalloc of n bytes in a block that fits puts that block in use.
LEMMA TakeOK ==
  ASSUME IInv, NEW n \in Nat, NEW b \in Blocks, Fits(b, n), Take(b, n)
  PROVE  /\ ListKept({a \in Blocks : hdr[a].free = 0} \cup {b})
         /\ \A a \in Blocks \ {b} : hdr'[a].size = hdr[a].size
         /\ n <= hdr'[b].size /\ b \in DOMAIN hdr'
         /\ Checked(b) = kernel
  <1> DEFINE new == b + HeaderSize + n
             cut == Splits(hdr, b, n)
             h1 == IF cut THEN Split(hdr, b, n) ELSE hdr
  <1>0. HeaderSize \in Nat \ {0} /\ HeapSize \in Nat /\ Word \in Nat \ {0}
    BY LayoutAssumption
  <1>1. HeapOK(hdr) /\ heap_end \in Blocks /\ hdr[b].free = 1 /\ b \in DOMAIN hdr
    BY DEF IInv, TypeOK, Fits, Blocks
  <1>2. /\ HeapOK(h1) /\ b \in DOMAIN h1 /\ DOMAIN hdr \subseteq DOMAIN h1
        /\ \A a \in DOMAIN hdr \ {b} : /\ h1[a].size = hdr[a].size
                                       /\ h1[a].free = hdr[a].free
                                       /\ h1[a].next = hdr[a].next
    <2>1. CASE cut
      <3>1. h1 = Split(hdr, b, n)
        BY <2>1
      <3>2. /\ HeapOK(Split(hdr, b, n))
            /\ DOMAIN Split(hdr, b, n) = DOMAIN hdr \cup {new}
            /\ \A a \in DOMAIN hdr \ {b} :
                 /\ Split(hdr, b, n)[a].size = hdr[a].size
                 /\ Split(hdr, b, n)[a].free = hdr[a].free
                 /\ Split(hdr, b, n)[a].next = hdr[a].next
        <4>1. SplitKeeps(hdr, b, n)
          BY <1>1, <2>1, SplitOK
        <4>2. QED
          BY <4>1 DEF SplitKeeps
      <3> HIDE DEF h1
      <3>3. QED
        BY <1>1, <3>1, <3>2
    <2>2. CASE ~cut
      BY <1>1, <2>2
    <2>3. QED
      BY <2>1, <2>2
  <1>3. cut => /\ DOMAIN h1 = DOMAIN hdr \cup {new} /\ new \notin DOMAIN hdr
               /\ h1[new].free = 1 /\ h1[new].next = hdr[b].next
               /\ h1[new].size = hdr[b].size - n - HeaderSize
    <2>1. cut => SplitKeeps(hdr, b, n)
      BY <1>1, SplitOK
    <2>2. QED
      BY <2>1 DEF SplitKeeps
  <1> HIDE DEF h1
  <1>4. hdr' = MarkUsed(h1, b)
    BY DEF Take, h1
  <1>5. /\ HeapOK(hdr') /\ DOMAIN hdr' = DOMAIN h1 /\ hdr'[b].free = 0
        /\ \A a \in DOMAIN h1 : /\ hdr'[a].next = h1[a].next
                                /\ BlockEnd(hdr', a) = BlockEnd(h1, a)
        /\ \A a \in DOMAIN h1 \ {b} : hdr'[a] = h1[a]
    BY <1>2, <1>4, MarkUsedOK DEF MarkKeeps
  <1>6. heap_end' \in DOMAIN hdr' /\ BlockEnd(hdr', heap_end') = HeapSize
    <2>1. heap_end' = IF cut /\ heap_end = b THEN new ELSE heap_end
      BY DEF Take
    <2>2. BlockEnd(hdr, heap_end) = HeapSize
      BY DEF IInv
    <2>3. CASE cut /\ heap_end = b
      <3>1. BlockEnd(h1, new) = BlockEnd(hdr, b)
        <4>1. h1[new].size = hdr[b].size - n - HeaderSize /\ hdr[b].size \in Nat
              /\ b \in Int
          BY <1>1, <1>3, <2>3 DEF HeapOK, Header
        <4>2. QED
          BY <4>1, <1>0 DEF BlockEnd
      <3>2. QED
        BY <1>3, <1>5, <2>1, <2>2, <2>3, <3>1
    <2>4. CASE ~cut
      BY <1>1, <1>2, <1>5, <2>1, <2>2, <2>4 DEF h1, Blocks
    <2>5. CASE cut /\ heap_end # b
      <3>1. BlockEnd(h1, heap_end) = BlockEnd(hdr, heap_end)
        BY <1>1, <1>2, <2>5 DEF BlockEnd, Blocks
      <3>2. QED
        BY <1>1, <1>2, <1>5, <2>1, <2>2, <2>5, <3>1 DEF Blocks
    <2>6. QED
      BY <2>3, <2>4, <2>5
  <1>7. \A a \in DOMAIN hdr \ {b} : hdr'[a].free = hdr[a].free
    BY <1>2, <1>5
  <1>8. Coalesced'
    <2>1. SUFFICES ASSUME NEW a \in DOMAIN hdr', hdr'[a].free = 1,
                          hdr'[a].next # NULL, hdr'[hdr'[a].next].free = 1
                   PROVE  FALSE
      BY DEF Coalesced, NextIsFree, Blocks
    <2>2. a # b
      BY <2>1, <1>5
    <2>3. \A c \in DOMAIN hdr : hdr[c].free = 1 /\ hdr[c].next # NULL
                                  => hdr[hdr[c].next].free # 1
      BY DEF IInv, Coalesced, NextIsFree, Blocks
    <2>4. \A c \in DOMAIN hdr : hdr[c].next # NULL => hdr[c].next \in DOMAIN hdr
      BY <1>1 DEF HeapOK, TiledList
    <2>5. CASE a \in DOMAIN hdr
      <3>1. hdr'[a].next = hdr[a].next /\ hdr[a].free = 1
        BY <1>2, <1>5, <1>7, <2>1, <2>2, <2>5
      <3>2. hdr[a].next # b
        BY <2>1, <1>5, <3>1
      <3>3. QED
        BY <1>7, <2>1, <2>3, <2>4, <2>5, <3>1, <3>2
    <2>6. CASE a \notin DOMAIN hdr
      <3>1. cut /\ a = new
        BY <1>3, <1>5, <2>6 DEF h1
      <3>2. hdr'[a].next = hdr[b].next
        BY <1>3, <1>5, <2>1, <3>1
      <3>3. hdr[b].next # b
        BY <1>5, <2>1, <3>2
      <3>4. QED
        BY <1>1, <1>7, <2>1, <2>3, <2>4, <3>2, <3>3
    <2>7. QED
      BY <2>5, <2>6
  <1>9. {a \in DOMAIN hdr' : hdr'[a].free = 0}
          = {a \in Blocks : hdr[a].free = 0} \cup {b}
    <2>1. \A a \in DOMAIN hdr' : a \in DOMAIN hdr \/ hdr'[a].free = 1
      <3>1. cut => hdr'[new].free = 1
        BY <1>1, <1>3, <1>5
      <3>2. QED
        BY <1>3, <1>5, <3>1 DEF h1
    <2>2. QED
      BY <1>1, <1>2, <1>5, <1>7, <2>1 DEF Blocks
  <1>10. Checked(b) = kernel
    BY <1>1 DEF Checked, HeapOK
  <1>11. /\ heap_total_allocated' \in 0 .. Word - 1
         /\ heap_total_free' \in 0 .. Word - 1
    <2>1. h1[b].size \in Int
      BY <1>2 DEF HeapOK, Header
    <2>2. (IF cut THEN h1[new].size ELSE 0) \in Int
      BY <1>0, <1>1, <1>3 DEF HeapOK, Header
    <2>3. heap_total_allocated \in Int /\ heap_total_free \in Int
      <3>1. /\ heap_total_allocated \in 0 .. Word - 1
            /\ heap_total_free \in 0 .. Word - 1
        BY DEF IInv, TypeOK
      <3>2. QED
        BY <1>0, <3>1
    <2>4. heap_total_allocated' = (heap_total_allocated + h1[b].size) % Word
      BY DEF Take, h1
    <2>5. heap_total_free' =
            (heap_total_free + (IF cut THEN h1[new].size ELSE 0) - h1[b].size)
              % Word
      BY DEF Take, h1
    <2>6. ASSUME NEW x \in Int, NEW y \in Int, NEW z \in Int
          PROVE  (x + y - z) % Word \in 0 .. Word - 1
      BY <1>0, ModRange
    <2>7. heap_total_allocated + h1[b].size \in Int
      BY <2>1, <2>3
    <2> HIDE DEF cut, new
    <2>8. heap_total_allocated' \in 0 .. Word - 1
      BY <1>0, <2>4, <2>7, ModRange
    <2>9. heap_total_free' \in 0 .. Word - 1
      BY <2>1, <2>2, <2>3, <2>5, <2>6
    <2>10. QED
      BY <2>8, <2>9
  <1>12. \A a \in Blocks \ {b} : hdr'[a].size = hdr[a].size
    BY <1>2, <1>5 DEF Blocks
  <1>13. n <= hdr'[b].size
    <2>1. hdr'[b].size = h1[b].size
      BY <1>2, <1>4, MarkUsedOK DEF MarkKeeps
    <2>2. CASE cut
      <3>1. Split(hdr, b, n)[b].size = n
        <4>1. SplitKeeps(hdr, b, n)
          BY <1>1, <2>2, SplitOK
        <4>2. QED
          BY <4>1 DEF SplitKeeps
      <3>2. h1[b].size = n
        BY <2>2, <3>1 DEF h1
      <3>3. QED
        BY <2>1, <3>2
    <2>3. CASE ~cut
      BY <2>1, <2>3 DEF h1, Fits
    <2>4. QED
      BY <2>2, <2>3
  <1>14. QED
    BY <1>2, <1>5, <1>6, <1>8, <1>9, <1>10, <1>11, <1>12, <1>13 DEF ListKept

\* kfree of a used block puts that block out of use; whatever it merges with
\* was free, and afterwards the heap is coalesced again.
LEMMA ReleaseOK ==
  ASSUME IInv, NEW b \in Blocks, hdr[b].free = 0, Release(b)
  PROVE  /\ ListKept({a \in Blocks : hdr[a].free = 0} \ {b})
         /\ DOMAIN hdr' \subseteq Blocks
         /\ \A a \in Blocks \ {b} :
              hdr[a].free = 0 => a \in DOMAIN hdr' /\ hdr'[a].size = hdr[a].size
         /\ kernel' = kernel
         /\ remnant' = remnant \cup (Blocks \ DOMAIN hdr')
         /\ \E a \in DOMAIN hdr' : /\ hdr'[a].free = 1 /\ DataStart(a) <= DataStart(b)
                                   /\ BlockEnd(hdr, b) <= BlockEnd(hdr', a)
  <1> DEFINE m     == MarkFree(hdr, b)
             gone  == m[b].next
             fwd   == NextIsFree(m, b)
             h1    == IF fwd THEN Absorb(m, b) ELSE m
             end1  == IF fwd THEN EndAfter(heap_end, m, b) ELSE heap_end
             prev  == h1[b].prev
             back  == PrevIsFree(h1, b)
             h2    == IF back THEN Absorb(h1, prev) ELSE h1
  <1>0. HeaderSize \in Nat \ {0} /\ HeapSize \in Nat /\ Word \in Nat \ {0}
    BY LayoutAssumption
  <1>1. /\ HeapOK(hdr) /\ b \in DOMAIN hdr /\ heap_end \in DOMAIN hdr
        /\ BlockEnd(hdr, heap_end) = HeapSize
        /\ \A c \in DOMAIN hdr : hdr[c].free = 1 /\ hdr[c].next # NULL
                                  => hdr[hdr[c].next].free # 1
    BY DEF IInv, TypeOK, Coalesced, NextIsFree, Blocks
  <1>2. MarkKeeps(hdr, b, m) /\ m[b].free = 1
    BY <1>1, MarkFreeOK
  <1> HIDE DEF m
  <1>3. /\ HeapOK(m) /\ DOMAIN m = DOMAIN hdr
        /\ \A c \in DOMAIN hdr : m[c].next = hdr[c].next /\ m[c].size = hdr[c].size
        /\ \A c \in DOMAIN hdr \ {b} : m[c].free = hdr[c].free
        /\ BlockEnd(m, heap_end) = HeapSize
    BY <1>1, <1>2 DEF MarkKeeps
  \* The forward merge.
  <1>4. /\ HeapOK(h1) /\ b \in DOMAIN h1 /\ DOMAIN h1 \subseteq DOMAIN hdr
        /\ h1[b].free = 1
        /\ \A c \in DOMAIN h1 \ {b} : /\ h1[c].size = hdr[c].size
                                     /\ h1[c].free = hdr[c].free
                                     /\ h1[c].next = hdr[c].next
        /\ \A c \in DOMAIN hdr \ DOMAIN h1 : hdr[c].free = 1
        /\ end1 \in DOMAIN h1 /\ BlockEnd(h1, end1) = HeapSize
        /\ ~NextIsFree(h1, b)
        /\ fwd => gone \in DOMAIN hdr /\ m[gone].free = 1
    <2>1. CASE fwd
      <3>1. /\ HeapOK(m) /\ b \in DOMAIN m
            /\ m[b].next # NULL /\ m[gone].free = 1
        BY <1>1, <1>3, <2>1 DEF NextIsFree
      <3>2. /\ HeapOK(Absorb(m, b))
            /\ DOMAIN Absorb(m, b) = DOMAIN m \ {gone}
            /\ gone \in DOMAIN m /\ b \in DOMAIN Absorb(m, b)
            /\ Absorb(m, b)[b].next = m[gone].next
            /\ Absorb(m, b)[b].free = m[b].free
            /\ \A c \in DOMAIN m \ {b, gone} :
                 /\ Absorb(m, b)[c].size = m[c].size
                 /\ Absorb(m, b)[c].free = m[c].free
                 /\ Absorb(m, b)[c].next = m[c].next
                 /\ Absorb(m, b)[c].next # gone
        <4>1. AbsorbKeeps(m, b)
          BY <3>1, AbsorbOK
        <4>2. QED
          BY <4>1 DEF AbsorbKeeps
      <3>3. /\ end1 \in DOMAIN Absorb(m, b)
            /\ BlockEnd(Absorb(m, b), end1) = HeapSize
        BY <1>1, <1>3, <2>1, <3>1, EndAfterOK
      <3>4. gone # b
        BY <3>2
      <3>5. hdr[gone].free = 1
        BY <1>3, <3>1, <3>2, <3>4
      <3>6. h1 = Absorb(m, b)
        BY <2>1
      <3> HIDE DEF h1, fwd, gone
      <3>7. ~NextIsFree(Absorb(m, b), b)
        <4>1. SUFFICES ASSUME m[gone].next # NULL,
                              Absorb(m, b)[m[gone].next].free = 1
                       PROVE  FALSE
          BY <3>2 DEF NextIsFree
        <4>2. /\ m[gone].next \in DOMAIN m
              /\ m[m[gone].next].prev = gone
          BY <1>3, <3>2, <4>1 DEF HeapOK, TiledList
        <4>3. m[gone].next # gone /\ m[gone].next # b
          <5>1. b < gone /\ gone < BlockEnd(m, gone) /\ m[gone].next = BlockEnd(m, gone)
                /\ b \in Nat /\ gone \in Nat /\ BlockEnd(m, gone) \in Nat
            <6>1. b < gone
              <7>1. AbsorbKeeps(m, b)
                BY <1>1, <1>3, <3>1, AbsorbOK DEF gone
              <7>2. QED
                BY <7>1 DEF AbsorbKeeps, gone
            <6>2. m[gone].next = BlockEnd(m, gone)
              BY <1>3, <3>2, <4>1 DEF HeapOK, TiledList
            <6>3. b \in Nat /\ gone \in Nat /\ m[gone] \in Header
              BY <1>1, <1>3, <3>2 DEF HeapOK
            <6>4. QED
              BY <1>0, <6>1, <6>2, <6>3 DEF BlockEnd, Header
          <5>2. QED
            BY <5>1
        <4>4. hdr[m[gone].next].free = 1
          BY <1>3, <3>2, <4>1, <4>2, <4>3
        <4>5. QED
          BY <1>1, <1>3, <3>2, <3>5, <4>1, <4>4
      <3>8. QED
        BY <1>2, <1>3, <3>1, <3>2, <3>3, <3>5, <3>6, <3>7
    <2>2. CASE ~fwd
      BY <1>1, <1>2, <1>3, <2>2
    <2>3. QED
      BY <2>1, <2>2
  <1> HIDE DEF h1, end1, fwd, gone
  \* Only b and its predecessor may be a pair of free neighbours now.
  <1>5. ASSUME NEW c \in DOMAIN h1, h1[c].free = 1, NextIsFree(h1, c)
        PROVE  h1[c].next = b /\ h1[b].prev = c
    <2>1. c # b
      BY <1>4, <1>5
    <2>2. h1[c].next \in DOMAIN h1 /\ h1[h1[c].next].prev = c
      BY <1>4, <1>5 DEF NextIsFree, HeapOK, TiledList
    <2>3. CASE h1[c].next # b
      BY <1>1, <1>4, <1>5, <2>1, <2>2, <2>3 DEF NextIsFree
    <2>4. QED
      BY <2>2, <2>3
  \* The backward merge.
  <1>6. /\ HeapOK(h2) /\ DOMAIN h2 \subseteq DOMAIN h1
        /\ b \in DOMAIN h2 => h2[b].free = 1
        /\ \A c \in DOMAIN h2 \ {b} : h2[c].free = h1[c].free
        /\ \A c \in DOMAIN h2 \ {b} : h1[c].free = 0 => h2[c].size = h1[c].size
        /\ DOMAIN h1 \ DOMAIN h2 \subseteq {b}
        /\ \A c \in DOMAIN h2 : h2[c].free = 1 => ~NextIsFree(h2, c)
        /\ heap_end' \in DOMAIN h2 /\ BlockEnd(h2, heap_end') = HeapSize
        /\ back => prev \in DOMAIN h1
    <2>1. heap_end' = IF back THEN EndAfter(end1, h1, prev) ELSE end1
      BY DEF Release, m, h1, end1, fwd, gone
    <2>2. CASE back
      <3>1. prev # NULL /\ h1[prev].free = 1
        BY <2>2 DEF PrevIsFree
      <3>2. prev \in DOMAIN h1 /\ h1[prev].next = b
        <4>1. prev \in DOMAIN h1 /\ BlockEnd(h1, prev) = b
          BY <1>4, <3>1 DEF HeapOK, TiledList
        <4>2. b # HeapSize
          BY <1>0, <1>4 DEF HeapOK
        <4>3. QED
          BY <1>4, <4>1, <4>2 DEF HeapOK, TiledList
      <3>3. b # NULL /\ HeapOK(h1)
        BY <1>4 DEF HeapOK, NULL
      <3>4. /\ HeapOK(Absorb(h1, prev))
            /\ DOMAIN Absorb(h1, prev) = DOMAIN h1 \ {b}
            /\ prev \in DOMAIN Absorb(h1, prev)
            /\ Absorb(h1, prev)[prev].next = h1[b].next
            /\ Absorb(h1, prev)[prev].free = h1[prev].free
            /\ \A c \in DOMAIN h1 \ {prev, b} :
                 /\ Absorb(h1, prev)[c].size = h1[c].size
                 /\ Absorb(h1, prev)[c].free = h1[c].free
                 /\ Absorb(h1, prev)[c].next = h1[c].next
                 /\ Absorb(h1, prev)[c].next # b
        <4>1. AbsorbKeeps(h1, prev)
          BY <3>2, <3>3, AbsorbOK
        <4>2. QED
          BY <3>2, <4>1 DEF AbsorbKeeps
      <3>5. /\ EndAfter(end1, h1, prev) \in DOMAIN Absorb(h1, prev)
            /\ BlockEnd(Absorb(h1, prev), EndAfter(end1, h1, prev)) = HeapSize
        BY <1>4, <3>2, <3>3, EndAfterOK
      <3>6. h2 = Absorb(h1, prev)
        BY <2>2
      <3> HIDE DEF h2, prev
      <3>7. ASSUME NEW c \in DOMAIN h2, h2[c].free = 1 PROVE ~NextIsFree(h2, c)
        <4>1. \A x \in DOMAIN h2 : h2[x].free = h1[x].free
          BY <3>4, <3>6
        <4>2. h2[c].next # NULL => h2[c].next \in DOMAIN h2
          BY <3>4, <3>6 DEF HeapOK, TiledList
        <4>3. CASE c = prev
          BY <1>4, <3>4, <3>6, <4>1, <4>2, <4>3 DEF NextIsFree
        <4>4. CASE c # prev
          BY <1>5, <3>4, <3>6, <3>7, <4>1, <4>2, <4>4 DEF NextIsFree
        <4>5. QED
          BY <4>3, <4>4
      <3>8. QED
        BY <2>1, <2>2, <3>1, <3>2, <3>4, <3>5, <3>6, <3>7
    <2>3. CASE ~back
      <3>1. h2 = h1 /\ heap_end' = end1
        BY <2>1, <2>3
      <3>2. ASSUME NEW c \in DOMAIN h1, h1[c].free = 1 PROVE ~NextIsFree(h1, c)
        <4>1. SUFFICES ASSUME NextIsFree(h1, c) PROVE FALSE
          OBVIOUS
        <4>2. h1[b].prev = c
          BY <1>5, <3>2, <4>1
        <4>3. c # NULL
          BY <1>4 DEF HeapOK, NULL
        <4>4. QED
          BY <2>3, <3>2, <4>2, <4>3 DEF PrevIsFree
      <3> HIDE DEF h2
      <3>3. QED
        BY <1>4, <2>3, <3>1, <3>2
    <2>4. QED
      BY <2>2, <2>3
  <1>7. hdr' = h2
    BY DEF Release, m, h1, fwd, gone
  <1>8. Coalesced'
    BY <1>6, <1>7 DEF Coalesced, NextIsFree, Blocks
  <1>9. {a \in DOMAIN hdr' : hdr'[a].free = 0} = {a \in Blocks : hdr[a].free = 0} \ {b}
    <2>1. \A a \in DOMAIN h2 \ {b} : a \in DOMAIN hdr /\ h2[a].free = hdr[a].free
      BY <1>4, <1>6
    <2>2. \A a \in DOMAIN hdr \ DOMAIN h2 : a = b \/ hdr[a].free = 1
      BY <1>4, <1>6
    <2>3. b \in DOMAIN h2 => h2[b].free = 1
      BY <1>6
    <2> HIDE DEF h2
    <2>4. QED
      BY <1>7, <2>1, <2>2, <2>3 DEF Blocks
  <1>10. kernel' = kernel
    <2>1. kernel' = IF \/ fwd /\ m[gone].magic # HEAP_MAGIC_FREE
                       \/ back /\ h1[prev].magic # HEAP_MAGIC_FREE
                    THEN "HEAP_CORRUPTION"
                    ELSE IF NextIsFree(h1, b) THEN "merging on" ELSE kernel
      BY DEF Release, m, h1, fwd, gone
    <2>2. fwd => m[gone].magic = HEAP_MAGIC_FREE
      BY <1>3, <1>4 DEF HeapOK
    <2>3. back => h1[prev].magic = HEAP_MAGIC_FREE
      BY <1>4, <1>6 DEF HeapOK, PrevIsFree
    <2>4. QED
      BY <1>4, <2>1, <2>2, <2>3
  <1>11. /\ heap_total_allocated' \in 0 .. Word - 1
         /\ heap_total_free' \in 0 .. Word - 1
    <2> DEFINE front == IF back THEN prev ELSE b
               s1 == IF fwd THEN m[gone].size ELSE 0
               s2 == IF back THEN h1[prev].size ELSE 0
    <2>1. /\ heap_total_allocated \in 0 .. Word - 1
          /\ heap_total_free \in 0 .. Word - 1
      BY DEF IInv, TypeOK
    <2>2. hdr[b].size \in Int
      BY <1>1 DEF HeapOK, Header
    <2>3. s1 \in Int
      BY <1>3, <1>4 DEF HeapOK, Header
    <2>4. s2 \in Int
      BY <1>4, <1>6 DEF HeapOK, Header
    <2>5. h2[front].size \in Int
      <3>1. front \in DOMAIN h2
        <4>1. CASE back
          <5>1. prev # NULL /\ prev \in DOMAIN h1 /\ BlockEnd(h1, prev) = b
            BY <1>4, <4>1 DEF PrevIsFree, HeapOK, TiledList
          <5>2. prev # b
            BY <1>0, <1>4, <5>1 DEF HeapOK, BlockEnd, Header
          <5>3. QED
            BY <1>6, <4>1, <5>1, <5>2
        <4>2. CASE ~back
          BY <1>4, <4>2
        <4>3. QED
          BY <4>1, <4>2
      <3>2. QED
        BY <1>6, <3>1 DEF HeapOK, Header
    <2>6. heap_total_allocated' = (heap_total_allocated - hdr[b].size) % Word
      BY DEF Release, ReleasedSize
    <2>7. heap_total_free' = (heap_total_free - s1 - s2 + h2[front].size) % Word
      BY DEF Release, m, h1, fwd, gone
    <2> HIDE DEF h2, front, s1, s2
    <2>8. heap_total_allocated - hdr[b].size \in Int
      BY <1>0, <2>1, <2>2
    <2>9. heap_total_free - s1 - s2 + h2[front].size \in Int
      BY <1>0, <2>1, <2>3, <2>4, <2>5
    <2>10. QED
      BY <1>0, <2>6, <2>7, <2>8, <2>9, ModRange
  <1>12. ASSUME NEW a \in Blocks \ {b}, hdr[a].free = 0
         PROVE  a \in DOMAIN hdr' /\ hdr'[a].size = hdr[a].size
    <2>1. a \in DOMAIN h1 /\ h1[a].free = 0 /\ h1[a].size = hdr[a].size
      BY <1>4, <1>12 DEF Blocks
    <2>2. a \in DOMAIN h2
      BY <1>6, <2>1
    <2> HIDE DEF h2
    <2>3. QED
      BY <1>6, <1>7, <2>1, <2>2
  \* The block that the freed one is part of now is no smaller.
  <1>13. h1[b].size >= hdr[b].size
    <2>1. CASE fwd
      <3>1. m[b].next # NULL /\ b \in DOMAIN m
        BY <1>1, <1>3, <2>1 DEF NextIsFree, fwd
      <3>2. AbsorbKeeps(m, b)
        BY <1>3, <3>1, AbsorbOK
      <3>3. /\ gone \in DOMAIN m /\ gone = BlockEnd(m, b)
            /\ BlockEnd(Absorb(m, b), b) = BlockEnd(m, gone)
            /\ HeapOK(Absorb(m, b)) /\ b \in DOMAIN Absorb(m, b)
        BY <3>2 DEF AbsorbKeeps, gone
      <3>4. h1 = Absorb(m, b)
        BY <2>1 DEF h1
      <3>5. /\ m[gone].size \in Nat /\ h1[b].size \in Nat /\ hdr[b].size \in Nat
            /\ m[b].size = hdr[b].size /\ gone \in Nat /\ b \in Nat
        BY <1>1, <1>3, <3>3, <3>4 DEF HeapOK, Header
      <3>6. b + HeaderSize + h1[b].size = gone + HeaderSize + m[gone].size
        BY <3>3, <3>4 DEF BlockEnd
      <3>7. gone = b + HeaderSize + hdr[b].size
        BY <3>3, <3>5 DEF BlockEnd
      <3>8. QED
        BY <1>0, <3>5, <3>6, <3>7
    <2>2. CASE ~fwd
      <3>1. h1 = m /\ hdr[b].size \in Nat
        BY <1>1, <2>2 DEF h1, HeapOK, Header
      <3>2. QED
        BY <1>1, <1>3, <3>1
    <2>3. QED
      BY <2>1, <2>2
  <1>14. \E a \in DOMAIN h2 : /\ h2[a].free = 1 /\ DataStart(a) <= DataStart(b)
                              /\ BlockEnd(hdr, b) <= BlockEnd(h2, a)
    <2>0. h1[b].size \in Nat /\ hdr[b].size \in Nat /\ b \in Nat
      BY <1>1, <1>4 DEF HeapOK, Header
    <2>a. BlockEnd(hdr, b) <= BlockEnd(h1, b) /\ DataStart(b) <= DataStart(b)
      BY <1>0, <1>13, <2>0 DEF BlockEnd, DataStart
    <2>1. CASE back
      <3>1. prev # NULL /\ h1[prev].free = 1 /\ prev \in DOMAIN h1 /\ BlockEnd(h1, prev) = b
        BY <1>4, <2>1 DEF PrevIsFree, HeapOK, TiledList
      <3>2. h1[prev].next = b /\ b # NULL
        <4>1. b # HeapSize /\ b # NULL
          BY <1>0, <1>4 DEF HeapOK, NULL
        <4>2. QED
          BY <1>4, <3>1, <4>1 DEF HeapOK, TiledList
      <3>3. AbsorbKeeps(h1, prev)
        BY <1>4, <3>1, <3>2, AbsorbOK
      <3>4. h2 = Absorb(h1, prev)
        BY <2>1
      <3> HIDE DEF h2, prev
      <3>5. /\ prev \in DOMAIN h2 /\ BlockEnd(h2, prev) = BlockEnd(h1, b)
            /\ h2[prev].free = 1 /\ prev < b /\ HeapOK(h2)
        BY <3>1, <3>2, <3>3, <3>4 DEF AbsorbKeeps
      <3>6. prev \in Nat /\ DataStart(prev) <= DataStart(b)
        <4>1. prev \in Nat
          BY <3>5 DEF HeapOK
        <4>2. QED
          BY <1>0, <2>0, <3>5, <4>1 DEF DataStart
      <3>7. BlockEnd(hdr, b) <= BlockEnd(h2, prev)
        BY <2>a, <3>5
      <3>8. QED
        BY <3>5, <3>6, <3>7
    <2>2. CASE ~back
      BY <1>4, <2>2, <2>a
    <2>3. QED
      BY <2>1, <2>2
  <1>15. remnant' = remnant \cup (Blocks \ DOMAIN hdr')
    BY DEF Release
  <1> HIDE DEF h2
  <1>16. QED
    BY <1>4, <1>6, <1>7, <1>8, <1>9, <1>10, <1>11, <1>12, <1>14, <1>15
      DEF ListKept, Blocks

----------------------------------------------------------------------------
\* The requests for which rounding up stays below 2^32.
NoWrap == /\ \A req \in Requests : req + 3 < Word
          /\ \A r \in AlignedRequests : r[1] + r[2] + 7 < Word

LEMMA AlignUpIsInt ==
  ASSUME NEW x \in Nat, NEW m \in Nat \ {0} PROVE AlignUp(x, m) \in Int
  <1> DEFINE up == (x + m - 1) % Word
  <1>1. Word \in Nat \ {0} /\ x + m - 1 \in Int
    BY LayoutAssumption
  <1>2. up \in 0 .. Word - 1
    BY <1>1, ModRange
  <1>3. up \in Int
    BY <1>1, <1>2
  <1> HIDE DEF up
  <1>4. up % m \in 0 .. m - 1
    BY <1>3, ModRange
  <1>5. up - (up % m) \in Int
    BY <1>3, <1>4
  <1>6. QED
    BY <1>5 DEF AlignUp, up

LEMMA AlignUpBounds ==
  ASSUME NEW x \in Nat, NEW m \in Nat \ {0}, x + m - 1 < Word
  PROVE  x <= AlignUp(x, m) /\ AlignUp(x, m) <= x + m - 1
  <1> DEFINE y == x + m - 1
  <1>1. y \in Nat /\ y = x + m - 1
    OBVIOUS
  <1>2. y % Word = y
    BY <1>1, LayoutAssumption
  <1>3. AlignUp(x, m) = y - (y % m)
    BY <1>2 DEF AlignUp
  <1> HIDE DEF y
  <1>4. y % m \in 0 .. m - 1
    BY <1>1, ModRange
  <1>5. QED
    BY <1>1, <1>3, <1>4

LEMMA AlignSizeCovers ==
  ASSUME NEW n \in Nat, n + 3 < Word
  PROVE  n <= AlignSize(n)
  <1>1. (n + 3) % Word = n + 3
    BY LayoutAssumption
  <1>2. n <= (n + 3) - ((n + 3) % 4)
    OBVIOUS
  <1>3. QED
    BY <1>1, <1>2 DEF AlignSize

\* The variables outside the list stay in their types.
OthersTyped ==
    /\ heap_current' \in 0 .. HeapSize
    /\ remnant' \subseteq 0 .. HeapSize
    /\ last_freed' \in [ptr : Int, size : Nat]

AllocStep(b, n, p, req) ==
    /\ kernel = "running"
    /\ Fits(b, n)
    /\ Take(b, n)
    /\ HandOut(b, p, req)
    /\ kernel' \in {"running", "astray"}
    /\ NoWrap => /\ DataStart(b) <= p /\ p + req <= DataStart(b) + n
                 /\ kernel' = "running"

\* What is stored in the data of a block hits no header.
LEMMA DataHitsNothing ==
  ASSUME NEW h, HeapOK(h), NEW b \in DOMAIN h, NEW lo \in Int, NEW hi \in Int,
         DataStart(b) <= lo, hi <= BlockEnd(h, b)
  PROVE  ~HitsHeader(h, lo, hi)
  <1>1. HeaderSize \in Nat \ {0} /\ HeapSize \in Nat
    BY LayoutAssumption
  <1>2. SUFFICES ASSUME NEW a \in DOMAIN h, a < hi, lo < a + HeaderSize PROVE FALSE
    BY DEF HitsHeader
  <1>3. /\ a \in Nat /\ b \in Nat /\ h[a].size \in Nat /\ h[b].size \in Nat
        /\ a < b => BlockEnd(h, a) <= b
        /\ b < a => BlockEnd(h, b) <= a
    BY <1>1 DEF HeapOK, TiledList, Header
  <1>4. ~(a < b)
    BY <1>1, <1>2, <1>3 DEF BlockEnd, DataStart
  <1>5. ~(b < a)
    BY <1>1, <1>2, <1>3 DEF BlockEnd, DataStart
  <1>6. a = b
    BY <1>3, <1>4, <1>5
  <1>7. QED
    BY <1>1, <1>2, <1>3, <1>6 DEF DataStart

FreeStep(b) ==
    /\ kernel = "running"
    /\ hdr[b].free = 0
    /\ Release(b)

IdleStep ==
    /\ UNCHANGED <<hdr, heap_end, heap_total_allocated, heap_total_free, live>>
    /\ \/ UNCHANGED kernel
       \/ kernel = "running" /\ kernel' \in {"DOUBLE_FREE", "INVALID_POINTER"}

\* Seen from the header list, every step allocates a block, frees one, or
\* leaves the list alone.
LEMMA StepKinds ==
  ASSUME IInv, [Next]_vars
  PROVE  /\ OthersTyped
         /\ \/ \E b \in Blocks, n \in Nat, p \in Int, req \in Nat :
                  AllocStep(b, n, p, req)
            \/ \E b \in Blocks : FreeStep(b)
            \/ IdleStep
  <1>0. /\ HeaderSize \in Nat \ {0} /\ HeapSize \in Nat /\ HeapBase \in Nat
        /\ Word \in Nat \ {0}
    BY LayoutAssumption
  <1>1. /\ Blocks \subseteq 0 .. HeapSize - HeaderSize
        /\ heap_current \in 0 .. HeapSize
        /\ remnant \subseteq 0 .. HeapSize
        /\ last_freed \in [ptr : Int, size : Nat]
        /\ live \in [DOMAIN live -> [ptr : Int, req : Nat]]
    BY DEF IInv, TypeOK
  <1>2. NotFreed \in [ptr : Int, size : Nat]
    BY DEF NotFreed, NULL
  <1>3. \A b \in Blocks : b \in Int /\ DataStart(b) \in Nat
    BY <1>0, <1>1 DEF DataStart
  <1>4. ASSUME NEW req \in Requests, Kmalloc(req)
        PROVE  OthersTyped
               /\ \E b \in Blocks, n \in Nat, p \in Int, r \in Nat :
                    AllocStep(b, n, p, r)
    <2>1. req \in Nat /\ AlignSize(req) \in Nat
      BY CallsAssumption, AlignSizeNat
    <2>2. PICK b \in Blocks : /\ FirstFit(b, AlignSize(req))
                              /\ Take(b, AlignSize(req))
                              /\ kernel' = Checked(b)
                              /\ remnant' = remnant \ NewHeaderBytes(b, AlignSize(req))
                              /\ HandOut(b, DataStart(b), req)
      BY <1>4 DEF Kmalloc
    <2>3. NoWrap => DataStart(b) + req <= DataStart(b) + AlignSize(req)
      <3>1. NoWrap => req <= AlignSize(req)
        BY <2>1, AlignSizeCovers DEF NoWrap
      <3>2. QED
        BY <1>3, <2>1, <3>1
    <2>4. AllocStep(b, AlignSize(req), DataStart(b), req)
      <3>1. kernel = "running" /\ Fits(b, AlignSize(req)) /\ Take(b, AlignSize(req))
        BY <1>4, <2>2 DEF Kmalloc, FirstFit
      <3>2. kernel' = "running"
        BY <2>1, <2>2, <3>1, TakeOK
      <3>3. DataStart(b) <= DataStart(b)
        BY <1>3
      <3>4. QED
        BY <2>2, <2>3, <3>1, <3>2, <3>3 DEF AllocStep
    <2>5. OthersTyped
      BY <1>1, <1>2, <1>4, <2>2 DEF OthersTyped, Kmalloc
    <2>6. QED
      BY <1>3, <2>1, <2>4, <2>5
  <1>5. ASSUME NEW r \in AlignedRequests, KmallocAligned(r[1], r[2])
        PROVE  OthersTyped
               /\ \E b \in Blocks, n \in Nat, p \in Int, q \in Nat :
                    AllocStep(b, n, p, q)
    <2> DEFINE total == AlignedTotal(r[1], r[2])
               n == AlignSize(total)
    <2>1. r[1] \in Nat /\ r[2] \in Nat \ {0}
      BY CallsAssumption
    <2>2. total \in Nat
      <3>1. r[1] + r[2] + 4 \in Int
        BY <2>1
      <3>2. (r[1] + r[2] + 4) % Word \in 0 .. Word - 1
        BY <1>0, <3>1, ModRange
      <3>3. QED
        BY <1>0, <3>2 DEF AlignedTotal
    <2>3. n \in Nat
      BY <2>2, AlignSizeNat
    <2>4. PICK b \in Blocks :
            /\ FirstFit(b, n) /\ Take(b, n)
            /\ kernel' = IF /\ Checked(b) = "running"
                           /\ HitsHeader(hdr', AlignedPtr(DataStart(b), r[2]) - 4,
                                         AlignedPtr(DataStart(b), r[2]))
                         THEN "astray" ELSE Checked(b)
            /\ remnant' = remnant \
                 (NewHeaderBytes(b, n)
                    \cup Overwritten(AlignedPtr(DataStart(b), r[2]) - 4,
                                     AlignedPtr(DataStart(b), r[2])))
            /\ HandOut(b, AlignedPtr(DataStart(b), r[2]), r[1])
      BY <1>5 DEF KmallocAligned
    <2> DEFINE p == AlignedPtr(DataStart(b), r[2])
    <2>5. p \in Int
      <3>1. HeapBase + DataStart(b) + 4 \in Nat
        BY <1>0, <1>3
      <3>2. AlignUp(HeapBase + DataStart(b) + 4, r[2]) \in Int
        BY <2>1, <3>1, AlignUpIsInt
      <3>3. QED
        BY <1>0, <3>2 DEF AlignedPtr
    <2>6. /\ kernel = "running" /\ Fits(b, n) /\ Take(b, n)
          /\ Checked(b) = "running" /\ HeapOK(hdr')
          /\ b \in DOMAIN hdr' /\ n <= hdr'[b].size
      <3>1. kernel = "running" /\ Fits(b, n) /\ Take(b, n)
        BY <1>5, <2>4 DEF KmallocAligned, FirstFit
      <3> HIDE DEF n
      <3>2. QED
        BY <2>3, <3>1, TakeOK DEF ListKept
    <2> HIDE DEF n, p
    <2>7. ASSUME NoWrap
          PROVE  /\ DataStart(b) + 4 <= p /\ p + r[1] <= DataStart(b) + n
      <3> HIDE DEF total
      <3>1. r[1] + r[2] + 7 < Word
        BY <2>7 DEF NoWrap
      <3>2. total = r[1] + r[2] + 4
        <4>1. ASSUME NEW x \in Nat, x < Word PROVE x % Word = x
          BY <1>0, <4>1
        <4>2. r[1] + r[2] + 4 \in Nat /\ r[1] + r[2] + 4 < Word
          BY <1>0, <2>1, <3>1
        <4>3. QED
          BY <4>1, <4>2 DEF AlignedTotal, total
      <3>3. total <= n
        <4>1. total + 3 < Word
          BY <2>1, <3>1, <3>2
        <4>2. QED
          BY <2>2, <4>1, AlignSizeCovers DEF n
      <3>4. DataStart(b) + n <= HeapSize
        <4>1. hdr[b].size \in Nat /\ BlockEnd(hdr, b) <= HeapSize
          BY DEF IInv, HeapOK, TiledList, Header, Blocks
        <4>2. QED
          BY <1>0, <1>1, <2>3, <2>6, <4>1 DEF Fits, BlockEnd, DataStart
      <3>5. HeapBase + DataStart(b) + 4 \in Nat
        BY <1>0, <1>3
      <3>6. (HeapBase + DataStart(b) + 4) + r[2] - 1 < Word
        BY <1>0, <1>3, <2>1, <2>2, <2>3, <3>2, <3>3, <3>4, LayoutAssumption
      <3> DEFINE up == AlignUp(HeapBase + DataStart(b) + 4, r[2])
      <3>7. /\ HeapBase + DataStart(b) + 4 <= up
            /\ up <= (HeapBase + DataStart(b) + 4) + r[2] - 1
        BY <2>1, <3>5, <3>6, AlignUpBounds
      <3>8. p = up - HeapBase
        BY DEF p, AlignedPtr
      <3>9. up \in Int
        BY <2>1, <3>5, AlignUpIsInt
      <3> HIDE DEF up
      <3>10. QED
        BY <1>0, <1>3, <2>1, <2>2, <2>3, <3>2, <3>3, <3>7, <3>8, <3>9
    <2>a. NoWrap => ~HitsHeader(hdr', p - 4, p)
      <3>1. SUFFICES ASSUME NoWrap PROVE ~HitsHeader(hdr', p - 4, p)
        OBVIOUS
      <3>2. p - 4 \in Int /\ DataStart(b) <= p - 4
        BY <1>3, <2>5, <2>7, <3>1
      <3>3. hdr'[b].size \in Nat /\ b \in Int
        BY <1>3, <2>6 DEF HeapOK, Header
      <3>4. p <= BlockEnd(hdr', b)
        <4>1. DataStart(b) + n <= BlockEnd(hdr', b)
          BY <1>0, <2>3, <2>6, <3>3 DEF DataStart, BlockEnd
        <4>2. BlockEnd(hdr', b) \in Int
          BY <1>0, <3>3 DEF BlockEnd
        <4>3. QED
          BY <1>3, <2>1, <2>3, <2>5, <2>7, <3>1, <4>1, <4>2
      <3>5. QED
        BY <2>5, <2>6, <3>2, <3>4, DataHitsNothing
    <2>b. kernel' = IF HitsHeader(hdr', p - 4, p) THEN "astray" ELSE "running"
      BY <2>4, <2>6 DEF p
    <2>c. NoWrap => DataStart(b) <= p
      BY <1>3, <2>5, <2>7
    <2>d. HandOut(b, p, r[1])
      BY <2>4 DEF p
    <2>e. AllocStep(b, n, p, r[1])
      BY <2>6, <2>7, <2>a, <2>b, <2>c, <2>d DEF AllocStep
    <2>8. OthersTyped
      BY <1>1, <1>2, <1>5, <2>4 DEF OthersTyped, KmallocAligned
    <2>9. QED
      BY <2>1, <2>3, <2>5, <2>8, <2>e
  <1>6. ASSUME NEW ptr \in HeldPtrs, Kfree(ptr)
        PROVE  OthersTyped /\ \E b \in Blocks : FreeStep(b)
    <2> DEFINE b == ptr - HeaderSize
    <2>1. ptr \in Int
      BY <1>1 DEF HeldPtrs
    <2>2. b \in Blocks /\ hdr[b].magic = HEAP_MAGIC
      BY <1>6 DEF Kfree, Magic, HEAP_MAGIC, HEAP_MAGIC_FREE
    <2>3. hdr[b].free = 0 /\ hdr[b].size \in Nat
      <3>1. hdr[b] \in Header /\ (hdr[b].free = 1 <=> hdr[b].magic = HEAP_MAGIC_FREE)
        BY <2>2 DEF IInv, HeapOK, Blocks
      <3>2. QED
        BY <2>2, <3>1 DEF Header, HEAP_MAGIC, HEAP_MAGIC_FREE
    <2>4. FreeStep(b)
      BY <1>6, <2>3 DEF Kfree, FreeStep
    <2>5. last_freed' = [ptr |-> ptr, size |-> hdr[b].size] /\ heap_current' = heap_current
      BY <1>6 DEF Kfree
    <2>6. remnant' \subseteq remnant \cup Blocks
      BY <1>6 DEF Kfree, Release
    <2> HIDE DEF b
    <2>7. OthersTyped
      BY <1>0, <1>1, <2>1, <2>3, <2>5, <2>6 DEF OthersTyped
    <2>8. QED
      BY <2>2, <2>4, <2>7
  <1>7. ASSUME NEW req \in Requests, KmallocFails(req)
        PROVE  OthersTyped /\ IdleStep
    BY <1>1, <1>2, <1>7 DEF KmallocFails, heapVars, OthersTyped, IdleStep
  <1>8. ASSUME NEW ptr, KfreePanics(ptr)
        PROVE  OthersTyped /\ IdleStep
    BY <1>1, <1>8 DEF KfreePanics, heapVars, OthersTyped, IdleStep
  <1>9. ASSUME NEW increment \in Increments, Kbrk(increment)
        PROVE  OthersTyped /\ IdleStep
    <2>1. (HeapBase + heap_current + increment) % Word \in Int
      BY <1>0, <1>1, CallsAssumption, ModRange
    <2>2. heap_current' \in 0 .. HeapSize
      BY <1>0, <1>9, <2>1 DEF Kbrk
    <2>3. QED
      BY <1>1, <1>2, <1>9, <2>2 DEF Kbrk, heapVars, OthersTyped, IdleStep
  <1>10. ASSUME NEW b \in DOMAIN live, ClientWrite(b)
         PROVE  OthersTyped /\ IdleStep
    BY <1>1, <1>2, <1>10 DEF ClientWrite, OthersTyped, IdleStep
  <1>11. ASSUME UNCHANGED vars
         PROVE  OthersTyped /\ IdleStep
    BY <1>1, <1>11 DEF vars, OthersTyped, IdleStep
  <1>12. QED
    BY <1>4, <1>5, <1>6, <1>7, <1>8, <1>9, <1>10, <1>11 DEF Next

----------------------------------------------------------------------------
\* The heap kheap_init makes: one free block.
LEMMA InitHolds == Init => IInv
  <1> SUFFICES ASSUME Init PROVE IInv
    OBVIOUS
  <1>0. /\ HeaderSize \in Nat \ {0} /\ HeapSize \in Nat /\ HeaderSize <= HeapSize
        /\ Word \in Nat /\ HeapSize < Word
    BY LayoutAssumption
  <1>1. /\ DOMAIN hdr = {0}
        /\ hdr[0] = [magic |-> HEAP_MAGIC_FREE, size |-> HeapSize - HeaderSize,
                     free |-> 1, next |-> NULL, prev |-> NULL]
        /\ hdr = [a \in DOMAIN hdr |-> hdr[a]]
    BY DEF Init
  <1>2. /\ hdr[0] \in Header /\ BlockEnd(hdr, 0) = HeapSize
        /\ hdr[0].free = 1 /\ hdr[0].magic = HEAP_MAGIC_FREE
        /\ hdr[0].next = NULL /\ hdr[0].prev = NULL
    BY <1>0, <1>1 DEF Header, NULL, BlockEnd
  <1>3. hdr \in [Blocks -> Header]
    BY <1>1, <1>2 DEF Blocks
  <1>4. HeapOK(hdr)
    BY <1>0, <1>1, <1>2, <1>3 DEF HeapOK, TiledList, Blocks
  <1>5. TypeOK
    <2>1. live = [a \in {} |-> [ptr |-> NULL, req |-> 0]]
      BY DEF Init
    <2>2. live \in [DOMAIN live -> [ptr : Int, req : Nat]]
      BY <2>1
    <2>3. NotFreed \in [ptr : Int, size : Nat]
      BY DEF NotFreed, NULL
    <2>4. QED
      BY <1>0, <1>1, <1>3, <2>2, <2>3 DEF Init, TypeOK, Blocks
  <1>6. Coalesced
    BY <1>1, <1>2 DEF Coalesced, NextIsFree, Blocks
  <1>7. UsedIsLive
    BY <1>1, <1>2 DEF UsedIsLive, Init, Blocks
  <1>8. NoCorruption /\ BlockEnd(hdr, heap_end) = HeapSize
    BY <1>2 DEF Init, NoCorruption
  <1>9. QED
    BY <1>4, <1>5, <1>6, <1>7, <1>8 DEF IInv

\* What is left to show about a step that keeps the list.
LEMMA ListKeeps ==
  ASSUME IInv, OthersTyped, NEW used, ListKept(used), used = DOMAIN live',
         kernel' = kernel \/ kernel' = "astray",
         live' \in [DOMAIN live' -> [ptr : Int, req : Nat]]
  PROVE  IInv'
  <1>1. /\ kernel \in {"running", "DOUBLE_FREE", "INVALID_POINTER",
                       "HEAP_CORRUPTION", "merging on", "astray"}
        /\ NoCorruption
    BY DEF IInv, TypeOK
  <1>2. TypeOK'
    BY <1>1 DEF ListKept, OthersTyped, TypeOK, HeapOK, Blocks
  <1>3. UsedIsLive' /\ NoCorruption' /\ Coalesced'
    BY <1>1 DEF ListKept, UsedIsLive, NoCorruption, Blocks
  <1>4. HeapOK(hdr)' /\ (BlockEnd(hdr, heap_end) = HeapSize)'
    BY DEF ListKept
  <1>5. QED
    BY <1>2, <1>3, <1>4 DEF IInv

LEMMA AllocKeeps ==
  ASSUME IInv, OthersTyped, NEW b \in Blocks, NEW n \in Nat, NEW p \in Int,
         NEW req \in Nat, Fits(b, n), Take(b, n), HandOut(b, p, req),
         kernel' = kernel \/ kernel' = "astray"
  PROVE  IInv'
  <1>1. /\ live \in [DOMAIN live -> [ptr : Int, req : Nat]]
        /\ {a \in Blocks : hdr[a].free = 0} = DOMAIN live
    BY DEF IInv, TypeOK, UsedIsLive
  <1>2. ListKept({a \in Blocks : hdr[a].free = 0} \cup {b})
    BY TakeOK
  <1>3. live' = [a \in DOMAIN live \cup {b} |->
                   IF a = b THEN [ptr |-> p, req |-> req] ELSE live[a]]
    BY DEF HandOut
  <1>4. live' \in [DOMAIN live' -> [ptr : Int, req : Nat]]
    BY <1>1, <1>3
  <1>5. DOMAIN live' = {a \in Blocks : hdr[a].free = 0} \cup {b}
    BY <1>1, <1>3
  <1>6. QED
    BY <1>2, <1>4, <1>5, ListKeeps

LEMMA FreeKeeps ==
  ASSUME IInv, OthersTyped, NEW b \in Blocks, hdr[b].free = 0, Release(b)
  PROVE  IInv'
  <1>1. /\ live \in [DOMAIN live -> [ptr : Int, req : Nat]]
        /\ {a \in Blocks : hdr[a].free = 0} = DOMAIN live
    BY DEF IInv, TypeOK, UsedIsLive
  <1>2. ListKept({a \in Blocks : hdr[a].free = 0} \ {b})
    BY ReleaseOK
  <1>3. live' = [a \in DOMAIN live \ {b} |-> live[a]]
    BY DEF Release
  <1>4. live' \in [DOMAIN live' -> [ptr : Int, req : Nat]]
    BY <1>1, <1>3
  <1>5. DOMAIN live' = {a \in Blocks : hdr[a].free = 0} \ {b}
    BY <1>1, <1>3
  <1>6. kernel' = kernel
    BY ReleaseOK
  <1>7. QED
    BY <1>2, <1>4, <1>5, <1>6, ListKeeps

LEMMA StepHolds == IInv /\ [Next]_vars => IInv'
  <1> SUFFICES ASSUME IInv, [Next]_vars PROVE IInv'
    OBVIOUS
  <1>1. OthersTyped
    BY StepKinds
  <1>2. ASSUME NEW b \in Blocks, NEW n \in Nat, NEW p \in Int, NEW req \in Nat,
               AllocStep(b, n, p, req)
        PROVE  IInv'
    BY <1>1, <1>2, AllocKeeps DEF AllocStep
  <1>3. ASSUME NEW b \in Blocks, FreeStep(b) PROVE IInv'
    BY <1>1, <1>3, FreeKeeps DEF FreeStep
  <1>4. ASSUME IdleStep PROVE IInv'
    <2>1. /\ hdr' = hdr /\ heap_end' = heap_end /\ live' = live
          /\ heap_total_allocated' = heap_total_allocated
          /\ heap_total_free' = heap_total_free
      BY <1>4 DEF IdleStep
    <2>2. kernel' = kernel \/ kernel' \in {"DOUBLE_FREE", "INVALID_POINTER"}
      BY <1>4 DEF IdleStep
    <2>3. TypeOK'
      BY <1>1, <2>1, <2>2 DEF IInv, TypeOK, OthersTyped, Blocks
    <2>4. NoCorruption'
      BY <2>2 DEF IInv, NoCorruption
    <2>5. Coalesced' /\ UsedIsLive'
      BY <2>1 DEF IInv, Coalesced, NextIsFree, UsedIsLive, Blocks
    <2>6. HeapOK(hdr)' /\ (BlockEnd(hdr, heap_end) = HeapSize)'
      BY <2>1 DEF IInv, HeapOK, TiledList, BlockEnd, Header
    <2>7. QED
      BY <2>3, <2>4, <2>5, <2>6 DEF IInv
  <1>5. QED
    BY <1>2, <1>3, <1>4, StepKinds

LEMMA Invariance == Spec => []IInv
  BY InitHolds, StepHolds, PTL DEF Spec

\* The heap variables keep their types, and every link its range.
THEOREM TypeCorrectness == Spec => []TypeOK
  <1>1. IInv => TypeOK
    BY DEF IInv
  <1>2. QED
    BY <1>1, Invariance, PTL

\* The headers always tile the arena and link it in both directions: no two
\* blocks overlap and no byte of the heap is lost, after any calls at all.
THEOREM HeapIsTiled == Spec => []Tiled
  <1>1. IInv => Tiled
    BY DEF IInv, Tiled, HeapOK
  <1>2. QED
    BY <1>1, Invariance, PTL

\* Neighbouring free blocks are always merged by the call that frees them.
THEOREM EagerCoalescing == Spec => []Coalesced
  <1>1. IInv => Coalesced
    BY DEF IInv
  <1>2. QED
    BY <1>1, Invariance, PTL

\* The corruption checks of find_free_block and merge_blocks never fire, and
\* merge_blocks never merges forward twice.
THEOREM ChecksNeverFire == Spec => []NoCorruption
  <1>1. IInv => NoCorruption
    BY DEF IInv
  <1>2. QED
    BY <1>1, Invariance, PTL

\* The blocks in use are exactly those some client holds.
THEOREM NothingLeaks == Spec => []UsedIsLive
  <1>1. IInv => UsedIsLive
    BY DEF IInv
  <1>2. QED
    BY <1>1, Invariance, PTL

\* When every allocation has been freed the heap is one free block again.
THEOREM EmptyHeapIsWhole == Spec => []WholeWhenEmpty
  <1>1. ASSUME IInv, DOMAIN live = {}
        PROVE  Blocks = {0} /\ hdr[0].size = HeapSize - HeaderSize
    <2>1. HeapOK(hdr) /\ HeaderSize \in Nat \ {0} /\ HeapSize \in Nat
      BY <1>1, LayoutAssumption DEF IInv
    <2>2. \A a \in Blocks : hdr[a] \in Header /\ a \in 0 .. HeapSize - HeaderSize
      BY <2>1 DEF HeapOK, Blocks
    <2>3. \A a \in Blocks : hdr[a].free = 1
      BY <1>1, <2>2 DEF IInv, UsedIsLive, Header
    <2>4. 0 \in Blocks
      BY <2>1 DEF HeapOK, TiledList, Blocks
    <2>5. hdr[0].next = NULL
      <3>1. hdr[0].next # NULL => hdr[0].next \in Blocks
        BY <2>1, <2>4 DEF HeapOK, TiledList, Blocks
      <3>2. QED
        BY <1>1, <2>3, <2>4, <3>1 DEF IInv, Coalesced, NextIsFree
    <2>6. BlockEnd(hdr, 0) = HeapSize
      BY <2>1, <2>2, <2>4, <2>5 DEF HeapOK, TiledList, Blocks, NULL
    <2>7. \A a \in Blocks : a # 0 => HeapSize <= a
      BY <2>1, <2>2, <2>4, <2>6 DEF HeapOK, TiledList, Blocks
    <2>8. Blocks = {0}
      BY <2>1, <2>2, <2>4, <2>7
    <2>9. hdr[0].size = HeapSize - HeaderSize
      BY <2>1, <2>2, <2>4, <2>6 DEF BlockEnd, Header
    <2>10. QED
      BY <2>8, <2>9
  <1>2. IInv => WholeWhenEmpty
    BY <1>1 DEF WholeWhenEmpty
  <1>3. QED
    BY <1>2, Invariance, PTL

----------------------------------------------------------------------------
\* A step changes the list only at the block it hands out or takes back.
LEMMA SizesKept ==
  ASSUME IInv, [Next]_vars, NEW a \in DOMAIN live, a \in DOMAIN live'
  PROVE  /\ a \in Blocks /\ a \in DOMAIN hdr'
         /\ hdr'[a].size = hdr[a].size /\ live'[a] = live[a]
  <1>1. DOMAIN live = {c \in Blocks : hdr[c].free = 0}
    BY DEF IInv, UsedIsLive
  <1>2. DOMAIN live' = {c \in DOMAIN hdr' : hdr'[c].free = 0}
    BY StepHolds DEF IInv, UsedIsLive, Blocks
  <1>3. a \in Blocks /\ hdr[a].free = 0 /\ a \in DOMAIN hdr'
    BY <1>1, <1>2
  <1>4. ASSUME NEW b \in Blocks, NEW n \in Nat, NEW p \in Int, NEW req \in Nat,
               AllocStep(b, n, p, req)
        PROVE  hdr'[a].size = hdr[a].size /\ live'[a] = live[a]
    <2>1. a # b
      BY <1>3, <1>4 DEF AllocStep, Fits
    <2>2. \A c \in Blocks \ {b} : hdr'[c].size = hdr[c].size
      BY <1>4, TakeOK DEF AllocStep
    <2>3. live'[a] = live[a]
      BY <1>4, <2>1 DEF AllocStep, HandOut
    <2>4. QED
      BY <1>3, <2>1, <2>2, <2>3
  <1>5. ASSUME NEW b \in Blocks, FreeStep(b)
        PROVE  hdr'[a].size = hdr[a].size /\ live'[a] = live[a]
    <2>1. live' = [c \in DOMAIN live \ {b} |-> live[c]]
      BY <1>5 DEF FreeStep, Release
    <2>2. a # b
      BY <2>1
    <2>3. \A c \in Blocks \ {b} : hdr[c].free = 0 => hdr'[c].size = hdr[c].size
      BY <1>5, ReleaseOK DEF FreeStep
    <2>4. QED
      BY <1>3, <2>1, <2>2, <2>3
  <1>6. ASSUME IdleStep PROVE hdr'[a].size = hdr[a].size /\ live'[a] = live[a]
    BY <1>6 DEF IdleStep
  <1>7. \/ \E b \in Blocks, n \in Nat, p \in Int, req \in Nat :
              AllocStep(b, n, p, req)
        \/ \E b \in Blocks : FreeStep(b)
        \/ IdleStep
    BY StepKinds
  <1>8. hdr'[a].size = hdr[a].size /\ live'[a] = live[a]
    BY <1>4, <1>5, <1>6, <1>7
  <1>9. QED
    BY <1>3, <1>8

\* No call moves, resizes or writes a header into an allocation of a client
\* that holds it before and after the call.
THEOREM AllocationsNeverMove == Spec => AllocationsStable
  <1>1. ASSUME IInv, [Next]_vars, NEW b \in DOMAIN live, b \in DOMAIN live'
        PROVE  /\ live'[b] = live[b]
               /\ hdr'[b].size = hdr[b].size
               /\ \A a \in DOMAIN hdr' \ {b} :
                    a + HeaderSize <= b \/ BlockEnd(hdr, b) <= a
    <2>1. /\ b \in Blocks /\ b \in DOMAIN hdr'
          /\ hdr'[b].size = hdr[b].size /\ live'[b] = live[b]
      BY <1>1, SizesKept
    <2>2. HeapOK(hdr') /\ HeaderSize \in Nat
      BY <1>1, StepHolds, LayoutAssumption DEF IInv
    <2>3. BlockEnd(hdr', b) = BlockEnd(hdr, b)
      BY <2>1 DEF BlockEnd
    <2>4. ASSUME NEW a \in DOMAIN hdr' \ {b}
          PROVE  a + HeaderSize <= b \/ BlockEnd(hdr', b) <= a
      <3>1. a \in Nat /\ b \in Nat /\ hdr'[a].size \in Nat
        BY <2>1, <2>2, LayoutAssumption DEF HeapOK, Header
      <3>2. b < a => BlockEnd(hdr', b) <= a
        BY <2>1, <2>2 DEF HeapOK, TiledList
      <3>3. a < b => BlockEnd(hdr', a) <= b
        BY <2>1, <2>2 DEF HeapOK, TiledList
      <3>4. a < b => a + HeaderSize <= b
        BY <2>2, <3>1, <3>3 DEF BlockEnd
      <3>5. QED
        BY <3>1, <3>2, <3>4
    <2>5. QED
      BY <2>1, <2>3, <2>4
  <1>2. IInv /\ [Next]_vars =>
          [\A b \in DOMAIN live \cap DOMAIN live' :
             /\ live'[b] = live[b]
             /\ hdr'[b].size = hdr[b].size
             /\ \A a \in DOMAIN hdr' \ {b} :
                  a + HeaderSize <= b \/ BlockEnd(hdr, b) <= a]_vars
    BY <1>1
  <1>3. QED
    BY <1>2, Invariance, PTL DEF Spec, AllocationsStable

\* As long as no request is so large that rounding it up wraps around, every
\* client owns the bytes it asked for, kmalloc_aligned's clients included.
THEOREM EveryRequestServed ==
  ASSUME NoWrap PROVE Spec => []ClientsServed
  <1>1. Init => ClientsServed
    BY DEF Init, ClientsServed
  <1>2. ASSUME IInv, ClientsServed, [Next]_vars PROVE ClientsServed'
    <2>0. kernel' # "astray"
      <3>1. kernel # "astray"
        BY <1>2 DEF ClientsServed
      <3>2. \A b \in Blocks : FreeStep(b) => kernel' = kernel
        BY <1>2, ReleaseOK DEF FreeStep
      <3>3. QED
        BY <1>2, <3>1, <3>2, StepKinds DEF AllocStep, IdleStep
    <2>1. SUFFICES ASSUME NEW a \in DOMAIN live'
                   PROVE  /\ DataStart(a) <= live'[a].ptr
                          /\ live'[a].ptr + live'[a].req <= BlockEnd(hdr', a)
      BY <2>0 DEF ClientsServed, DataStart
    <2>2. CASE a \in DOMAIN live
      <3>1. hdr'[a].size = hdr[a].size /\ live'[a] = live[a]
        BY <1>2, <2>2, SizesKept
      <3>2. BlockEnd(hdr', a) = BlockEnd(hdr, a)
        BY <3>1 DEF BlockEnd
      <3>3. QED
        BY <1>2, <2>2, <3>1, <3>2 DEF ClientsServed
    <2>3. CASE a \notin DOMAIN live
      <3>1. ~IdleStep
        BY <2>3 DEF IdleStep
      <3>2. \A b \in Blocks : ~FreeStep(b)
        BY <2>3 DEF FreeStep, Release
      <3>3. PICK b \in Blocks, n \in Nat, p \in Int, req \in Nat :
                 AllocStep(b, n, p, req)
        BY <1>2, <3>1, <3>2, StepKinds
      <3>4. live' = [c \in DOMAIN live \cup {b} |->
                       IF c = b THEN [ptr |-> p, req |-> req] ELSE live[c]]
        BY <3>3 DEF AllocStep, HandOut
      <3>5. a = b /\ live'[a] = [ptr |-> p, req |-> req]
        BY <2>3, <3>4
      <3>6. DataStart(b) <= p /\ p + req <= DataStart(b) + n
        BY <3>3 DEF AllocStep
      <3>7. n <= hdr'[b].size
        BY <1>2, <3>3, TakeOK DEF AllocStep
      <3>8. b \in DOMAIN hdr'
        <4>1. DOMAIN live' = {c \in DOMAIN hdr' : hdr'[c].free = 0}
          BY <1>2, StepHolds DEF IInv, UsedIsLive, Blocks
        <4>2. QED
          BY <3>5, <4>1
      <3>9. hdr'[b].size \in Nat /\ b \in Nat /\ HeaderSize \in Nat
        BY <1>2, <3>8, StepHolds, LayoutAssumption DEF IInv, HeapOK, Header
      <3>10. QED
        BY <3>5, <3>6, <3>7, <3>9 DEF DataStart, BlockEnd
    <2>4. QED
      BY <2>2, <2>3
  <1>3. QED
    BY <1>1, <1>2, Invariance, PTL DEF Spec

\* The free-list allocator implements the allocator of AbstractAlloc.
THEOREM HeapImplementsAllocator == Spec => ImplementsAllocator
  <1> DEFINE R(a) == [lo |-> DataStart(a), hi |-> BlockEnd(hdr, a)]
  <1>1. Init => Abstract!Init
    <2>1. Init => Blocks = {0} /\ hdr[0].free = 1
      BY DEF Init, Blocks
    <2>2. QED
      BY <2>1 DEF Abstract!Init, Regions, Init
  <1>2. ASSUME IInv, [Next]_vars
        PROVE  [Abstract!Next]_(Abstract!vars)
    <2>0. /\ HeapOK(hdr) /\ HeapOK(hdr') /\ HeaderSize \in Nat \ {0}
          /\ HeapSize \in Nat
      BY <1>2, StepHolds, LayoutAssumption DEF IInv
    <2>a. \A a \in DOMAIN hdr' : hdr'[a].size \in Nat /\ a \in Nat
      <3>1. \A a \in DOMAIN hdr' : hdr'[a] \in Header
        BY <2>0 DEF HeapOK
      <3>2. \A a \in DOMAIN hdr' : a \in Nat
        BY <2>0 DEF HeapOK
      <3>3. QED
        BY <3>1, <3>2 DEF Header
    <2>1. /\ DOMAIN live = {c \in Blocks : hdr[c].free = 0}
          /\ DOMAIN live' = {c \in DOMAIN hdr' : hdr'[c].free = 0}
      BY <1>2, StepHolds DEF IInv, UsedIsLive, Blocks
    <2>2. /\ Regions = {R(a) : a \in DOMAIN live}
          /\ Regions' = {R(a)' : a \in DOMAIN live'}
      BY <2>1 DEF Regions, Blocks
    <2>3. \A a \in DOMAIN live \cap DOMAIN live' : R(a)' = R(a)
      <3>1. ASSUME NEW a \in DOMAIN live \cap DOMAIN live'
            PROVE  BlockEnd(hdr', a) = BlockEnd(hdr, a)
        BY <1>2, SizesKept DEF BlockEnd
      <3>2. QED
        BY <3>1 DEF DataStart
    <2>4. ASSUME NEW b \in Blocks, NEW n \in Nat, NEW p \in Int, NEW req \in Nat,
                 AllocStep(b, n, p, req)
          PROVE  Abstract!Next
      <3>1. DOMAIN live' = DOMAIN live \cup {b} /\ b \notin DOMAIN live
        BY <2>1, <2>4 DEF AllocStep, HandOut, Fits
      <3>2. Regions' = Regions \cup {R(b)'}
        <4>1. \A a \in DOMAIN live : R(a)' = R(a)
          BY <2>3, <3>1
        <4>2. {R(a)' : a \in DOMAIN live} = {R(a) : a \in DOMAIN live}
          BY <4>1
        <4>3. {R(a)' : a \in DOMAIN live'}
                = {R(a)' : a \in DOMAIN live} \cup {R(b)'}
          BY <3>1, Zenon
        <4> QED BY <2>2, <4>2, <4>3, Zenon
      <3>3. /\ b \in DOMAIN hdr' /\ hdr'[b].size \in Nat /\ b \in Nat
        <4>1. b \in DOMAIN live'
          BY <3>1
        <4>2. b \in DOMAIN hdr'
          BY <2>1, <4>1
        <4>3. QED
          BY <2>a, <4>2
      <3>4. \A a \in DOMAIN live : R(a) = R(a)' /\ a \in DOMAIN hdr' /\ a # b
        BY <2>1, <2>3, <3>1
      <3>5. ASSUME NEW a \in DOMAIN live
            PROVE  R(b)'.hi <= R(a).lo \/ R(a).hi <= R(b)'.lo
        <4>1. /\ a \in DOMAIN hdr' /\ a # b /\ a \in Nat
              /\ BlockEnd(hdr, a) = BlockEnd(hdr', a)
          <5>1. R(a) = R(a)' /\ a \in DOMAIN hdr' /\ a # b
            BY <3>4
          <5>2. R(a).hi = R(a)'.hi
            BY <5>1
          <5>3. QED
            BY <2>a, <5>1, <5>2
        <4>2. a < b => BlockEnd(hdr', a) <= b
          BY <2>0, <3>3, <4>1 DEF HeapOK, TiledList
        <4>3. b < a => BlockEnd(hdr', b) <= a
          BY <2>0, <3>3, <4>1 DEF HeapOK, TiledList
        <4>4. BlockEnd(hdr', a) \in Int /\ BlockEnd(hdr', b) \in Int
          BY <2>0, <3>3, <4>1 DEF HeapOK, BlockEnd, Header
        <4>5. QED
          BY <2>0, <3>3, <4>1, <4>2, <4>3, <4>4 DEF DataStart
      <3>6. 0 <= R(b)'.lo /\ R(b)'.lo <= R(b)'.hi /\ R(b)'.hi <= HeapSize
        <4>1. BlockEnd(hdr', b) <= HeapSize
          BY <2>0, <3>3 DEF HeapOK, TiledList
        <4>2. QED
          BY <2>0, <3>3, <4>1 DEF DataStart, BlockEnd
      <3>7. R(b)' \notin Regions
        <4>1. ASSUME NEW a \in DOMAIN live PROVE R(b)' # R(a)
          <5>1. DataStart(a) # DataStart(b)
            <6>1. a \in Nat /\ a # b
              BY <2>a, <3>4
            <6>2. QED
              BY <2>0, <3>3, <6>1 DEF DataStart
          <5>2. QED
            BY <5>1 DEF DataStart
        <4>2. QED
          BY <2>2, <4>1
      <3>8. kernel = "running" /\ kernel' \in {"running", "astray"}
        BY <2>4 DEF AllocStep
      <3>9. \A s \in Regions : Abstract!Disjoint(R(b)', s)
        BY <2>2, <3>5 DEF Abstract!Disjoint
      <3> HIDE DEF R
      <3>10. Abstract!Alloc(R(b)')
        BY <3>2, <3>6, <3>8, <3>9 DEF Abstract!Alloc
      <3>11. R(b)' \in Regions' \ Regions
        BY <3>2, <3>7
      <3>12. QED
        BY <3>10, <3>11 DEF Abstract!Next
    <2>5. ASSUME NEW b \in Blocks, FreeStep(b)
          PROVE  Abstract!Next
      <3>1. DOMAIN live' = DOMAIN live \ {b} /\ b \in DOMAIN live
        BY <2>1, <2>5 DEF FreeStep, Release
      <3>2. \A a \in DOMAIN live : a # b => R(a) # R(b)
        <4>1. \A a \in DOMAIN live : a \in Nat
          BY <2>0, <2>1 DEF HeapOK, Blocks
        <4>2. \A a \in DOMAIN live : a # b => DataStart(a) # DataStart(b)
          BY <2>0, <3>1, <4>1 DEF DataStart
        <4>3. QED
          BY <4>2
      <3>3. Regions' = Regions \ {R(b)}
        BY <2>2, <2>3, <3>1, <3>2
      <3>4. kernel = "running" /\ kernel' = "running"
        <4>1. kernel' = kernel
          BY <1>2, <2>5, ReleaseOK DEF FreeStep
        <4>2. QED
          BY <2>5, <4>1 DEF FreeStep
      <3>5. R(b) \in Regions
        BY <2>2, <3>1
      <3> HIDE DEF R
      <3>6. Abstract!Release(R(b))
        BY <3>3, <3>4 DEF Abstract!Release
      <3>7. QED
        BY <3>5, <3>6 DEF Abstract!Next
    <2>6. CASE IdleStep
      <3>1. Regions' = Regions
        BY <2>6 DEF IdleStep, Regions, Blocks, DataStart, BlockEnd
      <3>2. \/ kernel' = kernel
            \/ /\ kernel = "running"
               /\ kernel' \in {"DOUBLE_FREE", "INVALID_POINTER"}
        BY <2>6 DEF IdleStep
      <3>3. CASE kernel' = kernel
        BY <3>1, <3>3 DEF Abstract!vars
      <3>4. CASE /\ kernel = "running"
                 /\ kernel' \in {"DOUBLE_FREE", "INVALID_POINTER"}
        BY <3>1, <3>4 DEF Abstract!Next, Abstract!Halt
      <3>5. QED
        BY <3>2, <3>3, <3>4
    <2>7. \/ \E b \in Blocks, n \in Nat, p \in Int, req \in Nat :
                AllocStep(b, n, p, req)
          \/ \E b \in Blocks : FreeStep(b)
          \/ IdleStep
      BY <1>2, StepKinds
    <2>8. QED
      BY <2>4, <2>5, <2>6, <2>7
  <1>3. QED
    BY <1>1, <1>2, Invariance, PTL DEF Spec, ImplementsAllocator, Abstract!Spec

\* The facts about the block list together, as the runs check them.
THEOREM BlockListIsSound == Spec => []BlockListSound
  <1>1. TypeOK /\ Tiled /\ Coalesced /\ NoCorruption /\ UsedIsLive /\ WholeWhenEmpty
          => BlockListSound
    BY DEF BlockListSound
  <1> QED
    BY <1>1, TypeCorrectness, HeapIsTiled, EagerCoalescing, ChecksNeverFire,
       NothingLeaks, EmptyHeapIsWhole, PTL

----------------------------------------------------------------------------
(* What was just freed *)

\* kfree leaves the header of the freed block marked free, or merged away but
\* with its magic in place, and a free block that its bytes lie in.
LEMMA KfreeFrees ==
  ASSUME IInv, NEW ptr \in HeldPtrs, Kfree(ptr)
  PROVE  FreedIsFree'
  <1> DEFINE b == ptr - HeaderSize
  <1>1. b \in Blocks /\ hdr[b].magic = HEAP_MAGIC
    BY DEF Kfree, Magic, HEAP_MAGIC, HEAP_MAGIC_FREE
  <1>2. hdr[b].free = 0
    <2>1. hdr[b] \in Header /\ (hdr[b].free = 1 <=> hdr[b].magic = HEAP_MAGIC_FREE)
      BY <1>1 DEF IInv, HeapOK, Blocks
    <2>2. QED
      BY <1>1, <2>1 DEF Header, HEAP_MAGIC, HEAP_MAGIC_FREE
  <1>3. /\ ListKept({a \in Blocks : hdr[a].free = 0} \ {b})
        /\ remnant' = remnant \cup (Blocks \ DOMAIN hdr')
        /\ \E a \in DOMAIN hdr' : /\ hdr'[a].free = 1 /\ DataStart(a) <= DataStart(b)
                                  /\ BlockEnd(hdr, b) <= BlockEnd(hdr', a)
    BY <1>1, <1>2, ReleaseOK DEF Kfree
  <1>4. last_freed' = [ptr |-> ptr, size |-> hdr[b].size]
    BY DEF Kfree
  <1> HIDE DEF b
  <1>5. Magic(b)' = HEAP_MAGIC_FREE
    <2>1. CASE b \in DOMAIN hdr'
      <3>1. hdr'[b].free # 0 /\ HeapOK(hdr')
        BY <1>3, <2>1 DEF ListKept
      <3>2. hdr'[b].magic = HEAP_MAGIC_FREE
        BY <2>1, <3>1 DEF HeapOK, Header
      <3>3. QED
        BY <2>1, <3>2 DEF Magic, Blocks
    <2>2. CASE b \notin DOMAIN hdr'
      <3>1. b \in remnant'
        BY <1>1, <1>3, <2>2
      <3>2. QED
        BY <2>2, <3>1 DEF Magic, Blocks
    <2>3. QED
      BY <2>1, <2>2
  <1>6. DoubleFreeCaught'
    <2>1. last_freed'.ptr - HeaderSize = b
      BY <1>4 DEF b
    <2>2. QED
      BY <1>5, <2>1 DEF DoubleFreeCaught, Magic, Blocks
  <1>7. FreedIsReusable'
    <2>1. /\ last_freed'.ptr = DataStart(b)
          /\ last_freed'.ptr + last_freed'.size = BlockEnd(hdr, b)
      <3>1. last_freed'.ptr = ptr /\ last_freed'.size = hdr[b].size
        BY <1>4
      <3>2. ptr = b + HeaderSize
        <4>1. HeaderSize \in Int
          BY LayoutAssumption
        <4>2. live \in [DOMAIN live -> [ptr : Int, req : Nat]]
          BY DEF IInv, TypeOK
        <4>3. \A c \in DOMAIN live : live[c].ptr \in Int
          BY <4>2
        <4>4. ptr \in Int
          BY <4>3 DEF HeldPtrs
        <4>5. QED
          BY <4>1, <4>4 DEF b
      <3>3. QED
        BY <3>1, <3>2 DEF DataStart, BlockEnd
    <2>2. QED
      BY <1>3, <2>1 DEF FreedIsReusable, Blocks, BlockEnd, DataStart
  <1>8. QED
    BY <1>6, <1>7 DEF FreedIsFree

\* A second kfree of the pointer just freed panics with DOUBLE_FREE even when
\* merge_blocks has unlinked its header, and kmalloc finds the room again.
THEOREM FreedBlocksAreFree == Spec => []FreedIsFree
  <1>1. ASSUME Init PROVE FreedIsFree
    BY <1>1 DEF Init, FreedIsFree, DoubleFreeCaught, FreedIsReusable
  <1>2. ASSUME IInv, FreedIsFree, [Next]_vars PROVE FreedIsFree'
    <2>1. ASSUME last_freed' = NotFreed PROVE FreedIsFree'
      BY <2>1 DEF FreedIsFree, DoubleFreeCaught, FreedIsReusable, NotFreed
    <2>2. ASSUME UNCHANGED <<hdr, remnant, last_freed>> PROVE FreedIsFree'
      BY <1>2, <2>2 DEF FreedIsFree, DoubleFreeCaught, FreedIsReusable, Magic,
        Blocks, BlockEnd
    <2>3. ASSUME NEW req \in Requests, Kmalloc(req) \/ KmallocFails(req) PROVE FreedIsFree'
      BY <2>1, <2>3 DEF Kmalloc, KmallocFails
    <2>4. ASSUME NEW r \in AlignedRequests, KmallocAligned(r[1], r[2]) PROVE FreedIsFree'
      BY <2>1, <2>4 DEF KmallocAligned
    <2>5. ASSUME NEW ptr \in HeldPtrs, Kfree(ptr) PROVE FreedIsFree'
      BY <1>2, <2>5, KfreeFrees
    <2>6. ASSUME NEW ptr \in HeldPtrs \cup StalePtrs, KfreePanics(ptr) PROVE FreedIsFree'
      BY <2>2, <2>6 DEF KfreePanics, heapVars
    <2>7. ASSUME NEW increment \in Increments, Kbrk(increment) PROVE FreedIsFree'
      BY <2>1, <2>7 DEF Kbrk
    <2>8. ASSUME NEW b \in DOMAIN live, ClientWrite(b) PROVE FreedIsFree'
      BY <2>1, <2>8 DEF ClientWrite
    <2>9. CASE UNCHANGED vars
      BY <2>2, <2>9 DEF vars
    <2>10. QED
      BY <1>2, <2>3, <2>4, <2>5, <2>6, <2>7, <2>8, <2>9 DEF Next
  <1>3. QED
    BY <1>1, <1>2, Invariance, PTL DEF Spec

----------------------------------------------------------------------------
(* The total of what is allocated *)

\* The sizes of the blocks in D, and their sum.
Sizes(h, D) == [a \in D |-> h[a].size]
UsedBytes(h, D) == CHOOSE n : \E total : IsSum(total, D, Sizes(h, D)) /\ n = total[D]

LEMMA UsedBytesIs ==
  ASSUME NEW h, NEW D, IsFiniteSet(D), Sizes(h, D) \in [D -> Nat]
  PROVE  \E total : IsSum(total, D, Sizes(h, D)) /\ UsedBytes(h, D) = total[D]
  <1>1. \E total : IsSum(total, D, Sizes(h, D))
    BY SumExists
  <1>2. \E n : \E total : IsSum(total, D, Sizes(h, D)) /\ n = total[D]
    BY <1>1
  <1>3. QED
    BY <1>2 DEF UsedBytes

\* The blocks in use, of a sound list.
Used(h) == {a \in DOMAIN h : h[a].free = 0}

LEMMA UsedFacts ==
  ASSUME NEW h, HeapOK(h)
  PROVE  /\ Used(h) \in SUBSET Nat /\ IsFiniteSet(Used(h))
         /\ Sizes(h, Used(h)) \in [Used(h) -> Nat]
         /\ \A a \in Used(h) : /\ a \in Nat /\ h[a].size \in Nat
                               /\ Sizes(h, Used(h))[a] = h[a].size
                               /\ a + h[a].size <= HeapSize
         /\ \A a, c \in Used(h) : a < c => a + h[a].size <= c
  <1>0. HeaderSize \in Nat /\ HeapSize \in Nat
    BY LayoutAssumption
  <1>1. /\ \A a \in DOMAIN h : a \in Nat /\ h[a].size \in Nat /\ a <= HeapSize
        /\ \A a \in DOMAIN h : a + HeaderSize + h[a].size <= HeapSize
        /\ \A a, c \in DOMAIN h : a < c => a + HeaderSize + h[a].size <= c
    BY <1>0 DEF HeapOK, TiledList, BlockEnd, Header
  <1>2. \A a \in Used(h) : a \in DOMAIN h
    BY DEF Used
  <1>3. Used(h) \in SUBSET Nat /\ IsFiniteSet(Used(h))
    BY <1>0, <1>1, <1>2, FS_BoundedSetOfNaturals
  <1>4. QED
    BY <1>0, <1>1, <1>2, <1>3 DEF Sizes

\* All that is in use is in the arena, so its total does not wrap around.
LEMMA UsedBytesBound ==
  ASSUME NEW h, HeapOK(h)
  PROVE  UsedBytes(h, Used(h)) \in 0 .. HeapSize
  <1> DEFINE D == Used(h)
             f == Sizes(h, D)
  <1>1. /\ D \in SUBSET Nat /\ IsFiniteSet(D) /\ f \in [D -> Nat]
        /\ \A a \in D : a + f[a] <= HeapSize
        /\ \A a, c \in D : a < c => a + f[a] <= c
    BY UsedFacts
  <1>2. PICK total : IsSum(total, D, f) /\ UsedBytes(h, D) = total[D]
    BY <1>1, UsedBytesIs
  <1>3. HeapSize \in Nat
    BY LayoutAssumption
  <1> HIDE DEF D, f
  <1>4. total[D] <= HeapSize
    BY <1>1, <1>2, <1>3, SumOfIntervals
  <1>5. total[D] \in Nat
    BY <1>2 DEF IsSum
  <1>6. QED
    BY <1>2, <1>3, <1>4, <1>5 DEF D

\* List s has one more block in use than h, and the others as they were.
OneMore(h, s, b) ==
    /\ b \notin Used(h)
    /\ Used(s) = Used(h) \cup {b}
    /\ \A a \in Used(h) : s[a].size = h[a].size

LEMMA UsedBytesAdd ==
  ASSUME NEW h, HeapOK(h), NEW s, HeapOK(s), NEW b, OneMore(h, s, b)
  PROVE  UsedBytes(s, Used(s)) = UsedBytes(h, Used(h)) + s[b].size
  <1> DEFINE D == Used(h)
             f == Sizes(h, D)
             E == Used(s)
             e == Sizes(s, E)
  <1>1. /\ IsFiniteSet(D) /\ f \in [D -> Nat]
        /\ IsFiniteSet(E) /\ e \in [E -> Nat]
        /\ \A a \in D : f[a] = h[a].size
        /\ \A a \in E : e[a] = s[a].size
    BY UsedFacts
  <1>2. PICK old : IsSum(old, D, f) /\ UsedBytes(h, D) = old[D]
    BY <1>1, UsedBytesIs
  <1>3. PICK new : IsSum(new, E, e) /\ UsedBytes(s, E) = new[E]
    BY <1>1, UsedBytesIs
  <1>4. D \subseteq E /\ b \in E \ D /\ D \cup {b} = E /\ D \in SUBSET E
    BY DEF OneMore
  <1>5. \A a \in D : f[a] = e[a]
    BY <1>1, <1>4 DEF OneMore
  <1> HIDE DEF D, f, E, e
  <1>6. old[D] = new[D]
    BY <1>1, <1>2, <1>3, <1>4, <1>5, SumsAgree
  <1>7. Adds(new, E, e)
    BY <1>1, <1>3, SumAdds
  <1>8. new[D \cup {b}] = e[b] + new[D]
    BY <1>4, <1>7 DEF Adds
  <1>9. new[E] = s[b].size + old[D]
    BY <1>1, <1>4, <1>6, <1>8, Zenon
  <1>10. s[b].size \in Nat /\ old[D] \in Nat
    <2>1. e[b] \in Nat /\ e[b] = s[b].size
      BY <1>1, <1>4
    <2>2. QED
      BY <1>2, <2>1 DEF IsSum
  <1>11. QED
    BY <1>2, <1>3, <1>9, <1>10 DEF D, E

\* The property's sum is that of the block sizes: ksize finds every header.
LEMMA KsizeSum ==
  ASSUME IInv
  PROVE  MapThenSumSet(LAMBDA b : Ksize(DataStart(b)), DOMAIN live)
           = UsedBytes(hdr, Used(hdr))
  <1> DEFINE D == DOMAIN live
             f == Sizes(hdr, D)
  <1>1. HeapOK(hdr) /\ D = Used(hdr)
    BY DEF IInv, UsedIsLive, Used, Blocks
  <1>2. IsFiniteSet(D) /\ f \in [D -> Nat] /\ \A a \in D : f[a] = hdr[a].size
    BY <1>1, UsedFacts
  <1>3. \A a \in D : Ksize(DataStart(a)) = f[a]
    <2>1. ASSUME NEW a \in D PROVE Ksize(DataStart(a)) = hdr[a].size
      <3>1. a \in DOMAIN hdr /\ hdr[a].free = 0 /\ a \in Int /\ HeaderSize \in Int
        BY <1>1, LayoutAssumption DEF Used, HeapOK
      <3>2. hdr[a].magic = HEAP_MAGIC
        BY <1>1, <3>1 DEF HeapOK, Header
      <3>3. DataStart(a) - HeaderSize = a
        BY <3>1 DEF DataStart
      <3>4. Magic(a) = HEAP_MAGIC
        BY <3>1, <3>2 DEF Magic, Blocks
      <3>5. QED
        BY <3>3, <3>4 DEF Ksize
    <2>2. QED
      BY <1>2, <2>1
  <1>4. PICK total : IsSum(total, D, f) /\ UsedBytes(hdr, D) = total[D]
    BY <1>2, UsedBytesIs
  <1> HIDE DEF D, f
  <1> DEFINE Sum(g) == [s \in SUBSET D |->
               IF s = {} THEN 0 ELSE Ksize(DataStart(Choice(s))) + g[s \ {Choice(s)}]]
             iter == CHOOSE g : g = Sum(g)
  <1>5. MapThenSumSet(LAMBDA b : Ksize(DataStart(b)), D) = iter[D]
    BY DEF MapThenSumSet, MapThenFoldSet, Choice
  <1>6. \A s \in SUBSET D : s # {} => Choice(s) \in D
    BY DEF Choice
  <1>7. total = Sum(total)
    <2>1. total = [s \in SUBSET D |-> total[s]]
      BY <1>4 DEF IsSum
    <2>2. \A s \in SUBSET D : total[s] = IF s = {} THEN 0
             ELSE Ksize(DataStart(Choice(s))) + total[s \ {Choice(s)}]
      BY <1>3, <1>4, <1>6 DEF IsSum
    <2>3. QED
      BY <2>1, <2>2
  <1>8. iter = Sum(iter)
    BY <1>7
  <1>9. iter[D] = total[D]
    <2> HIDE DEF iter
    <2>1. SumsUp(iter, D, f)
      BY <1>3, <1>6, <1>8 DEF SumsUp
    <2>2. QED
      BY <1>2, <1>4, <2>1, SumUnique
  <1>10. QED
    BY <1>1, <1>4, <1>5, <1>9 DEF D

\* kmalloc adds the size the block has once it is handed out.
LEMMA TakeAccounts ==
  ASSUME IInv, NEW n \in Nat, NEW b \in Blocks, Fits(b, n), Take(b, n)
  PROVE  heap_total_allocated' = (heap_total_allocated + hdr'[b].size) % Word
  <1> DEFINE h1 == IF Splits(hdr, b, n) THEN Split(hdr, b, n) ELSE hdr
  <1>1. HeapOK(hdr) /\ b \in DOMAIN hdr
    BY DEF IInv, Blocks
  <1>2. Splits(hdr, b, n) => /\ HeapOK(Split(hdr, b, n))
                             /\ DOMAIN hdr \subseteq DOMAIN Split(hdr, b, n)
    <2>1. Splits(hdr, b, n) => SplitKeeps(hdr, b, n)
      BY <1>1, SplitOK
    <2>2. QED
      BY <2>1 DEF SplitKeeps
  <1>3. HeapOK(h1) /\ b \in DOMAIN h1
    BY <1>1, <1>2
  <1>4. /\ hdr' = MarkUsed(h1, b)
        /\ heap_total_allocated' = (heap_total_allocated + h1[b].size) % Word
    BY DEF Take
  <1> HIDE DEF h1
  <1>5. hdr'[b].size = h1[b].size
    BY <1>3, <1>4, MarkUsedOK DEF MarkKeeps
  <1>6. QED
    BY <1>4, <1>5

\* The counter kheap_print_info prints is, at every moment, the sum of what
\* ksize tells the clients of their allocations: it never wraps around, and no
\* split or merge makes it drift.
THEOREM AllocatedIsAccounted == Spec => []AllocatedAccounting
  <1> DEFINE Accounted == heap_total_allocated = UsedBytes(hdr, Used(hdr))
  <1>0. HeapSize \in Nat /\ Word \in Nat \ {0} /\ HeapSize < Word
    BY LayoutAssumption
  <1>1. Init => Accounted
    <2>1. SUFFICES ASSUME Init PROVE UsedBytes(hdr, Used(hdr)) = 0
      BY DEF Init
    <2>2. HeapOK(hdr)
      BY <2>1, InitHolds DEF IInv
    <2>3. Used(hdr) = {}
      BY <2>1 DEF Init, Used
    <2>4. /\ IsFiniteSet(Used(hdr))
          /\ Sizes(hdr, Used(hdr)) \in [Used(hdr) -> Nat]
      BY <2>2, UsedFacts
    <2>5. PICK total : /\ IsSum(total, Used(hdr), Sizes(hdr, Used(hdr)))
                       /\ UsedBytes(hdr, Used(hdr)) = total[Used(hdr)]
      BY <2>4, UsedBytesIs
    <2>6. total[{}] = 0
      BY <2>5 DEF IsSum
    <2>7. QED
      BY <2>3, <2>5, <2>6
  <1>2. IInv /\ Accounted /\ [Next]_vars => Accounted'
    <2> SUFFICES ASSUME IInv, Accounted, [Next]_vars PROVE Accounted'
      OBVIOUS
    <2> DEFINE old == UsedBytes(hdr, Used(hdr))
               new == UsedBytes(hdr', Used(hdr'))
    <2>1. HeapOK(hdr) /\ HeapOK(hdr')
      BY StepHolds DEF IInv
    <2>2. old \in 0 .. HeapSize /\ new \in 0 .. HeapSize
      BY <2>1, UsedBytesBound
    <2>3. Used(hdr) = {a \in Blocks : hdr[a].free = 0}
      BY DEF Used, Blocks
    <2>4. ASSUME NEW b \in Blocks, NEW n \in Nat, NEW p \in Int, NEW req \in Nat,
                 AllocStep(b, n, p, req)
          PROVE  Accounted'
      <3>1. /\ Fits(b, n) /\ Take(b, n)
            /\ Used(hdr') = Used(hdr) \cup {b}
            /\ \A a \in Blocks \ {b} : hdr'[a].size = hdr[a].size
        BY <2>3, <2>4, TakeOK DEF AllocStep, ListKept, Used
      <3>2. b \notin Used(hdr)
        BY <3>1 DEF Fits, Used
      <3>3. OneMore(hdr, hdr', b)
        BY <2>3, <3>1, <3>2 DEF OneMore
      <3>4. new = old + hdr'[b].size
        BY <2>1, <3>3, UsedBytesAdd
      <3>5. heap_total_allocated' = (heap_total_allocated + hdr'[b].size) % Word
        BY <3>1, TakeAccounts
      <3> HIDE DEF old, new
      <3>6. new % Word = new
        BY <1>0, <2>2, ModOfSmall
      <3>7. QED
        BY <3>4, <3>5, <3>6 DEF old, new
    <2>5. ASSUME NEW b \in Blocks, FreeStep(b) PROVE Accounted'
      <3>1. /\ hdr[b].free = 0 /\ Release(b)
            /\ Used(hdr') = Used(hdr) \ {b}
            /\ \A a \in Blocks \ {b} : hdr[a].free = 0 => hdr'[a].size = hdr[a].size
        BY <2>3, <2>5, ReleaseOK DEF FreeStep, ListKept, Used
      <3>2. OneMore(hdr', hdr, b)
        BY <2>3, <3>1 DEF OneMore
      <3>3. old = new + hdr[b].size
        BY <2>1, <3>2, UsedBytesAdd
      <3>4. heap_total_allocated' = (heap_total_allocated - hdr[b].size) % Word
        BY <3>1 DEF Release, ReleasedSize
      <3>5. hdr[b].size \in Int
        BY <2>1 DEF HeapOK, Header, Blocks
      <3> HIDE DEF old, new
      <3>6. new % Word = new
        BY <1>0, <2>2, ModOfSmall
      <3>7. old - hdr[b].size = new
        BY <2>2, <3>3, <3>5
      <3>8. QED
        BY <3>4, <3>6, <3>7 DEF old, new
    <2>6. ASSUME IdleStep PROVE Accounted'
      BY <2>6 DEF IdleStep
    <2>7. QED
      BY <2>4, <2>5, <2>6, StepKinds
  <1>3. IInv /\ Accounted => AllocatedAccounting
    BY KsizeSum DEF AllocatedAccounting
  <1> HIDE DEF Accounted
  <1>4. QED
    BY <1>1, <1>2, <1>3, Invariance, PTL DEF Spec

----------------------------------------------------------------------------
(* How far a list is determined by the blocks in use. *)

\* No two blocks end at the same place.
LEMMA EndsDiffer ==
  ASSUME NEW h, HeapOK(h), NEW a \in DOMAIN h, NEW c \in DOMAIN h,
         BlockEnd(h, a) = BlockEnd(h, c)
  PROVE  a = c
  <1>1. HeaderSize \in Nat \ {0}
    BY LayoutAssumption
  <1>2. \A x \in DOMAIN h : x \in Nat /\ BlockEnd(h, x) \in Nat /\ x < BlockEnd(h, x)
    BY <1>1, LayoutAssumption DEF HeapOK, BlockEnd, Header
  <1>3. \A x, y \in DOMAIN h : x < y => BlockEnd(h, x) <= y
    BY DEF HeapOK, TiledList
  <1>4. QED
    BY <1>2, <1>3

\* The links and the sizes of a sound list, seen from a block.
LEMMA BlockFacts ==
  ASSUME NEW h, HeapOK(h), NEW a \in DOMAIN h
  PROVE  /\ a \in Nat /\ a < HeapSize /\ BlockEnd(h, a) \in Nat
         /\ a < BlockEnd(h, a) /\ BlockEnd(h, a) <= HeapSize
         /\ h[a] \in Header /\ h[a].size = BlockEnd(h, a) - HeaderSize - a
         /\ h[a].next = IF BlockEnd(h, a) = HeapSize THEN NULL ELSE BlockEnd(h, a)
         /\ BlockEnd(h, a) # HeapSize => BlockEnd(h, a) \in DOMAIN h
         /\ a = 0 => h[a].prev = NULL
         /\ a # 0 => h[a].prev \in DOMAIN h /\ BlockEnd(h, h[a].prev) = a
  <1>1. HeaderSize \in Nat \ {0} /\ HeapSize \in Nat
    BY LayoutAssumption
  <1>2. a \in 0 .. HeapSize - HeaderSize /\ h[a] \in Header
    BY DEF HeapOK
  <1>3. h[a].size \in Nat
    BY <1>2 DEF Header
  <1>4. BlockEnd(h, a) = a + HeaderSize + h[a].size
    BY DEF BlockEnd
  <1>5. /\ a \in Nat /\ a < HeapSize /\ BlockEnd(h, a) \in Nat /\ a < BlockEnd(h, a)
        /\ h[a].size = BlockEnd(h, a) - HeaderSize - a
    BY <1>1, <1>2, <1>3, <1>4
  <1>6. QED
    BY <1>2, <1>5 DEF HeapOK, TiledList

\* Free blocks lie behind all that are in use.
FreeAtEnd(h) == \A a \in DOMAIN h : h[a].free = 1 => BlockEnd(h, a) = HeapSize

SameUse(h, s) ==
    /\ HeapOK(h) /\ HeapOK(s) /\ FreeAtEnd(h) /\ FreeAtEnd(s)
    /\ Used(h) = Used(s)
    /\ \A a \in Used(h) : h[a].size = s[a].size

LEMMA SameBlocks ==
  ASSUME NEW h, NEW s, SameUse(h, s), NEW a \in DOMAIN h
  PROVE  a \in DOMAIN s /\ BlockEnd(s, a) = BlockEnd(h, a)
  <1>1. HeapOK(h) /\ HeapOK(s) /\ FreeAtEnd(h) /\ FreeAtEnd(s)
    BY DEF SameUse
  <1>2. \A c \in Used(h) : c \in DOMAIN s /\ BlockEnd(s, c) = BlockEnd(h, c)
    BY DEF SameUse, Used, BlockEnd
  <1>3. CASE a \in Used(h)
    BY <1>2, <1>3
  <1>4. CASE a \notin Used(h)
    <2>1. \A c \in DOMAIN h : c \notin Used(h) => h[c].free = 1
      BY <1>1, BlockFacts DEF Used, Header
    <2>2. BlockEnd(h, a) = HeapSize
      BY <1>1, <1>4, <2>1 DEF FreeAtEnd
    <2>3. a \in DOMAIN s
      <3>1. CASE a = 0
        BY <1>1, <3>1 DEF HeapOK, TiledList
      <3>2. CASE a # 0
        <4> DEFINE c == h[a].prev
        <4>1. c \in DOMAIN h /\ BlockEnd(h, c) = a /\ a < HeapSize /\ a \in Nat
          BY <1>1, <3>2, BlockFacts
        <4>2. HeapSize \in Nat
          BY LayoutAssumption
        <4> HIDE DEF c
        <4>3. c \in Used(h)
          BY <1>1, <2>1, <4>1, <4>2 DEF FreeAtEnd
        <4>4. c \in DOMAIN s /\ BlockEnd(s, c) = a
          BY <1>2, <4>1, <4>3
        <4>5. BlockEnd(s, c) # HeapSize => BlockEnd(s, c) \in DOMAIN s
          BY <1>1, <4>4, BlockFacts
        <4>6. QED
          BY <4>1, <4>2, <4>4, <4>5
      <3>3. QED
        BY <3>1, <3>2
    <2>4. a \notin Used(s)
      BY <1>4 DEF SameUse
    <2>5. s[a].free = 1
      BY <1>1, <2>3, <2>4, BlockFacts DEF Used, Header
    <2>6. BlockEnd(s, a) = HeapSize
      BY <1>1, <2>3, <2>5 DEF FreeAtEnd
    <2>7. QED
      BY <2>2, <2>3, <2>6
  <1>5. QED
    BY <1>3, <1>4

\* Two lists with the same blocks in use, and nothing free in between, are the
\* same list.
LEMMA ListDetermined ==
  ASSUME NEW h, NEW s, SameUse(h, s) PROVE h = s
  <1>1. HeapOK(h) /\ HeapOK(s) /\ Used(h) = Used(s)
    BY DEF SameUse
  <1>2. SameUse(s, h)
    BY DEF SameUse
  <1>3. DOMAIN h = DOMAIN s
    BY <1>2, SameBlocks
  <1>4. ASSUME NEW a \in DOMAIN h PROVE h[a] = s[a]
    <2>1. BlockEnd(s, a) = BlockEnd(h, a) /\ a \in DOMAIN s
      BY SameBlocks
    <2>2. h[a] \in Header /\ s[a] \in Header
      BY <1>1, <2>1, BlockFacts
    <2>3. h[a].size = s[a].size /\ h[a].next = s[a].next
      BY <1>1, <2>1, BlockFacts
    <2>4. h[a].free = s[a].free
      BY <1>1, <2>1, <2>2 DEF Used, Header
    <2>5. h[a].magic = s[a].magic
      BY <1>1, <2>1, <2>2, <2>4 DEF HeapOK, Header
    <2>6. h[a].prev = s[a].prev
      <3>1. CASE a = 0
        BY <1>1, <2>1, <3>1, BlockFacts
      <3>2. CASE a # 0
        <4>1. h[a].prev \in DOMAIN h /\ BlockEnd(h, h[a].prev) = a
          BY <1>1, <3>2, BlockFacts
        <4>2. s[a].prev \in DOMAIN s /\ BlockEnd(s, s[a].prev) = a
          BY <1>1, <2>1, <3>2, BlockFacts
        <4>3. h[a].prev \in DOMAIN s /\ BlockEnd(s, h[a].prev) = a
          BY <4>1, SameBlocks
        <4>4. QED
          BY <1>1, <4>2, <4>3, EndsDiffer
      <3>3. QED
        BY <3>1, <3>2
    <2>7. QED
      BY <2>2, <2>3, <2>4, <2>5, <2>6 DEF Header
  <1>5. h \in [DOMAIN h -> Header] /\ s \in [DOMAIN s -> Header]
    BY <1>1 DEF HeapOK
  <1>6. QED
    BY <1>3, <1>4, <1>5

\* Where a free block ends in front of another one, the block that ended there
\* before is not one that has stayed in use.
LEMMA BehindGap ==
  ASSUME NEW h, HeapOK(h), NEW s, HeapOK(s),
         \A c \in Used(h) \cap Used(s) : h[c].size = s[c].size,
         NEW a \in DOMAIN s, s[a].free = 1, BlockEnd(s, a) \in DOMAIN h
  PROVE  \E c \in DOMAIN h : /\ BlockEnd(h, c) = BlockEnd(s, a)
                             /\ c \notin Used(h) \cap Used(s)
  <1> DEFINE x == BlockEnd(s, a)
             c == h[x].prev
  <1>1. x # 0
    BY BlockFacts
  <1>2. c \in DOMAIN h /\ BlockEnd(h, c) = x
    BY <1>1, BlockFacts
  <1> HIDE DEF c
  <1>3. ASSUME c \in Used(h) \cap Used(s) PROVE FALSE
    <2>1. c \in DOMAIN s /\ s[c].free = 0 /\ s[c].size = h[c].size
      BY <1>3 DEF Used
    <2>2. BlockEnd(s, c) = BlockEnd(s, a)
      BY <1>2, <2>1 DEF BlockEnd
    <2>3. c = a
      BY <2>1, <2>2, EndsDiffer
    <2>4. QED
      BY <2>1, <2>3
  <1>4. QED
    BY <1>2, <1>3

=============================================================================
