------------------------------- MODULE NatFacts -------------------------------
(***************************************************************************)
(* Natural numbers, for the proofs about this project's models: division,  *)
(* and induction over sets instead of predicates, so that what a fold, a   *)
(* recursion or a search through a sequence computes is shown by           *)
(* collecting the numbers for which it holds in a set.                     *)
(***************************************************************************)
EXTENDS Integers, Sequences, SequencesExt, WellFoundedInduction,
        FiniteSetTheorems, TLAPS

----------------------------------------------------------------------------
(* Division *)

LEMMA DivBounds ==
    ASSUME NEW a \in Nat, NEW n \in Nat \ {0}
    PROVE  a \div n \in Nat /\ (a \div n) * n <= a /\ a < (a \div n + 1) * n
  OBVIOUS

LEMMA TimesMonotonic ==
    ASSUME NEW a \in Int, NEW b \in Int, NEW n \in Nat, a <= b
    PROVE  a * n <= b * n
  OBVIOUS

\* The quotient is the number whose multiples are around the dividend.
LEMMA DivUnique ==
    ASSUME NEW a \in Nat, NEW n \in Nat \ {0}, NEW q \in Nat,
           q * n <= a, a < (q + 1) * n
    PROVE  a \div n = q
  <1> DEFINE d == a \div n
  <1>1. d \in Nat /\ d * n <= a /\ a < (d + 1) * n
    BY DivBounds
  <1>2. d + 1 <= q => (d + 1) * n <= q * n
    BY <1>1, TimesMonotonic
  <1>3. q + 1 <= d => (q + 1) * n <= d * n
    BY <1>1, TimesMonotonic
  <1>4. /\ d * n \in Int /\ (d + 1) * n \in Int
        /\ q * n \in Int /\ (q + 1) * n \in Int
    BY <1>1
  <1> HIDE DEF d
  <1>5. d = q
    BY <1>1, <1>2, <1>3, <1>4
  <1>6. QED
    BY <1>5 DEF d

LEMMA DivMonotonic ==
    ASSUME NEW a \in Nat, NEW b \in Nat, NEW n \in Nat \ {0}, a <= b
    PROVE  a \div n <= b \div n
  <1> DEFINE p == a \div n
             q == b \div n
  <1>1. /\ p \in Nat /\ p * n <= a /\ a < (p + 1) * n
        /\ q \in Nat /\ q * n <= b /\ b < (q + 1) * n
    BY DivBounds
  <1>2. q + 1 <= p => (q + 1) * n <= p * n
    BY <1>1, TimesMonotonic
  <1>3. p * n \in Int /\ (q + 1) * n \in Int
    BY <1>1
  <1> HIDE DEF p, q
  <1>4. p <= q
    BY <1>1, <1>2, <1>3
  <1>5. QED
    BY <1>4 DEF p, q

LEMMA DivLe ==
    ASSUME NEW a \in Nat, NEW n \in Nat \ {0}
    PROVE  a \div n <= a
  <1> DEFINE q == a \div n
  <1>1. q \in Nat /\ q * n <= a
    BY DivBounds
  <1>2. q <= q * n
    <2>1. q * 1 <= q * n
      BY <1>1
    <2>2. QED
      BY <1>1, <2>1
  <1>3. q * n \in Int
    BY <1>1
  <1> HIDE DEF q
  <1>4. q <= a
    BY <1>1, <1>2, <1>3
  <1>5. QED
    BY <1>4 DEF q

MadeOf(a, n, q, m) == q \in Nat /\ m \in Nat /\ m < n /\ a = q * n + m

\* Quotient and remainder are the only numbers that make up the dividend.
LEMMA DivModUnique ==
    ASSUME NEW n \in Nat \ {0}, NEW q, NEW m, NEW a, MadeOf(a, n, q, m)
    PROVE  a \in Nat /\ a \div n = q /\ a % n = m
  <1>0. q \in Nat /\ m \in Nat /\ m < n /\ a = q * n + m
    BY DEF MadeOf
  <1>1. /\ a \in Nat /\ q * n <= a /\ (q + 1) * n = q * n + n
        /\ q * n \in Nat
    BY <1>0
  <1>2. a < (q + 1) * n
    BY <1>0, <1>1
  <1>3. a \div n = q
    BY <1>0, <1>1, <1>2, DivUnique
  <1>4. a = (a \div n) * n + (a % n) /\ a % n \in Nat
    BY <1>1
  <1>5. QED
    BY <1>0, <1>1, <1>3, <1>4

LEMMA DivMod ==
    ASSUME NEW a \in Nat, NEW n \in Nat \ {0}
    PROVE  /\ a \div n \in Nat /\ a % n \in Nat /\ a % n < n
           /\ a = (a \div n) * n + (a % n)
  OBVIOUS

\* A number is its own remainder if it is below the divisor, and wraps around
\* once if it is below zero.
LEMMA ModOfSmall ==
    ASSUME NEW a \in Int, NEW n \in Nat \ {0}
    PROVE  /\ 0 <= a /\ a < n => a % n = a
           /\ a < 0 /\ 0 <= a + n => a % n = a + n
  OBVIOUS

----------------------------------------------------------------------------
(* Induction *)

\* Every set of natural numbers but the empty one has a least element.
LEMMA LeastElement ==
    ASSUME NEW S \in SUBSET Nat, S # {}
    PROVE  \E n \in S : \A m \in S : n <= m
  <1> DEFINE Below == {p \in Nat \X Nat : p[1] < p[2]}
  <1>1. IsWellFoundedOn(Below, Nat)
    BY NatLessThanWellFounded DEF OpToRel
  <1> HIDE DEF Below
  <1>2. PICK n \in S : \A m \in S : ~ (<<m, n>> \in Below)
    BY <1>1, WFMin
  <1>3. \A m \in S : ~ (m < n)
    BY <1>2 DEF Below
  <1>4. QED
    BY <1>3

\* A set with 0 and the successor of each of its numbers has all of them.
LEMMA SetInduction ==
    ASSUME NEW S, 0 \in S, \A n \in Nat : n \in S => n + 1 \in S
    PROVE  \A n \in Nat : n \in S
  <1> SUFFICES ASSUME Nat \ S # {} PROVE FALSE
    OBVIOUS
  <1>1. PICK n \in Nat \ S : \A m \in Nat \ S : n <= m
    BY LeastElement
  <1>2. n # 0 /\ n - 1 \in S
    BY <1>1
  <1>3. QED
    BY <1>2

LEMMA GreatestElement ==
    ASSUME NEW S \in SUBSET Nat, S # {}, NEW b \in Nat, \A n \in S : n <= b
    PROVE  \E n \in S : \A m \in S : m <= n
  <1> DEFINE R == {k \in Nat : b - k \in S}
  <1>1. \A n \in S : n \in Nat /\ b - n \in Nat /\ b - (b - n) = n
    OBVIOUS
  <1>2. \A n \in S : b - n \in R
    BY <1>1
  <1>3. PICK k \in R : \A m \in R : k <= m
    BY <1>2, LeastElement
  <1>4. b - k \in S /\ k \in Nat
    BY <1>3
  <1>5. ASSUME NEW m \in S PROVE m <= b - k
    <2>1. k <= b - m
      BY <1>2, <1>3
    <2>2. QED
      BY <1>1, <1>4, <2>1
  <1>6. QED
    BY <1>4, <1>5

LEMMA MinOfNats ==
    ASSUME NEW S \in SUBSET Nat, S # {}
    PROVE  Min(S) \in S /\ \A m \in S : Min(S) <= m
  BY LeastElement DEF Min

LEMMA MaxOfNats ==
    ASSUME NEW S \in SUBSET Nat, S # {}, NEW b \in Nat, \A n \in S : n <= b
    PROVE  Max(S) \in S /\ \A m \in S : m <= Max(S)
  <1>1. \E n \in S : \A m \in S : n >= m
    BY GreatestElement
  <1>2. QED
    BY <1>1 DEF Max

LEMMA MaxOfInterval ==
    ASSUME NEW k \in Nat, k # 0
    PROVE  Max(1 .. k) = k /\ (1 .. k) \ {Max(1 .. k)} = 1 .. k - 1
  <1>1. 1 .. k \in SUBSET Nat /\ 1 .. k # {} /\ \A m \in 1 .. k : m <= k
    OBVIOUS
  <1>2. Max(1 .. k) \in 1 .. k /\ \A m \in 1 .. k : m <= Max(1 .. k)
    BY <1>1, MaxOfNats
  <1>3. QED
    BY <1>2

\* fold takes each set of indices up to k to what the step function makes of
\* it, the greatest index last.
IsFold(fold, k, V, base, step) ==
    /\ fold \in [SUBSET (1 .. k) -> V]
    /\ \A s \in SUBSET (1 .. k) :
         fold[s] = IF s = {} THEN base ELSE step[fold[s \ {Max(s)}]][Max(s)]

LEMMA FoldExtends ==
    ASSUME NEW k \in Nat, NEW V, NEW base \in V, NEW old, NEW n \in Nat, k + 1 <= n,
           NEW step \in [V -> [1 .. n -> V]], IsFold(old, k, V, base, step)
    PROVE  \E new : IsFold(new, k + 1, V, base, step)
  <1> DEFINE new == [s \in SUBSET (1 .. k + 1) |->
                       IF k + 1 \in s THEN step[old[s \ {k + 1}]][k + 1] ELSE old[s]]
  <1>1. ASSUME NEW s \in SUBSET (1 .. k + 1)
        PROVE  /\ s \ {k + 1} \in SUBSET (1 .. k)
               /\ k + 1 \notin s => s \in SUBSET (1 .. k)
    <2>1. \A x \in s : x \in 1 .. k + 1
      OBVIOUS
    <2>2. \A x \in s : x # k + 1 => x \in 1 .. k
      BY <2>1
    <2>3. QED
      BY <2>2
  <1>2. old \in [SUBSET (1 .. k) -> V]
    BY DEF IsFold
  <1>3. new \in [SUBSET (1 .. k + 1) -> V]
    <2>1. ASSUME NEW s \in SUBSET (1 .. k + 1)
          PROVE  (IF k + 1 \in s THEN step[old[s \ {k + 1}]][k + 1] ELSE old[s]) \in V
      <3>1. CASE k + 1 \in s
        <4>0. s \ {k + 1} \in SUBSET (1 .. k)
          BY <1>1
        <4>1. old[s \ {k + 1}] \in V
          BY <4>0, <1>2, Zenon
        <4>5. k + 1 \in 1 .. n
          OBVIOUS
        <4>2. step[old[s \ {k + 1}]] \in [1 .. n -> V]
          BY <4>1
        <4>3. step[old[s \ {k + 1}]][k + 1] \in V
          BY <4>2, <4>5
        <4>4. QED
          BY <3>1, <4>3
      <3>2. CASE k + 1 \notin s
        BY <1>1, <1>2, <3>2
      <3>3. QED
        BY <3>1, <3>2
    <2>2. QED
      BY <2>1
  <1>4. ASSUME NEW s \in SUBSET (1 .. k + 1), s # {}
        PROVE  new[s] = step[new[s \ {Max(s)}]][Max(s)]
    <2>0. s \in SUBSET Nat /\ k + 1 \in Nat /\ \A m \in s : m <= k + 1
      OBVIOUS
    <2>1. Max(s) \in s /\ \A m \in s : m <= Max(s)
      BY <1>4, <2>0, MaxOfNats
    <2>2. CASE k + 1 \in s
      <3>1. Max(s) = k + 1
        <4>1. Max(s) <= k + 1 /\ k + 1 <= Max(s) /\ Max(s) \in Nat
          BY <2>0, <2>1, <2>2
        <4>2. QED
          BY <4>1
      <3>2. new[s \ {k + 1}] = old[s \ {k + 1}]
        BY <1>1
      <3>3. QED
        BY <2>2, <3>1, <3>2
    <2>3. CASE k + 1 \notin s
      <3>1. s \in SUBSET (1 .. k) /\ s \ {Max(s)} \in SUBSET (1 .. k + 1)
        BY <1>1, <2>3
      <3>2. new[s] = old[s] /\ new[s \ {Max(s)}] = old[s \ {Max(s)}]
        BY <2>3, <3>1
      <3>3. QED
        BY <1>4, <3>1, <3>2 DEF IsFold
    <2>4. QED
      BY <2>2, <2>3
  <1>5. new[{}] = base
    BY DEF IsFold
  <1> HIDE DEF new
  <1>6. IsFold(new, k + 1, V, base, step)
    BY <1>3, <1>4, <1>5 DEF IsFold
  <1>7. QED
    BY <1>6

\* The folds of sequences exist, for every step function.
LEMMA FoldExists ==
    ASSUME NEW n \in Nat, NEW V, NEW base \in V, NEW step \in [V -> [1 .. n -> V]]
    PROVE  \E fold : IsFold(fold, n, V, base, step)
  <1> DEFINE Exists == {k \in Nat : k <= n => \E fold : IsFold(fold, k, V, base, step)}
  <1>1. 0 \in Exists
    <2>1. IsFold([s \in SUBSET (1 .. 0) |-> base], 0, V, base, step)
      BY DEF IsFold
    <2>2. QED
      BY <2>1
  <1>2. ASSUME NEW k \in Nat, k \in Exists PROVE k + 1 \in Exists
    BY <1>2, FoldExtends
  <1> HIDE DEF Exists
  <1>3. n \in Exists
    BY <1>1, <1>2, SetInduction
  <1>4. QED
    BY <1>3 DEF Exists

\* A fold over 1 .. n takes one index at a time.
LEMMA FoldPrefixes ==
    ASSUME NEW n \in Nat, NEW V, NEW base, NEW step, NEW fold,
           IsFold(fold, n, V, base, step)
    PROVE  /\ fold[1 .. 0] = base
           /\ \A k \in 0 .. n : fold[1 .. k] \in V
           /\ \A k \in 0 .. n - 1 : fold[1 .. k + 1] = step[fold[1 .. k]][k + 1]
  <1>1. fold \in [SUBSET (1 .. n) -> V]
    BY DEF IsFold
  <1>2. \A k \in 0 .. n : 1 .. k \in SUBSET (1 .. n)
    OBVIOUS
  <1>3. fold[1 .. 0] = base
    <2>1. 1 .. 0 = {} /\ {} \in SUBSET (1 .. n)
      OBVIOUS
    <2>2. fold[{}] = base
      BY <2>1 DEF IsFold
    <2>3. QED
      BY <2>1, <2>2
  <1>4. ASSUME NEW k \in 0 .. n - 1
        PROVE  fold[1 .. k + 1] = step[fold[1 .. k]][k + 1]
    <2>1. PICK s \in SUBSET (1 .. n) : s = 1 .. k + 1
      BY <1>2
    <2>2. s # {}
      BY <2>1
    <2>3. fold[s] = step[fold[s \ {Max(s)}]][Max(s)]
      BY <2>2 DEF IsFold
    <2>4. PICK m \in Nat : m = k + 1 /\ m # 0
      OBVIOUS
    <2>5. Max(1 .. m) = m /\ (1 .. m) \ {Max(1 .. m)} = 1 .. m - 1
      BY <2>4, MaxOfInterval
    <2>6. Max(s) = k + 1 /\ s \ {Max(s)} = 1 .. k
      BY <2>1, <2>4, <2>5
    <2>7. QED
      BY <2>1, <2>3, <2>6
  <1>5. ASSUME NEW k \in 0 .. n PROVE fold[1 .. k] \in V
    BY <1>1, <1>2, Zenon
  <1>6. QED
    BY <1>3, <1>4, <1>5

IsRecursion(f, n, V, base, step) ==
    /\ f \in [0 .. n -> V]
    /\ f[0] = base
    /\ \A k \in 1 .. n : f[k] = step[f[k - 1]][k]

\* A recursive function on 0 .. n exists, for every step function.
LEMMA RecursionExists ==
    ASSUME NEW n \in Nat, NEW V, NEW base \in V, NEW step \in [V -> [1 .. n -> V]]
    PROVE  \E f : IsRecursion(f, n, V, base, step)
  <1>1. PICK fold : IsFold(fold, n, V, base, step)
    BY FoldExists
  <1>2. /\ fold[1 .. 0] = base
        /\ \A k \in 0 .. n : fold[1 .. k] \in V
        /\ \A k \in 0 .. n - 1 : fold[1 .. k + 1] = step[fold[1 .. k]][k + 1]
    BY <1>1, FoldPrefixes
  <1> DEFINE f == [k \in 0 .. n |-> fold[1 .. k]]
  <1>3. f \in [0 .. n -> V] /\ f[0] = base
    BY <1>2
  <1>4. ASSUME NEW k \in 1 .. n PROVE f[k] = step[f[k - 1]][k]
    <2>1. PICK j \in 0 .. n - 1 : j = k - 1 /\ k = j + 1
      OBVIOUS
    <2>2. fold[1 .. j + 1] = step[fold[1 .. j]][j + 1]
      BY <1>2
    <2>3. QED
      BY <2>1, <2>2
  <1>5. QED
    BY <1>3, <1>4 DEF IsRecursion

----------------------------------------------------------------------------
(* Finite sets, and sums over them *)

LEMMA OneLess ==
    ASSUME NEW S, IsFiniteSet(S), NEW n \in Nat, Cardinality(S) = n + 1
    PROVE  S # {} /\ \A x \in S : Cardinality(S \ {x}) = n
  <1>1. ASSUME S = {} PROVE FALSE
    <2>1. Cardinality(S) = 0
      BY <1>1, FS_EmptySet
    <2>2. QED
      BY <2>1
  <1>2. ASSUME NEW x \in S PROVE Cardinality(S \ {x}) = n
    <2>1. Cardinality(S \ {x}) = Cardinality(S) - 1
      BY FS_RemoveElement
    <2>2. QED
      BY <2>1
  <1>3. QED
    BY <1>1, <1>2

\* A set of sets with {} and with each of its sets with one more element.
LEMMA FiniteInduction ==
    ASSUME NEW D, IsFiniteSet(D), NEW F, {} \in F,
           \A s \in SUBSET D : \A x \in D \ s : s \in F => s \cup {x} \in F
    PROVE  \A s \in SUBSET D : s \in F
  <1> DEFINE N == {n \in Nat : \A s \in SUBSET D : Cardinality(s) = n => s \in F}
  <1>1. \A s \in SUBSET D : IsFiniteSet(s) /\ Cardinality(s) \in Nat
    BY FS_Subset, FS_CardinalityType
  <1>2. 0 \in N
    BY <1>1, FS_EmptySet
  <1>3. ASSUME NEW n \in Nat, n \in N PROVE n + 1 \in N
    <2> SUFFICES ASSUME NEW s \in SUBSET D, Cardinality(s) = n + 1 PROVE s \in F
      OBVIOUS
    <2>1. s # {}
      BY <1>1, OneLess
    <2>2. PICK x : x \in s
      BY <2>1
    <2>3. s \ {x} \in SUBSET D /\ Cardinality(s \ {x}) = n
      BY <1>1, <2>2, OneLess
    <2>4. s \ {x} \in F /\ x \in D \ (s \ {x}) /\ (s \ {x}) \cup {x} = s
      BY <1>3, <2>2, <2>3
    <2>5. QED
      BY <2>3, <2>4
  <1> HIDE DEF N
  <1>4. \A n \in Nat : n \in N
    BY <1>2, <1>3, SetInduction
  <1>5. QED
    BY <1>1, <1>4 DEF N

\* What the fold of MapThenSumSet takes each subset of D to.
Choice(s) == CHOOSE x \in s : TRUE
SumsUp(g, D, f) ==
    /\ g[{}] = 0
    /\ \A s \in SUBSET D : s # {} => g[s] = f[Choice(s)] + g[s \ {Choice(s)}]
IsSum(total, D, f) ==
    /\ total \in [SUBSET D -> Nat]
    /\ total[{}] = 0
    /\ \A s \in SUBSET D :
         s # {} => total[s] = f[Choice(s)] + total[s \ {Choice(s)}]

\* The order in which it takes the elements makes no difference.
Adds(total, D, f) ==
    \A s \in SUBSET D : \A x \in D \ s : total[s \cup {x}] = f[x] + total[s]

LEMMA SumAdds ==
    ASSUME NEW D, IsFiniteSet(D), NEW f \in [D -> Nat], NEW total, IsSum(total, D, f)
    PROVE  Adds(total, D, f)
  <1> DEFINE N == {n \in Nat : \A s \in SUBSET D : \A x \in D \ s :
                     Cardinality(s) = n => total[s \cup {x}] = f[x] + total[s]}
  <1>1. \A s \in SUBSET D : IsFiniteSet(s) /\ Cardinality(s) \in Nat
    BY FS_Subset, FS_CardinalityType
  <1>2. 0 \in N
    <2> SUFFICES ASSUME NEW s \in SUBSET D, NEW x \in D \ s, Cardinality(s) = 0
                 PROVE  total[s \cup {x}] = f[x] + total[s]
      OBVIOUS
    <2>1. s = {} /\ s \cup {x} = {x} /\ {x} # {} /\ {x} \in SUBSET D
      BY <1>1, FS_EmptySet
    <2>2. Choice({x}) = x /\ {x} \ {x} = {}
      BY DEF Choice
    <2>3. total[{x}] = f[x] + total[{}]
      BY <2>1, <2>2 DEF IsSum
    <2>4. QED
      BY <2>1, <2>3
  <1>3. ASSUME NEW n \in Nat, n \in N PROVE n + 1 \in N
    <2> SUFFICES ASSUME NEW s \in SUBSET D, NEW x \in D \ s, Cardinality(s) = n + 1
                 PROVE  total[s \cup {x}] = f[x] + total[s]
      OBVIOUS
    <2> DEFINE u == s \cup {x}
               c == Choice(u)
    <2>1. u \in SUBSET D /\ u # {} /\ c \in u /\ total[u] = f[c] + total[u \ {c}]
      <3>1. u \in SUBSET D /\ u # {}
        OBVIOUS
      <3>2. c \in u
        BY <3>1 DEF Choice
      <3>3. QED
        BY <3>1, <3>2 DEF IsSum
    <2> HIDE DEF c
    <2>2. CASE c = x
      <3>1. u \ {c} = s
        BY <2>2
      <3>2. QED
        BY <2>1, <2>2, <3>1
    <2>3. CASE c # x
      <3> DEFINE r == s \ {c}
      <3>1. /\ c \in s /\ r \in SUBSET D /\ c \in D \ r /\ x \in D \ r
            /\ r \cup {c} = s /\ r \cup {x} = u \ {c}
        BY <2>1, <2>3
      <3>2. Cardinality(r) = n
        BY <1>1, <3>1, FS_RemoveElement
      <3>3. total[r \cup {c}] = f[c] + total[r] /\ total[r \cup {x}] = f[x] + total[r]
        BY <1>3, <3>1, <3>2
      <3>4. total[r] \in Nat /\ f[c] \in Nat /\ f[x] \in Nat
        BY <3>1 DEF IsSum
      <3>5. total[s] = f[c] + total[r] /\ total[u \ {c}] = f[x] + total[r]
        BY <3>1, <3>3, Zenon
      <3>6. QED
        BY <2>1, <3>4, <3>5
    <2>4. QED
      BY <2>2, <2>3
  <1> HIDE DEF N
  <1>4. \A n \in Nat : n \in N
    BY <1>2, <1>3, SetInduction
  <1>5. QED
    BY <1>1, <1>4 DEF N, Adds

LEMMA SumExtends ==
    ASSUME NEW E, NEW f, NEW s, IsFiniteSet(s), s \subseteq E, NEW x \in E, x \notin s,
           f \in [E -> Nat], NEW old, IsSum(old, s, f)
    PROVE  \E new : IsSum(new, s \cup {x}, f)
  <1> DEFINE new == [u \in SUBSET (s \cup {x}) |->
                       IF x \in u THEN f[x] + old[u \ {x}] ELSE old[u]]
             g == [y \in s |-> f[y]]
  <1>1. \A u \in SUBSET (s \cup {x}) : u \ {x} \in SUBSET s /\ (x \notin u => u \in SUBSET s)
    OBVIOUS
  <1>2. old \in [SUBSET s -> Nat] /\ f[x] \in Nat
    BY DEF IsSum
  <1>3. new \in [SUBSET (s \cup {x}) -> Nat]
    BY <1>1, <1>2
  <1>4. new[{}] = 0
    BY DEF IsSum
  <1>5. \A u \in SUBSET s : \A y \in s \ u : old[u \cup {y}] = f[y] + old[u]
    <2>1. g \in [s -> Nat] /\ \A y \in s : g[y] = f[y]
      OBVIOUS
    <2> HIDE DEF g
    <2>2. IsSum(old, s, g)
      <3>1. \A u \in SUBSET s : u # {} => Choice(u) \in s
        BY DEF Choice
      <3>2. QED
        BY <2>1, <3>1 DEF IsSum
    <2>3. \A u \in SUBSET s : \A y \in s \ u : old[u \cup {y}] = g[y] + old[u]
      <3>1. Adds(old, s, g)
        BY <2>1, <2>2, SumAdds
      <3>2. QED
        BY <3>1 DEF Adds
    <2>4. QED
      BY <2>1, <2>3
  <1>6. ASSUME NEW u \in SUBSET (s \cup {x}), u # {}
        PROVE  new[u] = f[Choice(u)] + new[u \ {Choice(u)}]
    <2> DEFINE c == Choice(u)
    <2>1. c \in u /\ u \ {c} \in SUBSET (s \cup {x})
      BY <1>6 DEF Choice
    <2>2. CASE x \notin u
      <3>1. u \in SUBSET s /\ x \notin u \ {c}
        BY <1>1, <2>2
      <3>2. new[u] = old[u] /\ new[u \ {c}] = old[u \ {c}]
        BY <2>1, <2>2, <3>1
      <3>3. QED
        BY <1>6, <3>1, <3>2 DEF IsSum
    <2>3. CASE x \in u /\ c = x
      BY <2>1, <2>3
    <2>4. CASE x \in u /\ c # x
      <3> HIDE DEF c
      <3> DEFINE r == u \ {x, c}
      <3>1. /\ c \in s /\ r \in SUBSET s /\ c \in s \ r /\ r \cup {c} = u \ {x}
            /\ r = (u \ {c}) \ {x} /\ x \in u \ {c}
        BY <2>1, <2>4
      <3>2. old[r \cup {c}] = f[c] + old[r] /\ old[r] \in Nat /\ f[c] \in Nat
        BY <1>2, <1>5, <3>1
      <3>3. new[u] = f[x] + old[r \cup {c}] /\ new[u \ {c}] = f[x] + old[r]
        BY <2>1, <2>4, <3>1
      <3> HIDE DEF new, r
      <3>4. new[u] = f[c] + new[u \ {c}]
        BY <1>2, <3>2, <3>3
      <3>5. QED
        BY <3>4 DEF c
    <2>5. QED
      BY <2>2, <2>3, <2>4
  <1> HIDE DEF new
  <1>7. IsSum(new, s \cup {x}, f)
    BY <1>3, <1>4, <1>6 DEF IsSum
  <1>8. QED
    BY <1>7

\* Sums exist.
LEMMA SumExists ==
    ASSUME NEW D, IsFiniteSet(D), NEW f \in [D -> Nat]
    PROVE  \E total : IsSum(total, D, f)
  <1> DEFINE F == {s \in SUBSET D : \E total : IsSum(total, s, f)}
  <1>1. {} \in F
    <2>1. IsSum([s \in SUBSET {} |-> 0], {}, f)
      BY DEF IsSum
    <2>2. QED
      BY <2>1
  <1>2. ASSUME NEW s \in SUBSET D, NEW x \in D \ s, s \in F PROVE s \cup {x} \in F
    <2>1. IsFiniteSet(s) /\ s \cup {x} \in SUBSET D
      BY FS_Subset
    <2>2. PICK total : IsSum(total, s, f)
      BY <1>2
    <2>3. \E new : IsSum(new, s \cup {x}, f)
      BY <2>1, <2>2, SumExtends
    <2>4. QED
      BY <2>1, <2>3
  <1> HIDE DEF F
  <1>3. \A s \in SUBSET D : s \in F
    BY <1>1, <1>2, FiniteInduction
  <1>4. D \in F
    BY <1>3
  <1>5. QED
    BY <1>4 DEF F

\* Two sums over the same elements are the same.
LEMMA SumsAgree ==
    ASSUME NEW D, IsFiniteSet(D), NEW f \in [D -> Nat], NEW g, IsSum(g, D, f),
           NEW E, IsFiniteSet(E), NEW e \in [E -> Nat], NEW h, IsSum(h, E, e),
           NEW s, s \subseteq D, s \subseteq E, \A x \in s : f[x] = e[x]
    PROVE  g[s] = h[s]
  <1> DEFINE F == {u \in SUBSET s : g[u] = h[u]}
  <1>1. IsFiniteSet(s)
    BY FS_Subset
  <1>2. {} \in F
    BY DEF IsSum
  <1>3. ASSUME NEW u \in SUBSET s, NEW x \in s \ u, u \in F PROVE u \cup {x} \in F
    <2>1. g[u \cup {x}] = f[x] + g[u]
      BY SumAdds DEF Adds
    <2>2. h[u \cup {x}] = e[x] + h[u]
      BY SumAdds DEF Adds
    <2>3. QED
      BY <1>3, <2>1, <2>2
  <1> HIDE DEF F
  <1>4. s \in F
    BY <1>1, <1>2, <1>3, FiniteInduction
  <1>5. QED
    BY <1>4 DEF F

\* Intervals one behind the other are together no longer than where they end.
LEMMA SumOfIntervals ==
    ASSUME NEW D \in SUBSET Nat, IsFiniteSet(D), NEW f \in [D -> Nat],
           NEW total, IsSum(total, D, f), NEW H \in Nat,
           \A a \in D : a + f[a] <= H,
           \A a, c \in D : a < c => a + f[a] <= c
    PROVE  total[D] <= H
  <1>0. Adds(total, D, f)
    BY SumAdds
  <1> DEFINE Short(s, b) == (\A a \in s : a + f[a] <= b) => total[s] <= b
             N == {n \in Nat : \A s \in SUBSET D : \A b \in 0 .. H :
                     Cardinality(s) = n => Short(s, b)}
  <1>1. \A s \in SUBSET D : IsFiniteSet(s) /\ Cardinality(s) \in Nat
    BY FS_Subset, FS_CardinalityType
  <1>2. 0 \in N
    <2>1. \A s \in SUBSET D : Cardinality(s) = 0 => total[s] = 0
      BY <1>1, FS_EmptySet DEF IsSum
    <2>2. QED
      BY <2>1
  <1>3. ASSUME NEW n \in Nat, n \in N PROVE n + 1 \in N
    <2> SUFFICES ASSUME NEW s \in SUBSET D, NEW b \in 0 .. H, Cardinality(s) = n + 1,
                        \A a \in s : a + f[a] <= b
                 PROVE  total[s] <= b
      OBVIOUS
    <2>1. s # {} /\ s \in SUBSET Nat
      BY <1>1, OneLess
    <2>2. \A a \in s : a <= H
      BY <2>1
    <2>3. PICK m \in s : \A a \in s : a <= m
      BY <2>1, <2>2, GreatestElement
    <2> DEFINE r == s \ {m}
    <2>4. r \in SUBSET D /\ m \in D \ r /\ r \cup {m} = s /\ Cardinality(r) = n
      <3>1. Cardinality(r) = n
        BY <1>1, OneLess
      <3>2. QED
        BY <3>1
    <2>5. m \in 0 .. H /\ \A a \in r : a + f[a] <= m
      <3>1. \A a \in r : a \in D /\ m \in D /\ a <= m /\ a # m /\ a \in Nat /\ m \in Nat
        BY <2>1, <2>3, <2>4
      <3>2. \A a \in r : a < m
        BY <3>1
      <3>3. QED
        BY <2>1, <2>2, <2>3, <3>1, <3>2
    <2>6. total[r] <= m
      BY <1>3, <2>4, <2>5
    <2>7. total[s] = f[m] + total[r]
      <3>1. total[r \cup {m}] = f[m] + total[r]
        <4> HIDE DEF r
        <4>1. QED
          BY <1>0, <2>4 DEF Adds
      <3>2. QED
        BY <2>4, <3>1, Zenon
    <2>8. m + f[m] <= b /\ m \in Nat /\ f[m] \in Nat /\ total[r] \in Nat
      BY <2>1, <2>3, <2>4 DEF IsSum
    <2>9. QED
      BY <2>6, <2>7, <2>8
  <1> HIDE DEF N
  <1>4. Cardinality(D) \in N
    BY <1>1, <1>2, <1>3, SetInduction
  <1>5. QED
    BY <1>4 DEF N

\* And whatever is defined as a sum is the sum.
LEMMA SumUnique ==
    ASSUME NEW D, IsFiniteSet(D), NEW f, NEW total, IsSum(total, D, f),
           NEW g, SumsUp(g, D, f)
    PROVE  g[D] = total[D]
  <1> DEFINE N == {n \in Nat : \A s \in SUBSET D : Cardinality(s) = n => g[s] = total[s]}
  <1>1. \A s \in SUBSET D : IsFiniteSet(s) /\ Cardinality(s) \in Nat
    BY FS_Subset, FS_CardinalityType
  <1>2. 0 \in N
    <2>1. \A s \in SUBSET D : Cardinality(s) = 0 => s = {}
      BY <1>1, FS_EmptySet
    <2>2. QED
      BY <2>1 DEF IsSum, SumsUp
  <1>3. ASSUME NEW n \in Nat, n \in N PROVE n + 1 \in N
    <2> SUFFICES ASSUME NEW s \in SUBSET D, Cardinality(s) = n + 1
                 PROVE  g[s] = total[s]
      OBVIOUS
    <2> DEFINE c == Choice(s)
    <2>1. s # {} /\ \A x \in s : Cardinality(s \ {x}) = n
      BY <1>1, OneLess
    <2>2. c \in s
      BY <2>1 DEF Choice
    <2>3. s \ {c} \in SUBSET D /\ Cardinality(s \ {c}) = n
      BY <2>1, <2>2
    <2>4. g[s \ {c}] = total[s \ {c}]
      BY <1>3, <2>3
    <2>5. QED
      BY <2>1, <2>4 DEF IsSum, SumsUp
  <1> HIDE DEF N
  <1>4. Cardinality(D) \in N
    BY <1>1, <1>2, <1>3, SetInduction
  <1>5. QED
    BY <1>4 DEF N

=============================================================================
