--------------------------- MODULE SPPTableProofs ---------------------------
(***************************************************************************)
(* Lemmas about the tables of the Signature Path Prefetcher, one table at  *)
(* a time: what an access, a training or a filter request does to a row    *)
(* that is well formed.  SPPProofs lifts them to the state machine.        *)
(***************************************************************************)
EXTENDS SPP, ExtremumLemmas, FiniteSetTheorems

(***************************************************************************)
(* Sums.  SumFunction takes the elements of a set one by one, in some      *)
(* order that depends on the set only.                                     *)
(***************************************************************************)
Taken(s) == CHOOSE x \in s : TRUE

\* g[s] is the sum of f over s, for the sets s of D.
Sums(g, f, D) ==
  \A s \in D : g[s] = IF s = {} THEN 0 ELSE f[Taken(s)] + g[s \ {Taken(s)}]

\* What holds of the empty set, and of a set if it holds without the element
\* that is taken first, holds of all subsets of a finite set.
LEMMA SubsetInduction ==
  ASSUME NEW S, IsFiniteSet(S), NEW Good, {} \in Good,
         \A s \in SUBSET S : s # {} /\ s \ {Taken(s)} \in Good => s \in Good
  PROVE  SUBSET S \subseteq Good
<1> DEFINE R == StrictSubsetOrdering(S)
           Bad == {s \in SUBSET S : s \notin Good}
<1>1. IsWellFoundedOn(R, SUBSET S)
  BY FS_StrictSubsetOrderingWellFounded, FS_FiniteSubsetsOfFinite
<1>2. SUFFICES ASSUME Bad # {} PROVE FALSE
  OBVIOUS
<1>3. PICK s \in Bad : \A t \in Bad : ~(<<t, s>> \in R)
  <2>1. Bad \subseteq SUBSET S
    OBVIOUS
  <2> HIDE DEF Bad, R
  <2>2. QED
    BY <1>1, <1>2, <2>1, WFMin
<1>4. s # {} /\ s \in SUBSET S
  OBVIOUS
<1>5. Taken(s) \in s
  BY <1>4 DEF Taken
<1>6. s \ {Taken(s)} \notin Bad
  <2>1. PICK t : t = s \ {Taken(s)}
    OBVIOUS
  <2>2. t \in SUBSET S /\ t \subseteq s /\ t # s
    BY <1>4, <1>5, <2>1
  <2>3. <<t, s>> \in R
    BY <1>4, <2>2 DEF StrictSubsetOrdering
  <2> HIDE DEF R, Bad
  <2>4. QED
    BY <1>3, <2>1, <2>3
<1>7. QED
  BY <1>4, <1>6

LEMMA SumsExist ==
  ASSUME NEW S, IsFiniteSet(S), NEW f \in [S -> Nat]
  PROVE  \E g \in [SUBSET S -> Nat] : Sums(g, f, SUBSET S)
<1> DEFINE D(n) == {s \in SUBSET S : Cardinality(s) =< n}
           Bad == {n \in Nat : ~ \E g \in [D(n) -> Nat] : Sums(g, f, D(n))}
<1>1. ASSUME NEW s \in SUBSET S
      PROVE  /\ IsFiniteSet(s) /\ Cardinality(s) \in Nat
             /\ Cardinality(s) =< Cardinality(S)
             /\ Cardinality(s) = 0 <=> s = {}
             /\ s # {} => /\ Taken(s) \in s /\ Taken(s) \in S
                          /\ s \ {Taken(s)} \in SUBSET S
                          /\ Cardinality(s \ {Taken(s)}) = Cardinality(s) - 1
  <2>1. /\ IsFiniteSet(s) /\ Cardinality(s) \in Nat
        /\ Cardinality(s) =< Cardinality(S)
        /\ Cardinality(s) = 0 <=> s = {}
    BY FS_Subset, FS_CardinalityType, FS_EmptySet
  <2>2. s # {} => Taken(s) \in s
    BY DEF Taken
  <2>3. QED
    BY <2>1, <2>2, FS_RemoveElement
<1>2. Bad = {}
  <2> SUFFICES ASSUME Bad # {} PROVE FALSE
    OBVIOUS
  <2>1. PICK m : m = Min(Bad)
    OBVIOUS
  <2>2. m \in Bad /\ \A n \in Bad : m =< n
    <3>1. Bad \subseteq Nat
      OBVIOUS
    <3> HIDE DEF Bad
    <3>2. QED
      BY <2>1, <3>1, MinProperty
  <2>3. CASE m = 0
    <3> DEFINE g == [s \in D(m) |-> 0]
    <3>1. ASSUME NEW s \in D(m) PROVE s = {}
      <4>1. s \in SUBSET S /\ Cardinality(s) =< 0
        BY <2>3
      <4>2. Cardinality(s) \in Nat /\ (Cardinality(s) = 0 <=> s = {})
        BY <1>1, <4>1
      <4> HIDE DEF g, D, Bad
      <4>3. QED
        BY <4>1, <4>2
    <3>2. g \in [D(m) -> Nat] /\ Sums(g, f, D(m))
      BY <3>1 DEF Sums
    <3>3. QED
      BY <2>2, <3>2
  <2>4. CASE m # 0
    <3>1. m - 1 \in Nat /\ m - 1 \notin Bad
      <4>1. m \in Nat
        BY <2>2
      <4> HIDE DEF Bad
      <4>2. QED
        BY <2>2, <2>4, <4>1
    <3>2. PICK g \in [D(m - 1) -> Nat] : Sums(g, f, D(m - 1))
      BY <3>1
    <3> DEFINE h == [s \in D(m) |-> IF s \in D(m - 1) THEN g[s]
                                    ELSE f[Taken(s)] + g[s \ {Taken(s)}]]
    <3>3. ASSUME NEW s \in D(m), s # {}
          PROVE  f[Taken(s)] \in Nat /\ s \ {Taken(s)} \in D(m - 1) /\ s \ {Taken(s)} \in D(m)
      BY <1>1, <2>2, <3>3
    <3>4. {} \in D(m - 1)
      <4>1. Cardinality({}) = 0
        BY FS_EmptySet
      <4>2. QED
        BY <3>1, <4>1
    <3>5. h \in [D(m) -> Nat]
      <4> SUFFICES ASSUME NEW s \in D(m)
                   PROVE  (IF s \in D(m - 1) THEN g[s]
                           ELSE f[Taken(s)] + g[s \ {Taken(s)}]) \in Nat
        OBVIOUS
      <4> HIDE DEF D
      <4>1. CASE s \in D(m - 1)
        BY <3>2, <4>1
      <4>2. CASE s \notin D(m - 1)
        <5>1. s # {}
          BY <3>4, <4>2
        <5>2. f[Taken(s)] \in Nat /\ g[s \ {Taken(s)}] \in Nat
          BY <3>2, <3>3, <5>1
        <5>3. QED
          BY <4>2, <5>2
      <4>3. QED
        BY <4>1, <4>2
    <3>6. Sums(h, f, D(m))
      <4> SUFFICES ASSUME NEW s \in D(m)
                   PROVE  h[s] = IF s = {} THEN 0 ELSE f[Taken(s)] + h[s \ {Taken(s)}]
        BY DEF Sums
      <4>1. CASE s = {}
        <5>1. g[{}] = 0
          BY <3>2, <3>4 DEF Sums
        <5> HIDE DEF D
        <5>2. QED
          BY <3>4, <4>1, <5>1
      <4>2. CASE s # {}
        <5>1. h[s \ {Taken(s)}] = g[s \ {Taken(s)}]
          <6> HIDE DEF D
          <6>1. QED
            BY <3>3, <4>2
        <5>2. h[s] = f[Taken(s)] + g[s \ {Taken(s)}]
          <6> HIDE DEF D
          <6>1. CASE s \in D(m - 1)
            BY <3>2, <4>2, <6>1 DEF Sums
          <6>2. CASE s \notin D(m - 1)
            BY <6>2
          <6>3. QED
            BY <6>1, <6>2
        <5> HIDE DEF h, D
        <5>3. QED
          BY <4>2, <5>1, <5>2
      <4>3. QED
        BY <4>1, <4>2
    <3>7. QED
      BY <2>2, <3>5, <3>6
  <2>5. QED
    BY <2>3, <2>4
<1>3. PICK n : n = Cardinality(S)
  OBVIOUS
<1>4. n \in Nat /\ D(n) = SUBSET S
  BY <1>1, <1>3
<1>5. \E g \in [D(n) -> Nat] : Sums(g, f, D(n))
  BY <1>2, <1>4
<1> HIDE DEF D
<1>6. QED
  BY <1>4, <1>5

\* The sum of a function is that of its whole domain.
LEMMA SumUnfolds ==
  ASSUME NEW S, IsFiniteSet(S), NEW f \in [S -> Nat]
  PROVE  \E g \in [SUBSET S -> Nat] : Sums(g, f, SUBSET S) /\ SumFunction(f) = g[S]
<1> DEFINE Eq(h) == h = [s \in SUBSET S |->
                           IF s = {} THEN 0
                           ELSE f[CHOOSE x \in s : TRUE] + h[s \ {CHOOSE x \in s : TRUE}]]
           g == CHOOSE h : Eq(h)
<1>1. SumFunction(f) = g[S]
  BY DEF SumFunction, SumFunctionOnSet, FoldFunctionOnSet, MapThenFoldSet
<1>2. Eq(g)
  <2>1. PICK h \in [SUBSET S -> Nat] : Sums(h, f, SUBSET S)
    BY SumsExist
  <2>2. Eq(h)
    BY <2>1 DEF Sums, Taken
  <2> HIDE DEF Eq
  <2>3. QED
    BY <2>2
<1> HIDE DEF g
<1>3. Sums(g, f, SUBSET S) /\ g = [s \in SUBSET S |-> g[s]]
  BY <1>2 DEF Sums, Taken
<1> HIDE DEF Eq
<1>4. \A s \in SUBSET S : g[s] \in Nat
  <2> DEFINE Good == {s \in SUBSET S : g[s] \in Nat}
  <2>1. {} \in Good
    <3>1. {} \in SUBSET S
      OBVIOUS
    <3>2. g[{}] = 0
      BY <1>3, <3>1 DEF Sums
    <3>3. QED
      BY <3>1, <3>2
  <2>2. ASSUME NEW s \in SUBSET S, s # {}, s \ {Taken(s)} \in Good PROVE s \in Good
    <3>1. Taken(s) \in S
      BY <2>2 DEF Taken
    <3>2. g[s] = f[Taken(s)] + g[s \ {Taken(s)}]
      BY <1>3, <2>2 DEF Sums
    <3>3. QED
      BY <2>2, <3>1, <3>2
  <2>3. SUBSET S \subseteq Good
    <3> HIDE DEF Good
    <3>1. QED
      BY <2>1, <2>2, SubsetInduction
  <2>4. QED
    BY <2>3
<1>5. QED
  BY <1>1, <1>3, <1>4

LEMMA Distributes ==
  ASSUME NEW a \in Nat, NEW b \in Nat, NEW c \in Nat
  PROVE  a * (b + c) = a * b + a * c /\ a * b \in Nat
OBVIOUS

\* A sum is bounded as its terms are.
LEMMA SumScaled ==
  ASSUME NEW S, IsFiniteSet(S), NEW f \in [S -> Nat], NEW g \in [S -> Nat],
         NEW a \in Nat, NEW b \in Nat, \A x \in S : a * f[x] =< b * g[x]
  PROVE  /\ a * SumFunction(f) =< b * SumFunction(g)
         /\ SumFunction(f) \in Nat /\ SumFunction(g) \in Nat
<1>1. PICK F \in [SUBSET S -> Nat] : Sums(F, f, SUBSET S) /\ SumFunction(f) = F[S]
  BY SumUnfolds
<1>2. PICK G \in [SUBSET S -> Nat] : Sums(G, g, SUBSET S) /\ SumFunction(g) = G[S]
  BY SumUnfolds
<1> DEFINE Good == {s \in SUBSET S : a * F[s] =< b * G[s]}
<1>3. {} \in Good
  <2>1. F[{}] = 0 /\ G[{}] = 0
    BY <1>1, <1>2 DEF Sums
  <2>2. QED
    BY <2>1
<1>4. ASSUME NEW s \in SUBSET S, s # {}, s \ {Taken(s)} \in Good PROVE s \in Good
  <2>1. PICK x : x = Taken(s)
    OBVIOUS
  <2>2. PICK t : t = s \ {x}
    OBVIOUS
  <2>3. x \in S /\ t \in SUBSET S
    BY <1>4, <2>1, <2>2 DEF Taken
  <2>4. F[s] = f[x] + F[t] /\ G[s] = g[x] + G[t]
    BY <1>1, <1>2, <1>4, <2>1, <2>2 DEF Sums
  <2>5. f[x] \in Nat /\ g[x] \in Nat /\ F[t] \in Nat /\ G[t] \in Nat
    BY <2>3
  <2>6. a * F[t] =< b * G[t] /\ a * f[x] =< b * g[x]
    BY <1>4, <2>1, <2>2, <2>3
  <2>7. /\ a * F[s] = a * f[x] + a * F[t] /\ a * f[x] \in Nat /\ a * F[t] \in Nat
        /\ b * G[s] = b * g[x] + b * G[t] /\ b * g[x] \in Nat /\ b * G[t] \in Nat
    BY <2>4, <2>5, Distributes
  <2>8. QED
    BY <2>6, <2>7
<1>5. SUBSET S \subseteq Good
  <2> HIDE DEF Good
  <2>1. QED
    BY <1>3, <1>4, SubsetInduction
<1>6. S \in Good
  BY <1>5
<1>7. QED
  BY <1>1, <1>2, <1>6

\* One term changes.
LEMMA SumChanged ==
  ASSUME NEW S, IsFiniteSet(S), NEW f \in [S -> Nat], NEW g \in [S -> Nat],
         NEW w \in S, \A x \in S : x # w => g[x] = f[x]
  PROVE  SumFunction(g) + f[w] = SumFunction(f) + g[w]
<1>1. PICK F \in [SUBSET S -> Nat] : Sums(F, f, SUBSET S) /\ SumFunction(f) = F[S]
  BY SumUnfolds
<1>2. PICK G \in [SUBSET S -> Nat] : Sums(G, g, SUBSET S) /\ SumFunction(g) = G[S]
  BY SumUnfolds
<1> DEFINE Good == {s \in SUBSET S : /\ w \in s => G[s] + f[w] = F[s] + g[w]
                                     /\ w \notin s => G[s] = F[s]}
<1>3. {} \in Good
  BY <1>1, <1>2 DEF Sums
<1>4. ASSUME NEW s \in SUBSET S, s # {}, s \ {Taken(s)} \in Good PROVE s \in Good
  <2>1. PICK x : x = Taken(s)
    OBVIOUS
  <2>2. PICK t : t = s \ {x}
    OBVIOUS
  <2>3. x \in s /\ x \in S /\ t \in SUBSET S
    BY <1>4, <2>1, <2>2 DEF Taken
  <2>4. F[s] = f[x] + F[t] /\ G[s] = g[x] + G[t]
    BY <1>1, <1>2, <1>4, <2>1, <2>2 DEF Sums
  <2>5. /\ f[x] \in Nat /\ g[x] \in Nat /\ F[t] \in Nat /\ G[t] \in Nat
        /\ f[w] \in Nat /\ g[w] \in Nat
    BY <2>3
  <2>6. /\ w \in t => G[t] + f[w] = F[t] + g[w]
        /\ w \notin t => G[t] = F[t]
    BY <1>4, <2>1, <2>2
  <2>7. CASE x = w
    <3>1. w \notin t /\ w \in s
      BY <2>2, <2>3, <2>7
    <3>2. G[s] + f[w] = F[s] + g[w]
      BY <2>4, <2>5, <2>6, <2>7, <3>1
    <3>3. QED
      BY <3>1, <3>2
  <2>8. CASE x # w
    <3>1. (w \in t <=> w \in s) /\ g[x] = f[x]
      BY <2>2, <2>3, <2>8
    <3>2. /\ w \in s => G[s] + f[w] = F[s] + g[w]
          /\ w \notin s => G[s] = F[s]
      BY <2>4, <2>5, <2>6, <3>1
    <3>3. QED
      BY <3>2
  <2>9. QED
    BY <2>7, <2>8
<1>5. SUBSET S \subseteq Good
  <2> HIDE DEF Good
  <2>1. QED
    BY <1>3, <1>4, SubsetInduction
<1>6. S \in Good
  BY <1>5
<1>7. QED
  BY <1>1, <1>2, <1>6

(***************************************************************************)
(* Lines and pages.                                                        *)
(***************************************************************************)
LEMMA DivMod ==
  ASSUME NEW a \in Int, NEW b \in Nat \ {0}
  PROVE  /\ a \div b \in Int
         /\ a % b \in 0 .. b - 1
         /\ a = b * (a \div b) + (a % b)
OBVIOUS

LEMMA ZeroDivided ==
  ASSUME NEW b \in Nat \ {0}
  PROVE  0 \div b = 0 /\ 0 % b = 0
OBVIOUS

LEMMA ScaledOrder ==
  ASSUME NEW b \in Nat \ {0}, NEW p \in Int, NEW q \in Int, p =< q
  PROVE  b * p =< b * q
OBVIOUS

\* c out of s, in percent.
LEMMA PercentBound ==
  ASSUME NEW s \in Nat \ {0}, NEW c \in Nat, c =< s
  PROVE  (100 * c) \div s \in 0 .. 100
<1> DEFINE q == (100 * c) \div s
<1>1. /\ q \in Int
      /\ (100 * c) % s \in 0 .. s - 1
      /\ 100 * c = s * q + ((100 * c) % s)
  <2>1. 100 * c \in Int
    OBVIOUS
  <2> QED  BY <2>1, DivMod
<1> HIDE DEF q
<1>2. q >= 0
  <2>1. ASSUME q =< -1
        PROVE  FALSE
    <3>1. s * q =< s * (-1)
      BY <1>1, <2>1, ScaledOrder
    <3> QED  BY <1>1, <3>1
  <2> QED  BY <1>1, <2>1
<1>3. q =< 100
  <2>1. ASSUME q >= 101
        PROVE  FALSE
    <3>1. s * 101 =< s * q
      BY <1>1, <2>1, ScaledOrder
    <3> QED  BY <1>1, <3>1
  <2> QED  BY <1>1, <2>1
<1>4. QED
  BY <1>1, <1>2, <1>3 DEF q

\* A line of the page of a line of the address space is in it too: a
\* candidate that passes the page check has a filter slot.
LEMMA PageMates ==
  ASSUME NEW t \in Lines, NEW l \in Int, PageOf(l) = PageOf(t)
  PROVE  l \in Lines
<1> DEFINE q == PageOf(t)
           L == LinesPerPage
           P == Pages
<1>0. L \in Nat \ {0} /\ P \in Nat \ {0} /\ t \in 0 .. P * L - 1
  BY SizesAssumption DEF Lines
<1>1. q \in Int /\ t = L * q + (t % L) /\ t % L \in 0 .. L - 1
  BY <1>0, DivMod DEF PageOf
<1>2. l = L * q + (l % L) /\ l % L \in 0 .. L - 1
  BY <1>0, DivMod DEF PageOf
<1> HIDE DEF q, L, P
<1>3. q >= 0
  <2>1. ASSUME q =< -1
        PROVE  FALSE
    <3>1. L * q =< L * (-1)
      BY <1>0, <1>1, <2>1, ScaledOrder
    <3> QED  BY <1>0, <1>1, <3>1
  <2> QED  BY <1>1, <2>1
<1>4. q =< P - 1
  <2>1. ASSUME q >= P
        PROVE  FALSE
    <3>1. L * P =< L * q
      BY <1>0, <1>1, <2>1, ScaledOrder
    <3> QED  BY <1>0, <1>1, <3>1
  <2> QED  BY <1>0, <1>1, <2>1
<1>5. 0 =< L * q /\ L * (q + 1) =< L * P /\ L * (q + 1) = L * q + L
  BY <1>0, <1>1, <1>3, <1>4, ScaledOrder
<1>6. QED
  BY <1>0, <1>1, <1>2, <1>5 DEF Lines, L, P

LEMMA LineParts ==
  ASSUME NEW l \in Int
  PROVE  /\ OffsetOf(l) \in Offsets
         /\ l \in Lines => PageOf(l) \in PageIds
<1> DEFINE q == l \div LinesPerPage
           L == LinesPerPage
           P == Pages
<1>0. L \in Nat \ {0} /\ P \in Nat \ {0}
  BY SizesAssumption
<1>1. q \in Int /\ l = L * q + (l % L) /\ l % L \in 0 .. L - 1
  BY <1>0, DivMod
<1>2. OffsetOf(l) \in Offsets
  BY <1>1 DEF OffsetOf, Offsets
<1>3. ASSUME l \in Lines
      PROVE  PageOf(l) \in PageIds
  <2>1. l \in 0 .. P * L - 1
    BY <1>3 DEF Lines
  <2> HIDE DEF q, L, P
  <2>2. q >= 0
    <3>1. ASSUME q =< -1
          PROVE  FALSE
      <4>1. L * q =< L * (-1)
        BY <1>0, <1>1, <3>1, ScaledOrder
      <4> QED  BY <1>0, <1>1, <2>1, <4>1
    <3> QED  BY <1>1, <3>1
  <2>3. q =< P - 1
    <3>1. ASSUME q >= P
          PROVE  FALSE
      <4>1. L * P =< L * q
        BY <1>0, <1>1, <3>1, ScaledOrder
      <4> QED  BY <1>0, <1>1, <2>1, <4>1
    <3> QED  BY <1>0, <1>1, <3>1
  <2> QED  BY <1>0, <1>1, <2>2, <2>3 DEF PageOf, PageIds, q, L, P
<1>4. QED
  BY <1>2, <1>3

(***************************************************************************)
(* Signature Table.                                                        *)
(***************************************************************************)

STRowType == [STWayIds -> STEntry]

\* A page finds its way: a hit, an invalid way, or the victim that
\* spp_st_read_and_update asserts to exist.
LEMMA STWayFound ==
  ASSUME NEW row \in STRowType, LRUOrdered(row), NEW tag
  PROVE  /\ STWay(row, tag) \in STWayIds
         /\ STHits(row, tag) # {} => STWay(row, tag) \in STHits(row, tag)
<1> USE SizesAssumption DEF STWayIds
<1>1. LRUWays(row) # {}
  BY DEF LRUWays, LRUOrdered
<1>2. /\ STHits(row, tag) \subseteq Nat /\ InvalidWays(row) \subseteq Nat
      /\ LRUWays(row) \subseteq Nat
  BY DEF STHits, InvalidWays, LRUWays
<1>3. /\ STHits(row, tag) # {} => Min(STHits(row, tag)) \in STHits(row, tag)
      /\ InvalidWays(row) # {} => Min(InvalidWays(row)) \in InvalidWays(row)
      /\ Min(LRUWays(row)) \in LRUWays(row)
  BY <1>1, <1>2, MinProperty
<1>4. QED
  BY <1>3 DEF STWay, STHits, InvalidWays, LRUWays

\* Promoting a way keeps the recency order a permutation, and no lru field
\* reaches STWays: the "LRU overflow" assertion.
LEMMA PromoteOrdered ==
  ASSUME NEW row \in STRowType, LRUOrdered(row), NEW m \in STWayIds
  PROVE  /\ Promote(row, m) \in STRowType
         /\ LRUOrdered(Promote(row, m))
<1> DEFINE new  == Promote(row, m)
           p    == row[m].lru
           L    == [w \in STWayIds |-> row[w].lru]
<1>0. \A w \in STWayIds : L[w] \in 0 .. STWays - 1
  BY DEF STRowType, STEntry, STWayIds
<1>1. \A w \in STWayIds :
        new[w] = [row[w] EXCEPT !.lru = IF w = m THEN 0
                                        ELSE IF L[w] < p THEN L[w] + 1
                                        ELSE L[w]]
  BY DEF Promote, STRowType, STEntry, STWayIds
<1>2. p \in 0 .. STWays - 1 /\ STWays \in Nat
  BY SizesAssumption DEF STRowType, STEntry, STWayIds
<1>3. \A w \in STWayIds : new[w].lru = IF w = m THEN 0
                                      ELSE IF L[w] < p THEN L[w] + 1
                                      ELSE L[w]
  <2> SUFFICES ASSUME NEW w \in STWayIds, NEW lru,
                      lru = (IF w = m THEN 0 ELSE IF L[w] < p THEN L[w] + 1 ELSE L[w])
               PROVE  new[w].lru = lru
    OBVIOUS
  <2> HIDE DEF new, L, p
  <2>1. new[w] = [row[w] EXCEPT !.lru = lru]
    BY <1>1
  <2>2. row[w] \in STEntry
    BY DEF STRowType
  <2>3. QED
    BY <2>1, <2>2 DEF STEntry
<1>4. /\ \A v, w \in STWayIds : L[v] = L[w] => v = w
      /\ \A q \in 0 .. STWays - 1 : \E w \in STWayIds : L[w] = q
      /\ L[m] = p
  BY DEF LRUOrdered, STWayIds
<1>5. new \in STRowType
  <2> SUFFICES ASSUME NEW w \in STWayIds
               PROVE  new[w] \in STEntry
    BY DEF Promote, STRowType
  <2>1. row[w] \in STEntry
    BY DEF STRowType
  <2>2. (IF w = m THEN 0 ELSE IF L[w] < p THEN L[w] + 1 ELSE L[w]) \in STWayIds
    <3> HIDE DEF p, L, new
    <3> QED  BY <1>0, <1>2 DEF STWayIds
  <2> HIDE DEF p, L, new
  <2> QED  BY <1>1, <2>1, <2>2 DEF STEntry
<1>6. ASSUME NEW v \in STWayIds, NEW w \in STWayIds, new[v].lru = new[w].lru
      PROVE  v = w
  <2> HIDE DEF new, p, L
  <2> QED  BY <1>0, <1>2, <1>3, <1>4, <1>6
<1>7. ASSUME NEW q \in STWayIds
      PROVE  \E w \in STWayIds : new[w].lru = q
  <2> HIDE DEF new, p, L
  <2>1. CASE q = 0
    BY <1>3, <2>1
  <2>2. CASE q # 0 /\ q =< p
    <3>1. PICK w \in STWayIds : L[w] = q - 1
      BY <1>2, <1>4, <2>2 DEF STWayIds
    <3>2. new[w].lru = q
      BY <1>2, <1>3, <1>4, <2>2, <3>1 DEF STWayIds
    <3> QED  BY <3>2
  <2>3. CASE q > p
    <3>1. PICK w \in STWayIds : L[w] = q
      BY <1>4 DEF STWayIds
    <3>2. new[w].lru = q
      BY <1>2, <1>3, <1>4, <2>3, <3>1 DEF STWayIds
    <3> QED  BY <3>2
  <2> QED  BY <1>2, <2>1, <2>2, <2>3 DEF STWayIds
<1>8. QED
  <2> HIDE DEF p, L
  <2> QED  BY <1>5, <1>6, <1>7 DEF LRUOrdered

\* The offsets of a page differ by a delta the tables can hold.
LEMMA STDeltaType ==
  ASSUME NEW row \in STRowType, LRUOrdered(row), NEW tag,
         NEW offset \in Offsets
  PROVE  STDelta(row, tag, offset) \in Deltas
<1> DEFINE m == STWay(row, tag)
<1>1. m \in STWayIds
  BY STWayFound
<1>2. row[m].last_offset \in Offsets
  BY <1>1 DEF STRowType, STEntry
<1> HIDE DEF m
<1>3. offset - row[m].last_offset \in Deltas /\ 0 \in Deltas
  BY <1>2, SizesAssumption DEF Offsets, Deltas
<1>4. QED
  BY <1>3 DEF STDelta, m

LEMMA InstallSigType ==
  ASSUME NEW g \in [GHRIds -> GHREntry], NEW offset
  PROVE  InstallSig(g, offset) \in Sigs
<1> DEFINE sure == {i \in Landing(g, offset) : g[i].confidence > 0}
           conf == [i \in sure |-> g[i].confidence]
           tops == {i \in sure :
                      \A j \in sure : g[j].confidence =< g[i].confidence}
<1>1. 0 \in Sigs /\ UnsRange - 1 \in Nat
  BY SizesAssumption DEF Sigs
<1>2. ASSUME sure # {}
      PROVE  NextSig[<<g[Min(tops)].sig, g[Min(tops)].delta>>] \in Sigs
  <2>1. sure \subseteq GHRIds
    BY DEF Landing
  <2>2. conf \in [sure -> 0 .. UnsRange - 1]
    BY <2>1 DEF GHREntry
  <2>3. \E x \in sure : \A y \in sure : conf[y] =< conf[x]
    <3> HIDE DEF conf, sure
    <3> QED  BY <1>1, <1>2, <2>2, MaximumAttained
  <2>4. \E x \in sure : \A y \in sure : g[y].confidence =< g[x].confidence
    <3> HIDE DEF sure
    <3> QED  BY <2>3
  <2>5. tops # {}
    BY <2>4
  <2>6. tops \subseteq GHRIds /\ tops \subseteq Nat
    <3>1. tops \subseteq sure
      <4> HIDE DEF sure
      <4> QED  OBVIOUS
    <3> HIDE DEF sure, tops
    <3> QED  BY <2>1, <3>1, SizesAssumption DEF GHRIds
  <2>7. Min(tops) \in GHRIds
    <3> HIDE DEF tops
    <3> QED  BY <2>5, <2>6, MinProperty
  <2> HIDE DEF tops
  <2> QED  BY <2>7, HashAssumption DEF GHREntry
<1>3. InstallSig(g, offset) =
        IF GHROn /\ sure # {}
          THEN NextSig[<<g[Min(tops)].sig, g[Min(tops)].delta>>]
          ELSE 0
  BY DEF InstallSig
<1>4. QED
  <2> HIDE DEF sure, tops
  <2> QED  BY <1>1, <1>2, <1>3

LEMMA STSigTypes ==
  ASSUME NEW row \in STRowType, LRUOrdered(row),
         NEW g \in [GHRIds -> GHREntry], NEW tag, NEW offset \in Offsets
  PROVE  /\ STNewSig(row, g, tag, offset) \in Sigs
         /\ STLastSig(row, tag, offset) \in Sigs
         /\ STCurrSig(row, g, tag, offset) \in Sigs
<1>1. STWay(row, tag) \in STWayIds
  BY STWayFound
<1>2. row[STWay(row, tag)].sig \in Sigs
  BY <1>1 DEF STRowType, STEntry
<1>3. STDelta(row, tag, offset) \in Deltas
  BY STDeltaType
<1>4. InstallSig(g, offset) \in Sigs
  BY InstallSigType
<1>5. NextSig[<<row[STWay(row, tag)].sig, STDelta(row, tag, offset)>>] \in Sigs
  BY <1>2, <1>3, HashAssumption
<1>6. 0 \in Sigs
  BY SizesAssumption DEF Sigs
<1>7. STNewSig(row, g, tag, offset) \in Sigs
  BY <1>2, <1>4, <1>5 DEF STNewSig
<1>8. QED
  BY <1>2, <1>6, <1>7 DEF STLastSig, STCurrSig

\* An access keeps the row typed and ordered and gives a page one entry.
LEMMA STRowWellFormed ==
  ASSUME NEW row \in STRowType, LRUOrdered(row), OneEntryPerTag(row),
         NEW g \in [GHRIds -> GHREntry], NEW tag \in Tags,
         NEW offset \in Offsets
  PROVE  /\ STRow(row, g, tag, offset) \in STRowType
         /\ LRUOrdered(STRow(row, g, tag, offset))
         /\ OneEntryPerTag(STRow(row, g, tag, offset))
<1> DEFINE m == STWay(row, tag)
           s == STNewSig(row, g, tag, offset)
           touched == [row EXCEPT ![m] =
                         [valid |-> TRUE, tag |-> tag, sig |-> s,
                          last_offset |-> offset, lru |-> row[m].lru]]
<1>1. m \in STWayIds /\ (STHits(row, tag) # {} => m \in STHits(row, tag))
  BY STWayFound
<1>2. s \in Sigs
  BY STSigTypes
<1> HIDE DEF m, s
<1>3. touched \in STRowType
  BY <1>1, <1>2 DEF STRowType, STEntry
<1>4. LRUOrdered(touched)
  BY <1>1 DEF LRUOrdered, STRowType
<1>5. OneEntryPerTag(touched)
  <2>1. \A w \in STWayIds : (row[w].valid /\ row[w].tag = tag) => w = m
    BY <1>1 DEF OneEntryPerTag, STHits
  <2>2. \A w \in STWayIds : w # m => touched[w] = row[w]
    BY DEF STRowType
  <2>3. touched[m].tag = tag
    BY <1>1 DEF STRowType
  <2> HIDE DEF touched
  <2> QED  BY <2>1, <2>2, <2>3 DEF OneEntryPerTag
<1>6. STRow(row, g, tag, offset) = Promote(touched, m)
  BY DEF STRow, m, s
<1>7. \A w \in STWayIds : /\ Promote(touched, m)[w].valid = touched[w].valid
                          /\ Promote(touched, m)[w].tag = touched[w].tag
  <2> HIDE DEF touched
  <2> QED  BY <1>3 DEF Promote, STRowType, STEntry
<1>8. Promote(touched, m) \in STRowType /\ LRUOrdered(Promote(touched, m))
  <2> HIDE DEF touched
  <2> QED  BY <1>1, <1>3, <1>4, PromoteOrdered
<1>9. QED
  <2> HIDE DEF touched
  <2> QED  BY <1>5, <1>6, <1>7, <1>8 DEF OneEntryPerTag

\* What an access does to the fields of the ways that tell what was touched when.
LEMMA STRowFields ==
  ASSUME NEW row \in STRowType, LRUOrdered(row),
         NEW g \in [GHRIds -> GHREntry], NEW tag \in Tags,
         NEW offset \in Offsets, NEW w \in STWayIds,
         NEW m, m = STWay(row, tag)
  PROVE  LET new == STRow(row, g, tag, offset)[w]
         IN  /\ new.valid <=> (w = m \/ row[w].valid)
             /\ new.tag = IF w = m THEN tag ELSE row[w].tag
             /\ new.last_offset = IF w = m THEN offset ELSE row[w].last_offset
             /\ new.lru = IF w = m THEN 0
                          ELSE IF row[w].lru < row[m].lru THEN row[w].lru + 1
                          ELSE row[w].lru
<1> DEFINE s == STNewSig(row, g, tag, offset)
           touched == [row EXCEPT ![m] =
                         [valid |-> TRUE, tag |-> tag, sig |-> s,
                          last_offset |-> offset, lru |-> row[m].lru]]
<1>1. m \in STWayIds /\ s \in Sigs
  BY STWayFound, STSigTypes
<1>2. STRow(row, g, tag, offset) = Promote(touched, m)
  BY DEF STRow
<1> HIDE DEF s
<1>3. touched \in STRowType
  BY <1>1 DEF STRowType, STEntry
<1>4. /\ touched[w].valid <=> (w = m \/ row[w].valid)
      /\ touched[w].tag = IF w = m THEN tag ELSE row[w].tag
      /\ touched[w].last_offset = IF w = m THEN offset ELSE row[w].last_offset
      /\ touched[w].lru = row[w].lru
      /\ touched[m].lru = row[m].lru
  BY <1>1 DEF STRowType
<1> HIDE DEF touched
<1>5. PICK lru : lru = IF w = m THEN 0
                       ELSE IF touched[w].lru < touched[m].lru
                              THEN touched[w].lru + 1
                       ELSE touched[w].lru
  OBVIOUS
<1>6. Promote(touched, m)[w] = [touched[w] EXCEPT !.lru = lru]
  BY <1>5 DEF Promote
<1>7. touched[w] \in STEntry
  BY <1>3 DEF STRowType
<1>8. /\ Promote(touched, m)[w].valid = touched[w].valid
      /\ Promote(touched, m)[w].tag = touched[w].tag
      /\ Promote(touched, m)[w].last_offset = touched[w].last_offset
      /\ Promote(touched, m)[w].lru = lru
  BY <1>6, <1>7 DEF STEntry
<1>9. lru = IF w = m THEN 0
            ELSE IF row[w].lru < row[m].lru THEN row[w].lru + 1
            ELSE row[w].lru
  BY <1>4, <1>5
<1>10. QED
  BY <1>2, <1>4, <1>8, <1>9

(***************************************************************************)
(* Global History Register.                                                *)
(***************************************************************************)

\* Recording a page crossing always finds a slot (the "no victim" assertion)
\* and keeps one entry per offset.
LEMMA GHRUpdateWellFormed ==
  ASSUME NEW g \in [GHRIds -> GHREntry], OneEntryPerOffset(g),
         NEW sig \in Sigs, NEW conf \in 0 .. UnsRange - 1,
         NEW offset \in Offsets, NEW delta \in Deltas
  PROVE  /\ GHRUpdate(g, sig, conf, offset, delta) \in [GHRIds -> GHREntry]
         /\ OneEntryPerOffset(GHRUpdate(g, sig, conf, offset, delta))
<1>1. GHRIds # {} /\ GHRIds \subseteq Nat
  <2>1. 0 \in GHRIds
    BY SizesAssumption DEF GHRIds
  <2>2. GHRIds \subseteq Nat
    BY SizesAssumption DEF GHRIds
  <2> QED  BY <2>1, <2>2
<1> DEFINE least == {i \in GHRIds :
                       \A j \in GHRIds : g[i].confidence =< g[j].confidence}
           conf_of == [i \in GHRIds |-> g[i].confidence]
           slot == GHRSlot(g, offset)
<1>2. least # {} /\ least \subseteq GHRIds
  <2>1. conf_of \in [GHRIds -> Nat]
    BY SizesAssumption DEF GHREntry
  <2>2. \E x \in GHRIds : \A y \in GHRIds : conf_of[x] =< conf_of[y]
    <3> HIDE DEF conf_of
    <3> QED  BY <1>1, <2>1, MinimumAttained
  <2> QED  BY <2>2
<1>3. Landing(g, offset) \subseteq GHRIds
  BY DEF Landing
<1>4. /\ slot \in GHRIds
      /\ Landing(g, offset) # {} => slot \in Landing(g, offset)
  <2>1. Min(least) \in least
    <3> HIDE DEF least
    <3> QED  BY <1>1, <1>2, MinProperty
  <2>2. Landing(g, offset) # {} => Min(Landing(g, offset)) \in Landing(g, offset)
    BY <1>1, <1>3, MinProperty
  <2>3. slot = IF Landing(g, offset) # {} THEN Min(Landing(g, offset))
                                         ELSE Min(least)
    BY DEF GHRSlot
  <2> HIDE DEF slot, least
  <2> QED  BY <1>2, <1>3, <2>1, <2>2, <2>3
<1>5. \A i \in GHRIds : (g[i].valid /\ g[i].offset = offset) => i = slot
  <2> HIDE DEF slot
  <2> QED  BY <1>4 DEF Landing, OneEntryPerOffset
<1>6. GHRUpdate(g, sig, conf, offset, delta) =
        [g EXCEPT ![slot] = [valid |-> TRUE, sig |-> sig, confidence |-> conf,
                             offset |-> offset, delta |-> delta]]
  BY DEF GHRUpdate
<1> DEFINE new == GHRUpdate(g, sig, conf, offset, delta)
<1>7. new \in [GHRIds -> GHREntry]
  <2> HIDE DEF slot
  <2> QED  BY <1>4, <1>6 DEF GHREntry
<1>8. \A i \in GHRIds : IF i = slot THEN new[i].offset = offset
                                    ELSE new[i] = g[i]
  <2> HIDE DEF slot
  <2> QED  BY <1>4, <1>6
<1>9. OneEntryPerOffset(new)
  <2> HIDE DEF slot, new
  <2> QED  BY <1>5, <1>8 DEF OneEntryPerOffset
<1>10. QED
  BY <1>7, <1>9

(***************************************************************************)
(* Pattern Table.                                                          *)
(***************************************************************************)

\* The delta finds its way: the one it already has, or a least trained one.
LEMMA PTWayFound ==
  ASSUME NEW row \in PTSet, NEW delta
  PROVE  /\ PTWayFor(row, delta) \in PTWayIds
         /\ PTHits(row, delta) # {} =>
              row.ways[PTWayFor(row, delta)].delta = delta
<1> DEFINE least == {w \in PTWayIds : \A v \in PTWayIds :
                       row.ways[w].c_delta =< row.ways[v].c_delta}
           count == [w \in PTWayIds |-> row.ways[w].c_delta]
<1>1. PTWayIds # {} /\ PTWayIds \subseteq Nat
  BY SizesAssumption DEF PTWayIds
<1>2. least # {} /\ least \subseteq PTWayIds
  <2>1. count \in [PTWayIds -> Nat]
    BY SizesAssumption DEF PTSet, PTWay
  <2>2. \E x \in PTWayIds : \A y \in PTWayIds : count[x] =< count[y]
    <3> HIDE DEF count
    <3> QED  BY <1>1, <2>1, MinimumAttained
  <2> QED  BY <2>2
<1>3. Min(least) \in least
  <2> HIDE DEF least
  <2> QED  BY <1>1, <1>2, MinProperty
<1>4. PTHits(row, delta) \subseteq PTWayIds
  BY DEF PTHits
<1>5. PTHits(row, delta) # {} => Min(PTHits(row, delta)) \in PTHits(row, delta)
  BY <1>1, <1>4, MinProperty
<1>6. PTWayFor(row, delta) =
        IF PTHits(row, delta) # {} THEN Min(PTHits(row, delta)) ELSE Min(least)
  BY DEF PTWayFor
<1>7. QED
  <2> HIDE DEF least
  <2> QED  BY <1>2, <1>3, <1>4, <1>5, <1>6 DEF PTHits

\* Training keeps every counter in its bits, no delta counted more often than
\* the signature, and one way per delta -- the halving included.
LEMMA PTTrainWellFormed ==
  ASSUME NEW row \in PTSet, WithinTotal(row), OneWayPerDelta(row),
         NEW delta \in Deltas, delta # 0
  PROVE  /\ PTTrain(row, delta) \in PTSet
         /\ WithinTotal(PTTrain(row, delta))
         /\ OneWayPerDelta(PTTrain(row, delta))
<1> DEFINE m == PTWayFor(row, delta)
           c == PTCount(row, delta)
           trained == [ways |-> [row.ways EXCEPT ![m] =
                                   [delta |-> delta, c_delta |-> c]],
                       c_sig |-> row.c_sig + 1]
<1>1. m \in PTWayIds /\ (PTHits(row, delta) # {} => row.ways[m].delta = delta)
  BY PTWayFound
<1>2. /\ row.c_sig \in 0 .. CSigMax
      /\ row.ways \in [PTWayIds -> PTWay]
      /\ CSigMax \in Nat /\ CDeltaMax \in Nat
  BY SizesAssumption DEF PTSet
<1>3. c \in 0 .. CDeltaMax /\ c =< row.c_sig + 1
  <2> HIDE DEF m
  <2> QED  BY <1>1, <1>2 DEF PTCount, PTWay, WithinTotal, m
<1>4. \A w \in PTWayIds :
        (w # m /\ row.ways[w].delta = delta) => FALSE
  <2> SUFFICES ASSUME NEW w \in PTWayIds, w # m, row.ways[w].delta = delta
               PROVE  FALSE
    OBVIOUS
  <2>1. w \in PTHits(row, delta)
    BY DEF PTHits
  <2>2. row.ways[m].delta = delta
    BY <1>1, <2>1
  <2> HIDE DEF m
  <2> QED  BY <1>1, <2>2 DEF OneWayPerDelta
<1> HIDE DEF m, c
<1>5. /\ trained.ways \in [PTWayIds -> PTWay]
      /\ trained.c_sig \in 1 .. CSigMax + 1
  BY <1>1, <1>2, <1>3 DEF PTWay
<1>6. WithinTotal(trained)
  <2> SUFFICES ASSUME NEW w \in PTWayIds
               PROVE  trained.ways[w].c_delta =< trained.c_sig
    BY DEF WithinTotal
  <2>1. CASE w = m
    BY <1>1, <1>2, <1>3, <2>1
  <2>2. CASE w # m
    BY <1>1, <1>2, <2>2 DEF WithinTotal, PTWay
  <2> QED  BY <2>1, <2>2
<1>7. OneWayPerDelta(trained)
  <2>1. \A w \in PTWayIds : IF w = m THEN trained.ways[w].delta = delta
                                     ELSE trained.ways[w] = row.ways[w]
    BY <1>1, <1>2
  <2> HIDE DEF trained
  <2> QED  BY <1>4, <2>1 DEF OneWayPerDelta
<1>8. PTTrain(row, delta) =
        IF trained.c_sig > CSigMax THEN PTHalve(trained) ELSE trained
  BY DEF PTTrain, m, c
<1>9. CASE trained.c_sig =< CSigMax
  <2>1. trained \in PTSet
    BY <1>5, <1>9 DEF PTSet
  <2>2. PTTrain(row, delta) = trained
    BY <1>2, <1>5, <1>8, <1>9
  <2> HIDE DEF trained
  <2> QED  BY <1>6, <1>7, <2>1, <2>2
<1>10. CASE trained.c_sig > CSigMax
  <2> DEFINE half == PTHalve(trained)
  <2>1. PTTrain(row, delta) = half
    BY <1>8, <1>10
  <2> HIDE DEF trained
  <2>2. \A w \in PTWayIds :
          /\ half.ways[w].delta = trained.ways[w].delta
          /\ half.ways[w].c_delta = trained.ways[w].c_delta \div 2
          /\ trained.ways[w].c_delta \in 0 .. CDeltaMax
          /\ trained.ways[w].delta \in Deltas
    BY <1>5 DEF PTHalve, PTWay
  <2>3. half.c_sig = trained.c_sig \div 2
    BY DEF PTHalve
  <2>4. half \in PTSet
    <3>1. half.c_sig \in 0 .. CSigMax
      BY <1>2, <1>5, <2>3
    <3>2. \A w \in PTWayIds : half.ways[w] \in PTWay
      BY <1>2, <1>5, <2>2 DEF PTHalve, PTWay
    <3> QED  BY <3>1, <3>2 DEF PTHalve, PTSet
  <2> HIDE DEF half
  <2>5. WithinTotal(half)
    BY <1>2, <1>5, <1>6, <2>2, <2>3 DEF WithinTotal
  <2>6. OneWayPerDelta(half)
    BY <1>7, <2>2 DEF OneWayPerDelta
  <2> QED  BY <2>1, <2>4, <2>5, <2>6
<1>11. QED
  BY <1>2, <1>5, <1>9, <1>10

\* The counters of a row, and what they add up to.
Counts(row) == [w \in PTWayIds |-> row.ways[w].c_delta]

SumWithinTotal(row) == SumFunction(Counts(row)) =< row.c_sig

LEMMA CountsType ==
  ASSUME NEW row, row.ways \in [PTWayIds -> PTWay]
  PROVE  Counts(row) \in [PTWayIds -> Nat] /\ IsFiniteSet(PTWayIds)
<1>1. Counts(row) \in [PTWayIds -> Nat]
  BY SizesAssumption DEF Counts, PTWay
<1>2. IsFiniteSet(PTWayIds)
  BY FS_Interval, SizesAssumption DEF PTWayIds
<1>3. QED
  BY <1>1, <1>2

LEMMA EmptySum == SumWithinTotal(EmptyPTSet)
<1> DEFINE f == Counts(EmptyPTSet)
<1>1. f = [w \in PTWayIds |-> 0] /\ EmptyPTSet.c_sig = 0
  BY DEF EmptyPTSet, Counts
<1>2. f \in [PTWayIds -> Nat] /\ IsFiniteSet(PTWayIds)
  BY <1>1, FS_Interval, SizesAssumption DEF PTWayIds
<1> HIDE DEF f
<1>3. \A w \in PTWayIds : 1 * f[w] =< 0 * f[w]
  BY <1>1
<1>4. /\ 1 * SumFunction(f) =< 0 * SumFunction(f)
      /\ SumFunction(f) \in Nat
  BY <1>2, <1>3, SumScaled
<1>5. QED
  BY <1>1, <1>4 DEF SumWithinTotal, f

\* The counters of a signature never add up to more than it was trained: a
\* training counts one delta up by one at most, and halving rounds down.
LEMMA PTTrainSum ==
  ASSUME NEW row \in PTSet, SumWithinTotal(row), NEW delta \in Deltas, delta # 0
  PROVE  SumWithinTotal(PTTrain(row, delta))
<1> DEFINE m == PTWayFor(row, delta)
           c == PTCount(row, delta)
           trained == [ways |-> [row.ways EXCEPT ![m] =
                                   [delta |-> delta, c_delta |-> c]],
                       c_sig |-> row.c_sig + 1]
           f == Counts(row)
           g == Counts(trained)
<1>1. m \in PTWayIds
  BY PTWayFound
<1>2. /\ row.c_sig \in 0 .. CSigMax
      /\ row.ways \in [PTWayIds -> PTWay]
      /\ CSigMax \in Nat /\ CDeltaMax \in Nat
  BY SizesAssumption DEF PTSet
<1>3. c \in 0 .. CDeltaMax /\ c =< row.ways[m].c_delta + 1
  <2> HIDE DEF m
  <2> QED  BY <1>1, <1>2 DEF PTCount, PTWay, m
<1>4. PTTrain(row, delta) =
        IF trained.c_sig > CSigMax THEN PTHalve(trained) ELSE trained
  BY DEF PTTrain
<1> HIDE DEF m, c
<1>5. /\ trained.ways \in [PTWayIds -> PTWay]
      /\ trained.c_sig = row.c_sig + 1
  BY <1>1, <1>2, <1>3 DEF PTWay
<1>6. /\ f \in [PTWayIds -> Nat] /\ g \in [PTWayIds -> Nat]
      /\ IsFiniteSet(PTWayIds)
  <2> HIDE DEF trained
  <2>1. QED
    BY <1>2, <1>5, CountsType
<1>7. /\ g[m] = c /\ f[m] = row.ways[m].c_delta
      /\ \A w \in PTWayIds : w # m => g[w] = f[w]
  BY <1>1, <1>2 DEF Counts
<1>8. SumFunction(f) =< row.c_sig
  BY DEF SumWithinTotal
<1> HIDE DEF f, g, trained
<1>9. SumFunction(g) + f[m] = SumFunction(f) + g[m]
  BY <1>1, <1>6, <1>7, SumChanged
<1>10. SumFunction(f) \in Nat /\ SumFunction(g) \in Nat
  <2>1. \A w \in PTWayIds : 0 * f[w] =< 0 * g[w]
    BY <1>6
  <2>2. QED
    BY <1>6, <2>1, SumScaled
<1>11. SumFunction(g) =< trained.c_sig
  <2>1. g[m] =< f[m] + 1 /\ g[m] \in Nat /\ f[m] \in Nat
    BY <1>1, <1>3, <1>6, <1>7
  <2>2. QED
    BY <1>2, <1>5, <1>8, <1>9, <1>10, <2>1
<1>12. CASE trained.c_sig =< CSigMax
  <2>1. PTTrain(row, delta) = trained
    BY <1>2, <1>4, <1>5, <1>12
  <2>2. QED
    BY <1>11, <2>1 DEF SumWithinTotal, g
<1>13. CASE trained.c_sig > CSigMax
  <2> DEFINE half == PTHalve(trained)
             h == Counts(half)
  <2>1. PTTrain(row, delta) = half
    BY <1>4, <1>13
  <2>2. half.c_sig = trained.c_sig \div 2
    BY DEF PTHalve
  <2>3. \A w \in PTWayIds : h[w] = g[w] \div 2
    BY <1>5 DEF PTHalve, Counts, PTWay, g
  <2>4. h \in [PTWayIds -> Nat]
    <3>1. h = [w \in PTWayIds |-> h[w]]
      BY DEF Counts
    <3> HIDE DEF h
    <3>2. QED
      BY <1>6, <2>3, <3>1
  <2> HIDE DEF h, half
  <2>5. \A w \in PTWayIds : 2 * h[w] =< 1 * g[w]
    BY <1>6, <2>3, <2>4
  <2>6. /\ 2 * SumFunction(h) =< 1 * SumFunction(g)
        /\ SumFunction(h) \in Nat
    BY <1>6, <2>4, <2>5, SumScaled
  <2>7. SumFunction(h) =< half.c_sig
    BY <1>2, <1>5, <1>10, <1>11, <2>2, <2>6
  <2>8. QED
    BY <2>1, <2>7 DEF SumWithinTotal, h
<1>14. QED
  BY <1>2, <1>5, <1>12, <1>13

\* What counters that add up to the total at most predict is a percentage.
LEMMA ConfidenceSum ==
  ASSUME NEW row \in PTSet, SumWithinTotal(row), WithinTotal(row), row.c_sig # 0
  PROVE  SumFunction([w \in PTWayIds |-> LocalConf(row.ways[w], row.c_sig)]) =< 100
<1> DEFINE s == row.c_sig
           f == [w \in PTWayIds |-> LocalConf(row.ways[w], s)]
           g == Counts(row)
<1>1. s \in Nat \ {0} /\ row.ways \in [PTWayIds -> PTWay]
  BY SizesAssumption DEF PTSet
<1>2. g \in [PTWayIds -> Nat] /\ IsFiniteSet(PTWayIds)
  BY <1>1, CountsType
<1>3. ASSUME NEW w \in PTWayIds
      PROVE  f[w] \in Nat /\ s * f[w] =< 100 * g[w]
  <2> DEFINE c == g[w]
  <2>1. f[w] = (100 * c) \div s
    BY DEF LocalConf, Counts
  <2>2. c \in Nat /\ c =< s
    BY <1>2, <1>3 DEF WithinTotal, Counts
  <2> HIDE DEF c, s, f
  <2>3. f[w] \in 0 .. 100
    BY <1>1, <2>1, <2>2, PercentBound
  <2>4. 100 * c \in Int
    BY <2>2
  <2>5. (100 * c) % s \in 0 .. s - 1 /\ 100 * c = s * ((100 * c) \div s) + ((100 * c) % s)
    BY <1>1, <2>4, DivMod
  <2>6. s * f[w] =< 100 * c
    <3>1. PICK p : p = s * f[w]
      OBVIOUS
    <3>2. p \in Int
      BY <1>1, <2>3, <3>1
    <3>3. 100 * c = p + ((100 * c) % s)
      BY <2>1, <2>5, <3>1
    <3>4. QED
      BY <1>1, <2>4, <2>5, <3>1, <3>2, <3>3
  <2>7. QED
    BY <2>3, <2>6 DEF c
<1>4. f \in [PTWayIds -> Nat]
  <2>1. f = [w \in PTWayIds |-> f[w]]
    OBVIOUS
  <2> HIDE DEF f
  <2>2. QED
    BY <1>3, <2>1
<1>5. SumFunction(g) =< s
  BY DEF SumWithinTotal
<1> HIDE DEF f, g, s
<1>6. /\ s * SumFunction(f) =< 100 * SumFunction(g)
      /\ SumFunction(f) \in Nat /\ SumFunction(g) \in Nat
  <2>1. PICK a \in Nat, b \in Nat : a = s /\ b = 100
    BY <1>1
  <2>2. \A w \in PTWayIds : a * f[w] =< b * g[w]
    BY <1>3, <2>1
  <2>3. /\ a * SumFunction(f) =< b * SumFunction(g)
        /\ SumFunction(f) \in Nat /\ SumFunction(g) \in Nat
    BY <1>2, <1>4, <2>2, SumScaled
  <2>4. QED
    BY <2>1, <2>3
<1>7. SumFunction(f) =< 100
  <2>1. ASSUME SumFunction(f) >= 101
        PROVE  FALSE
    <3>1. s * 101 =< s * SumFunction(f)
      BY <1>1, <1>6, <2>1, ScaledOrder
    <3>2. s * SumFunction(f) \in Int
      BY <1>1, <1>6
    <3>3. QED
      BY <1>1, <1>5, <1>6, <3>1, <3>2
  <2>2. QED
    BY <1>6, <2>1
<1>8. QED
  BY <1>7 DEF f, s

(***************************************************************************)
(* Reading the pattern table.                                              *)
(***************************************************************************)

\* A first-hop confidence is a percentage, and every confidence fits an uns.
LEMMA PTConfsType ==
  ASSUME NEW row \in PTSet, WithinTotal(row), NEW depth \in Nat,
         NEW a \in 0 .. UnsRange - 1, NEW conf \in 0 .. UnsRange - 1
  PROVE  PTConfs(row, depth, a, conf) \in [PTWayIds -> 0 .. UnsRange - 1]
<1> SUFFICES ASSUME NEW w \in PTWayIds, row.c_sig # 0
             PROVE  PathConf(row.ways[w], row.c_sig, depth, a, conf)
                      \in 0 .. UnsRange - 1
  BY SizesAssumption DEF PTConfs
<1> DEFINE c == row.ways[w].c_delta
           s == row.c_sig
<1>1. /\ c \in Nat /\ s \in Nat \ {0} /\ c =< s
      /\ UnsRange \in Nat /\ UnsRange > 100
  BY SizesAssumption DEF PTSet, PTWay, WithinTotal
<1> HIDE DEF c, s
<1>2. (100 * c) \div s \in 0 .. 100
  BY <1>1, PercentBound
<1>3. CASE depth = 0
  BY <1>1, <1>2, <1>3 DEF PathConf, LocalConf, c, s
<1>4. CASE depth # 0
  <2> DEFINE product == ((((a * c) \div s) * conf) \div 100)
  <2>1. a * c \in Int
    BY <1>1
  <2>2. (a * c) \div s \in Int
    BY <1>1, <2>1, DivMod
  <2>3. ((a * c) \div s) * conf \in Int
    BY <2>2, <1>1
  <2>4. product \in Int
    BY <2>3
  <2> HIDE DEF product
  <2>5. product % UnsRange \in 0 .. UnsRange - 1
    BY <1>1, <2>4, DivMod
  <2> QED  BY <1>4, <2>5 DEF PathConf, product, c, s
<1>5. QED
  BY <1>3, <1>4

\* A way never confirmed has no confidence: with a positive threshold, what
\* is queued as a candidate leaves the line it starts from.
LEMMA CandidatesHaveDelta ==
  ASSUME NEW row \in PTSet, WithinTotal(row), OneWayPerDelta(row),
         NEW depth \in Nat, NEW a \in 0 .. UnsRange - 1,
         NEW conf \in 0 .. UnsRange - 1, PFThreshold > 0,
         NEW w \in PTCandidates(row, PTConfs(row, depth, a, conf))
  PROVE  row.ways[w].delta # 0
<1>1. w \in PTWayIds /\ row.c_sig # 0
  BY DEF PTCandidates
<1>2. PathConf(row.ways[w], row.c_sig, depth, a, conf) >= PFThreshold
  BY <1>1 DEF PTCandidates, PTConfs
<1>3. ASSUME row.ways[w].c_delta = 0
      PROVE  FALSE
  <2>1. /\ row.c_sig \in Nat \ {0} /\ UnsRange \in Nat \ {0}
        /\ a \in Int /\ conf \in Int /\ PFThreshold \in Nat
    BY <1>1, SizesAssumption, ThresholdAssumption DEF PTSet
  <2>2. 0 \div row.c_sig = 0 /\ 0 \div 100 = 0 /\ 0 % UnsRange = 0
    BY <2>1, ZeroDivided
  <2>3. 100 * 0 = 0 /\ a * 0 = 0 /\ 0 * conf = 0
    BY <2>1
  <2>4. PathConf(row.ways[w], row.c_sig, depth, a, conf) = 0
    BY <1>3, <2>2, <2>3 DEF PathConf, LocalConf
  <2> QED  BY <1>2, <2>1, <2>4, PFThreshold > 0
<1>4. QED
  BY <1>1, <1>3 DEF OneWayPerDelta

\* The path continues through a way of the row.
LEMMA LookaheadWayFound ==
  ASSUME NEW row, NEW confs, LookaheadWays(row, confs) # {}
  PROVE  Min(LookaheadWays(row, confs)) \in LookaheadWays(row, confs)
<1>1. LookaheadWays(row, confs) \subseteq Nat
  BY SizesAssumption DEF LookaheadWays, PTCandidates, PTWayIds
<1>2. QED
  BY <1>1, MinProperty

(***************************************************************************)
(* Filter and accuracy counters.                                           *)
(***************************************************************************)

FilterType == [SlotIds -> FilterEntry]

LEMMA SlotOfLine ==
  ASSUME NEW l \in Lines
  PROVE  SlotOf[l] \in SlotIds /\ RemainderOf[l] \in RemIds
BY HashAssumption

LEMMA FilterDemandType ==
  ASSUME NEW f \in FilterType, NEW l \in Lines
  PROVE  FilterDemand(f, l) \in FilterType
BY SlotOfLine DEF FilterDemand, FilterType, FilterEntry

LEMMA FilterInstallType ==
  ASSUME NEW f \in FilterType, NEW l \in Lines
  PROVE  FilterInstall(f, l) \in FilterType
BY SlotOfLine DEF FilterInstall, FilterType, FilterEntry

\* Halving both counters when one overflows keeps both within their bits.
LEMMA CountersType ==
  ASSUME NEW a \in Accuracy
  PROVE  CountUseful(a) \in Accuracy /\ CountIssued(a) \in Accuracy
<1>1. /\ a.useful \in 0 .. GlobalCounterMax
      /\ a.issued \in 0 .. GlobalCounterMax
      /\ GlobalCounterMax \in Nat
  BY SizesAssumption DEF Accuracy
<1>2. CountUseful(a) \in Accuracy
  BY <1>1 DEF CountUseful, Accuracy
<1>3. CountIssued(a) \in Accuracy
  BY <1>1 DEF CountIssued, Accuracy
<1>4. QED
  BY <1>2, <1>3

LEMMA AccuracyPctType ==
  ASSUME NEW a \in Accuracy
  PROVE  AccuracyPct(a) \in 0 .. UnsRange - 1
<1>1. a.useful \in Nat /\ a.issued \in Nat /\ UnsRange \in Nat /\ UnsRange > 100
  BY SizesAssumption DEF Accuracy
<1>2. ASSUME a.issued # 0
      PROVE  ((100 * a.useful) \div a.issued) % UnsRange \in 0 .. UnsRange - 1
  <2>1. 100 * a.useful \in Int
    BY <1>1
  <2> DEFINE q == (100 * a.useful) \div a.issued
  <2>2. q \in Int
    BY <1>1, <1>2, <2>1, DivMod
  <2>3. UnsRange \in Nat \ {0}
    BY <1>1
  <2> HIDE DEF q
  <2>4. q % UnsRange \in 0 .. UnsRange - 1
    BY <2>2, <2>3, DivMod
  <2> QED  BY <2>4 DEF q
<1>3. QED
  BY <1>1, <1>2 DEF AccuracyPct

LEMMA OutstandingFinite ==
  ASSUME NEW f
  PROVE  /\ IsFiniteSet(Outstanding(f))
         /\ Cardinality(Outstanding(f)) \in Nat
<1>1. IsFiniteSet(SlotIds)
  BY SizesAssumption, FS_Interval DEF SlotIds
<1>2. Outstanding(f) \subseteq SlotIds
  BY DEF Outstanding
<1>3. IsFiniteSet(Outstanding(f))
  BY <1>1, <1>2, FS_Subset
<1>4. QED
  BY <1>3, FS_CardinalityType

\* A credited demand spends one outstanding slot; no other demand does.
LEMMA DemandSpendsSlot ==
  ASSUME NEW f \in FilterType, NEW l \in Lines
  PROVE  Cardinality(Outstanding(f)) =
           Cardinality(Outstanding(FilterDemand(f, l)))
             + (IF FilterCredits(f, l) THEN 1 ELSE 0)
<1> DEFINE s   == SlotOf[l]
           new == FilterDemand(f, l)
<1>1. s \in SlotIds
  BY SlotOfLine
<1>2. CASE FilterCredits(f, l)
  <2>1. Outstanding(new) = Outstanding(f) \ {s}
    BY <1>1, <1>2
    DEF FilterCredits, FilterFirstUse, FilterDemand, Outstanding, FilterType,
        FilterEntry
  <2>2. s \in Outstanding(f)
    BY <1>1, <1>2 DEF FilterCredits, FilterFirstUse, Outstanding
  <2>3. Cardinality(Outstanding(f) \ {s}) = Cardinality(Outstanding(f)) - 1
    BY <2>2, OutstandingFinite, FS_RemoveElement
  <2> QED  BY <1>2, <2>1, <2>3, OutstandingFinite
<1>3. CASE ~ FilterCredits(f, l)
  <2>1. Outstanding(new) = Outstanding(f)
    BY <1>1, <1>3
    DEF FilterCredits, FilterFirstUse, FilterDemand, Outstanding, FilterType,
        FilterEntry
  <2> QED  BY <1>3, <2>1, OutstandingFinite
<1>4. QED
  BY <1>2, <1>3

\* Installing a prefetch adds at most one outstanding slot.
LEMMA InstallAddsSlot ==
  ASSUME NEW f \in FilterType, NEW l \in Lines
  PROVE  Cardinality(Outstanding(FilterInstall(f, l)))
           =< Cardinality(Outstanding(f)) + 1
<1> DEFINE s   == SlotOf[l]
           new == FilterInstall(f, l)
<1>1. s \in SlotIds
  BY SlotOfLine
<1>2. Outstanding(new) \subseteq Outstanding(f) \cup {s}
  BY <1>1 DEF FilterInstall, Outstanding, FilterType
<1>3. /\ IsFiniteSet(Outstanding(f) \cup {s})
      /\ Cardinality(Outstanding(f) \cup {s}) =<
           Cardinality(Outstanding(f)) + 1
  BY OutstandingFinite, FS_AddElement
<1>4. Cardinality(Outstanding(new)) =< Cardinality(Outstanding(f) \cup {s})
  <2> HIDE DEF new
  <2> QED  BY <1>2, <1>3, FS_Subset
<1>5. Cardinality(Outstanding(f) \cup {s}) \in Nat
  BY <1>3, FS_CardinalityType
<1>6. QED
  BY <1>3, <1>4, <1>5, OutstandingFinite
=============================================================================
