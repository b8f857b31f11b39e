----------------------------- MODULE SPPProofs -----------------------------
(***************************************************************************)
(* The safety of the Signature Path Prefetcher, for every size of its      *)
(* tables, every threshold and every hash function.                        *)
(*                                                                         *)
(* The inductive invariant has one part per table and one for the locals   *)
(* of the lookahead.  None of the checked properties is inductive alone:   *)
(* a victim exists because the lru fields are a permutation, a confidence  *)
(* fits its type because no delta is counted more often than its           *)
(* signature, and a candidate moves because a way that was confirmed holds *)
(* a delta that is not 0.                                                  *)
(***************************************************************************)
EXTENDS SPPTableProofs, SPPRefinement

\* The ways of a row are filled in the order of their numbers, and one that was
\* never filled keeps the lru field it began with.
FilledInOrder(row) ==
  \A w \in STWayIds :
    ~ row[w].valid => /\ row[w].lru = w
                      /\ \A v \in STWayIds : w =< v => ~ row[v].valid

STFilledInOrder == \A s \in STSetIds : FilledInOrder(st[s])

STInv ==
  /\ st \in [STSetIds -> STRowType]
  /\ LRUPermutation /\ TagsUnique /\ STFilledInOrder

\* Together, too, the deltas are counted no more often than their signature.
SumsWithinTotal == \A s \in PTSetIds : SumWithinTotal(pt[s])

PTInv ==
  /\ pt \in [PTSetIds -> PTSet]
  /\ CountersWithinTotal /\ SumsWithinTotal /\ DeltasDistinct

GHRInv == ghr \in [GHRIds -> GHREntry] /\ GHROneEntryPerOffset

FilterInv ==
  /\ filter \in FilterType
  /\ acc \in Accuracy
  /\ ghost \in [installs: Nat, credits: Nat]
  /\ CreditsBacked

WalkInv ==
  /\ alpha \in 0 .. UnsRange - 1
  /\ pc \in {"idle", "read", "issue", "done"}
  /\ walk \in Walk
  /\ pc # "issue" => walk.pending = {}
  /\ CandidatesMove

EnvironmentInv ==
  /\ ul1 \in [Lines -> {"absent", "prefetched", "resident"}]
  /\ demands \in 0 .. MaxDemands

IInv ==
  STInv /\ PTInv /\ GHRInv /\ FilterInv /\ WalkInv /\ EnvironmentInv

(***************************************************************************)
(* The rows of the Signature Table, in the order of their lru fields.      *)
(***************************************************************************)

\* Every age of a row is that of one way.
LEMMA WayOfAgeFound ==
  ASSUME NEW row \in STRowType, LRUOrdered(row), NEW i \in 1 .. STWays
  PROVE  /\ WayOfAge(row, i) \in STWayIds
         /\ row[WayOfAge(row, i)].lru = i - 1
         /\ \A w \in STWayIds : row[w].lru = i - 1 => w = WayOfAge(row, i)
<1>1. i - 1 \in STWayIds
  BY SizesAssumption DEF STWayIds
<1>2. \E w \in STWayIds : row[w].lru = i - 1
  BY <1>1 DEF LRUOrdered
<1>3. QED
  BY <1>2 DEF WayOfAge, LRUOrdered

\* The valid ways are the first k ways, and they have the first k ages.
Valid(row, k) ==
  /\ k \in 0 .. STWays
  /\ \A w \in STWayIds : row[w].valid <=> w < k
  /\ \A w \in STWayIds : row[w].valid <=> row[w].lru < k

LEMMA ValidFirst ==
  ASSUME NEW row \in STRowType, LRUOrdered(row), FilledInOrder(row)
  PROVE  \E k \in 0 .. STWays : Valid(row, k)
<1> USE SizesAssumption DEF STWayIds
<1>1. PICK k \in 0 .. STWays : \A w \in STWayIds : row[w].valid <=> w < k
  <2> DEFINE none == {w \in STWayIds : ~ row[w].valid}
  <2>1. CASE none = {}
    BY <2>1
  <2>2. CASE none # {}
    <3>1. none \subseteq Nat
      OBVIOUS
    <3>2. Min(none) \in none /\ \A y \in none : Min(none) =< y
      <4> HIDE DEF none
      <4> QED  BY <2>2, <3>1, MinProperty
    <3>3. PICK k \in none : \A y \in none : k =< y
      BY <3>2
    <3>4. \A w \in STWayIds : row[w].valid <=> w < k
      BY <3>3 DEF FilledInOrder
    <3>5. QED
      BY <3>4
  <2>3. QED
    BY <2>1, <2>2
<1>2. ASSUME NEW w \in STWayIds
      PROVE  row[w].valid <=> row[w].lru < k
  <2>1. row[w].lru \in STWayIds
    BY DEF STRowType, STEntry
  <2>2. CASE ~ row[w].valid
    BY <1>1, <2>2 DEF FilledInOrder
  <2>3. CASE row[w].valid /\ ~ (row[w].lru < k)
    <3>1. PICK l \in STWayIds : l = row[w].lru
      BY <2>1
    <3>2. ~ row[l].valid
      BY <1>1, <2>3, <3>1
    <3>3. row[l].lru = l
      BY <3>2 DEF FilledInOrder
    <3>4. QED
      BY <2>3, <3>1, <3>2, <3>3 DEF LRUOrdered
  <2>4. QED
    BY <2>1, <2>2, <2>3
<1>3. QED
  BY <1>1, <1>2 DEF Valid

\* A touched page keeps its way, takes the first way that was never filled, or
\* the way of the page touched longest ago.
LEMMA STWayAge ==
  ASSUME NEW row \in STRowType, LRUOrdered(row), NEW tag,
         NEW k, Valid(row, k), NEW m, m = STWay(row, tag)
  PROVE  /\ m \in STWayIds
         /\ \/ row[m].valid /\ row[m].tag = tag
            \/ /\ \A w \in STWayIds : row[w].valid => row[w].tag # tag
               /\ \/ m = k /\ ~ row[m].valid
                  \/ k = STWays /\ row[m].lru = STWays - 1
<1> USE SizesAssumption DEF STWayIds, Valid
<1>1. m \in STWayIds /\ (STHits(row, tag) # {} => m \in STHits(row, tag))
  BY STWayFound
<1>2. CASE STHits(row, tag) # {}
  BY <1>1, <1>2 DEF STHits
<1>3. ASSUME STHits(row, tag) = {}
      PROVE  \A w \in STWayIds : row[w].valid => row[w].tag # tag
  BY <1>3 DEF STHits
<1>4. CASE STHits(row, tag) = {} /\ InvalidWays(row) # {}
  <2> DEFINE none == InvalidWays(row)
  <2>1. m = Min(none)
    BY <1>4 DEF STWay
  <2>2. none \subseteq Nat
    BY DEF InvalidWays
  <2>3. m \in none /\ \A y \in none : m =< y
    <3> HIDE DEF none
    <3> QED  BY <1>4, <2>1, <2>2, MinProperty DEF none
  <2>4. /\ m \in STWayIds /\ ~ row[m].valid
        /\ \A w \in STWayIds : ~ row[w].valid => m =< w
    BY <2>3 DEF InvalidWays
  <2>5. m = k
    BY <2>4
  <2>6. QED
    BY <1>3, <1>4, <2>4, <2>5
<1>5. CASE STHits(row, tag) = {} /\ InvalidWays(row) = {}
  <2> DEFINE last == LRUWays(row)
  <2>1. \A w \in STWayIds : row[w].valid
    BY <1>5 DEF InvalidWays
  <2>2. k = STWays
    <3>1. STWays - 1 \in STWayIds
      OBVIOUS
    <3>2. QED
      BY <2>1, <3>1
  <2>3. m = Min(last)
    BY <1>5 DEF STWay
  <2>4. last \subseteq Nat /\ last # {}
    BY DEF LRUWays, LRUOrdered
  <2>5. m \in last
    <3> HIDE DEF last
    <3> QED  BY <2>3, <2>4, MinProperty
  <2>6. row[m].lru = STWays - 1
    BY <2>5 DEF LRUWays
  <2>7. QED
    BY <1>1, <1>3, <1>5, <2>2, <2>6
<1>6. QED
  BY <1>2, <1>4, <1>5

\* An access fills the ways of a row in the order of their numbers.
LEMMA STRowFilled ==
  ASSUME NEW row \in STRowType, LRUOrdered(row), FilledInOrder(row),
         NEW g \in [GHRIds -> GHREntry], NEW tag \in Tags,
         NEW offset \in Offsets
  PROVE  FilledInOrder(STRow(row, g, tag, offset))
<1>1. PICK k \in 0 .. STWays : Valid(row, k)
  BY ValidFirst
<1>2. PICK m : m = STWay(row, tag)
  OBVIOUS
<1>3. /\ m \in STWayIds
      /\ \/ row[m].valid
         \/ m = k /\ ~ row[m].valid
         \/ k = STWays /\ row[m].lru = STWays - 1
  BY <1>1, <1>2, STWayAge
<1>4. PICK new : new = STRow(row, g, tag, offset)
  OBVIOUS
<1>5. \A w \in STWayIds :
        /\ new[w].valid <=> (w = m \/ row[w].valid)
        /\ new[w].lru = IF w = m THEN 0
                        ELSE IF row[w].lru < row[m].lru THEN row[w].lru + 1
                        ELSE row[w].lru
  BY <1>2, <1>4, STRowFields
<1>6. SUFFICES ASSUME NEW w \in STWayIds, ~ new[w].valid
               PROVE  /\ new[w].lru = w
                      /\ \A v \in STWayIds : w =< v => ~ new[v].valid
  BY <1>4 DEF FilledInOrder
<1>7. /\ w # m /\ ~ row[w].valid /\ row[w].lru = w
      /\ \A v \in STWayIds : w =< v => ~ row[v].valid
  BY <1>5, <1>6 DEF FilledInOrder
<1>8. m < w /\ row[m].lru =< w
  <2>1. w >= k
    BY <1>1, <1>7 DEF Valid, STWayIds
  <2>2. CASE row[m].valid
    <3>1. row[m].lru < k /\ m < k /\ row[m].lru \in STWayIds
      BY <1>1, <1>3, <2>2 DEF Valid, STRowType, STEntry
    <3>2. QED
      BY <1>1, <1>3, <2>1, <3>1, SizesAssumption DEF STWayIds
  <2>3. CASE m = k /\ ~ row[m].valid
    BY <1>1, <1>3, <1>7, <2>1, <2>3 DEF FilledInOrder, STWayIds
  <2>4. CASE k = STWays
    BY <1>1, <2>1, <2>4, SizesAssumption DEF STWayIds
  <2>5. QED
    BY <1>3, <2>2, <2>3, <2>4
<1>9. ~ (row[w].lru < row[m].lru)
  <2>1. row[m].lru \in STWayIds
    BY <1>3 DEF STRowType, STEntry
  <2>2. QED
    BY <1>7, <1>8, <2>1, SizesAssumption DEF STWayIds
<1>10. QED
  BY <1>3, <1>5, <1>7, <1>8, <1>9, SizesAssumption DEF STWayIds

\* Read in the order of its ages, a row is a list of k pages.
LEMMA RecentOfRow ==
  ASSUME NEW row \in STRowType, LRUOrdered(row), NEW k, Valid(row, k)
  PROVE  /\ DOMAIN RecentOf(row) = 1 .. k
         /\ \A i \in 1 .. k :
              RecentOf(row)[i] = [tag    |-> row[WayOfAge(row, i)].tag,
                                  offset |-> row[WayOfAge(row, i)].last_offset]
<1>1. ASSUME NEW i \in 1 .. STWays
      PROVE  row[WayOfAge(row, i)].valid <=> i =< k
  <2>1. WayOfAge(row, i) \in STWayIds /\ row[WayOfAge(row, i)].lru = i - 1
    BY WayOfAgeFound
  <2>2. row[WayOfAge(row, i)].valid <=> i - 1 < k
    BY <2>1 DEF Valid
  <2>3. QED
    BY <2>2, SizesAssumption DEF Valid
<1>2. {a \in 1 .. STWays : row[WayOfAge(row, a)].valid} = 1 .. k
  BY <1>1, SizesAssumption DEF Valid
<1>3. QED
  BY <1>2 DEF RecentOf

\* The page of an access takes its place in the list and comes to the front.
LEMMA STRowTouches ==
  ASSUME NEW row \in STRowType, LRUOrdered(row), OneEntryPerTag(row),
         FilledInOrder(row), NEW g \in [GHRIds -> GHREntry],
         NEW tag \in Tags, NEW offset \in Offsets
  PROVE  \E p \in 1 .. STWays :
           /\ Recent!Place(RecentOf(row), tag, p)
           /\ RecentOf(STRow(row, g, tag, offset)) =
                Recent!ToFront(RecentOf(row), p, [tag |-> tag, offset |-> offset])
<1> USE SizesAssumption
<1>1. PICK k \in 0 .. STWays : Valid(row, k)
  BY ValidFirst
<1>2. PICK m : m = STWay(row, tag)
  OBVIOUS
<1>3. /\ m \in STWayIds
      /\ \/ row[m].valid /\ row[m].tag = tag
         \/ /\ \A w \in STWayIds : row[w].valid => row[w].tag # tag
            /\ \/ m = k /\ ~ row[m].valid
               \/ k = STWays /\ row[m].lru = STWays - 1
  BY <1>1, <1>2, STWayAge
<1>4. PICK new : new = STRow(row, g, tag, offset)
  OBVIOUS
<1>5. \A w \in STWayIds :
        /\ new[w].valid <=> (w = m \/ row[w].valid)
        /\ new[w].tag = IF w = m THEN tag ELSE row[w].tag
        /\ new[w].last_offset = IF w = m THEN offset ELSE row[w].last_offset
        /\ new[w].lru = IF w = m THEN 0
                        ELSE IF row[w].lru < row[m].lru THEN row[w].lru + 1
                        ELSE row[w].lru
  BY <1>2, <1>4, STRowFields
<1>6. new \in STRowType /\ LRUOrdered(new) /\ FilledInOrder(new)
  BY <1>4, STRowWellFormed, STRowFilled
<1>7. PICK p : p = row[m].lru + 1
  OBVIOUS
<1>8. /\ p \in 1 .. STWays /\ row[m].lru = p - 1
      /\ row[m].valid => p =< k
      /\ ~ row[m].valid => (m = k /\ p = k + 1)
  <2>1. row[m].lru \in 0 .. STWays - 1
    BY <1>3 DEF STRowType, STEntry, STWayIds
  <2>2. ASSUME ~ row[m].valid
        PROVE  m = k /\ row[m].lru = k
    BY <1>1, <1>3, <2>1, <2>2 DEF Valid, FilledInOrder
  <2>3. row[m].valid => row[m].lru < k
    BY <1>1, <1>3 DEF Valid
  <2>4. QED
    BY <1>1, <1>7, <2>1, <2>2, <2>3
<1>9. /\ DOMAIN RecentOf(row) = 1 .. k
      /\ \A i \in 1 .. k :
           RecentOf(row)[i] = [tag    |-> row[WayOfAge(row, i)].tag,
                               offset |-> row[WayOfAge(row, i)].last_offset]
  BY <1>1, RecentOfRow
<1>10. Recent!Place(RecentOf(row), tag, p)
  <2>1. CASE row[m].valid /\ row[m].tag = tag
    <3>1. p \in 1 .. k
      BY <1>1, <1>8, <2>1
    <3>2. WayOfAge(row, p) = m
      BY <1>3, <1>8, WayOfAgeFound
    <3>3. RecentOf(row)[p].tag = tag
      BY <1>9, <2>1, <3>1, <3>2
    <3>4. QED
      BY <1>9, <3>1, <3>3 DEF Recent!Place
  <2>2. CASE /\ \A w \in STWayIds : row[w].valid => row[w].tag # tag
             /\ \/ m = k /\ ~ row[m].valid
                \/ k = STWays /\ row[m].lru = STWays - 1
    <3>1. ASSUME NEW i \in 1 .. k
          PROVE  RecentOf(row)[i].tag # tag
      <4>1. i \in 1 .. STWays
        BY <1>1
      <4>2. WayOfAge(row, i) \in STWayIds /\ row[WayOfAge(row, i)].lru = i - 1
        BY <4>1, WayOfAgeFound
      <4>3. row[WayOfAge(row, i)].valid
        BY <1>1, <4>2 DEF Valid
      <4>4. QED
        BY <1>9, <2>2, <4>2, <4>3
    <3>2. k = p - 1 \/ (k = STWays /\ p = STWays)
      BY <1>1, <1>8, <2>2
    <3>3. QED
      BY <1>9, <3>1, <3>2 DEF Recent!Place
  <2>3. QED
    BY <1>3, <2>1, <2>2
<1>11. PICK top \in 0 .. STWays : top = IF p =< k THEN k ELSE p
  BY <1>1, <1>8
<1>12. Valid(new, top)
  <2>1. PICK n \in 0 .. STWays : Valid(new, n)
    BY <1>6, ValidFirst
  <2>2. ASSUME NEW w \in STWayIds
        PROVE  w < n <=> w < top
    <3>1. w < n <=> (w = m \/ w < k)
      BY <1>1, <1>5, <2>1 DEF Valid
    <3>2. m < k \/ (m = k /\ p = k + 1)
      BY <1>1, <1>3, <1>8 DEF Valid
    <3>3. row[m].valid => p =< k
      BY <1>8
    <3>4. row[m].valid <=> m < k
      BY <1>1, <1>3 DEF Valid
    <3>5. QED
      BY <1>1, <1>3, <1>8, <1>11, <2>1, <3>1, <3>2, <3>3, <3>4 DEF STWayIds
  <2>3. n = top
    <3>1. ASSUME n < top
          PROVE  FALSE
      BY <1>11, <2>1, <2>2, <3>1 DEF STWayIds
    <3>2. ASSUME top < n
          PROVE  FALSE
      BY <1>11, <2>1, <2>2, <3>2 DEF STWayIds
    <3>3. QED
      BY <1>11, <2>1, <3>1, <3>2
  <2>4. QED
    BY <2>1, <2>3
<1>13. /\ DOMAIN RecentOf(new) = 1 .. top
       /\ \A i \in 1 .. top :
            RecentOf(new)[i] = [tag    |-> new[WayOfAge(new, i)].tag,
                                offset |-> new[WayOfAge(new, i)].last_offset]
  BY <1>6, <1>12, RecentOfRow
<1>14. 1 .. top = DOMAIN RecentOf(row) \cup {p}
  BY <1>1, <1>8, <1>9, <1>11
<1>15. ASSUME NEW i \in 1 .. top
       PROVE  RecentOf(new)[i] =
                IF i = 1 THEN [tag |-> tag, offset |-> offset]
                ELSE IF i =< p THEN RecentOf(row)[i - 1]
                ELSE RecentOf(row)[i]
  <2>1. i \in 1 .. STWays
    BY <1>11
  <2>2. \A w \in STWayIds : new[w].lru = i - 1 => w = WayOfAge(new, i)
    BY <1>6, <2>1, WayOfAgeFound
  <2>3. CASE i = 1
    <3>1. WayOfAge(new, i) = m
      BY <1>3, <1>5, <2>2, <2>3
    <3>2. QED
      BY <1>3, <1>5, <1>13, <2>3, <3>1
  <2>4. CASE i # 1 /\ i =< p
    <3>1. i - 1 \in 1 .. k /\ i - 1 \in 1 .. STWays /\ i - 2 < p - 1
      BY <1>1, <1>8, <2>1, <2>4
    <3>2. PICK w : w = WayOfAge(row, i - 1)
      OBVIOUS
    <3>3. w \in STWayIds /\ row[w].lru = i - 2
      BY <3>1, <3>2, WayOfAgeFound
    <3>4. w # m /\ row[w].lru < row[m].lru
      BY <1>8, <3>1, <3>3
    <3>5. new[w].lru = i - 1
      BY <1>5, <3>3, <3>4
    <3>6. WayOfAge(new, i) = w
      BY <2>2, <3>3, <3>5
    <3>7. RecentOf(row)[i - 1] = [tag |-> row[w].tag, offset |-> row[w].last_offset]
      BY <1>9, <3>1, <3>2
    <3>8. QED
      BY <1>5, <1>13, <2>4, <3>3, <3>4, <3>6, <3>7
  <2>5. CASE i # 1 /\ ~ (i =< p)
    <3>1. i \in 1 .. k /\ ~ (i - 1 < p - 1) /\ i - 1 # p - 1
      BY <1>1, <1>8, <1>11, <2>1, <2>5
    <3>2. PICK w : w = WayOfAge(row, i)
      OBVIOUS
    <3>3. w \in STWayIds /\ row[w].lru = i - 1
      BY <2>1, <3>2, WayOfAgeFound
    <3>4. w # m /\ ~ (row[w].lru < row[m].lru)
      BY <1>8, <3>1, <3>3
    <3>5. new[w].lru = i - 1
      BY <1>5, <3>3, <3>4
    <3>6. WayOfAge(new, i) = w
      BY <2>2, <3>3, <3>5
    <3>7. RecentOf(row)[i] = [tag |-> row[w].tag, offset |-> row[w].last_offset]
      BY <1>9, <3>1, <3>2
    <3>8. QED
      BY <1>5, <1>13, <2>5, <3>3, <3>4, <3>6, <3>7
  <2>6. QED
    BY <2>3, <2>4, <2>5
<1>16. RecentOf(new) =
         Recent!ToFront(RecentOf(row), p, [tag |-> tag, offset |-> offset])
  <2>1. RecentOf(new) = [i \in 1 .. top |-> RecentOf(new)[i]]
    BY <1>13 DEF RecentOf
  <2>2. QED
    BY <1>14, <1>15, <2>1 DEF Recent!ToFront
<1>17. QED
  BY <1>4, <1>8, <1>10, <1>16

(***************************************************************************)
(* The initial state.                                                      *)
(***************************************************************************)
LEMMA ZeroInSets ==
  /\ 0 \in Sigs /\ 0 \in Offsets /\ 0 \in Deltas /\ 0 \in Tags /\ 0 \in RemIds
  /\ 0 \in Lines /\ 0 \in PTWayIds
  /\ 0 \in 0 .. UnsRange - 1 /\ 100 \in 0 .. UnsRange - 1
<1>1. /\ 0 \in Sigs /\ 0 \in Offsets /\ 0 \in Tags /\ 0 \in RemIds
      /\ 0 \in PTWayIds
  BY SizesAssumption, HashAssumption DEF Sigs, Offsets, RemIds, PTWayIds
<1>2. 0 \in Deltas
  BY SizesAssumption DEF Deltas
<1>3. 0 \in Lines
  <2>1. LinesPerPage * 1 =< LinesPerPage * Pages
    BY SizesAssumption, ScaledOrder
  <2> QED  BY <2>1, SizesAssumption DEF Lines
<1>4. 0 \in 0 .. UnsRange - 1 /\ 100 \in 0 .. UnsRange - 1
  BY SizesAssumption
<1>5. QED
  BY <1>1, <1>2, <1>3, <1>4

LEMMA NewWalkType ==
  ASSUME NEW line \in Lines, NEW sig \in Sigs, NEW conf \in 0 .. UnsRange - 1
  PROVE  /\ NewWalk(line, sig, conf) \in Walk
         /\ NewWalk(line, sig, conf).pending = {}
<1>1. NoConfs \in [PTWayIds -> 0 .. UnsRange - 1]
  BY ZeroInSets DEF NoConfs
<1>2. line \in Int
  BY DEF Lines
<1>3. 0 \in 0 .. MaxDepth
  BY SizesAssumption
<1>4. QED
  BY <1>1, <1>2, <1>3 DEF NewWalk, Walk

LEMMA InitIInv == Init => IInv
<1> SUFFICES ASSUME Init
             PROVE  IInv
  OBVIOUS
<1>1. STInv
  <2>1. EmptySTRow \in STRowType
    BY ZeroInSets DEF EmptySTRow, STRowType, STEntry
  <2>2. LRUOrdered(EmptySTRow)
    BY DEF EmptySTRow, LRUOrdered
  <2>3. OneEntryPerTag(EmptySTRow)
    BY DEF EmptySTRow, OneEntryPerTag
  <2>4. FilledInOrder(EmptySTRow)
    BY DEF EmptySTRow, FilledInOrder
  <2> QED  BY <2>1, <2>2, <2>3, <2>4
           DEF Init, STInv, LRUPermutation, TagsUnique, STFilledInOrder
<1>2. PTInv
  <2>1. EmptyPTSet \in PTSet
    BY ZeroInSets, SizesAssumption DEF EmptyPTSet, PTSet, PTWay
  <2>2. WithinTotal(EmptyPTSet) /\ OneWayPerDelta(EmptyPTSet)
    BY DEF EmptyPTSet, WithinTotal, OneWayPerDelta
  <2> QED  BY <2>1, <2>2, EmptySum
           DEF Init, PTInv, CountersWithinTotal, SumsWithinTotal, DeltasDistinct
<1>3. GHRInv
  <2>1. EmptyGHR \in [GHRIds -> GHREntry] /\ OneEntryPerOffset(EmptyGHR)
    BY ZeroInSets DEF EmptyGHR, GHREntry, OneEntryPerOffset
  <2> QED  BY <2>1 DEF Init, GHRInv, GHROneEntryPerOffset
<1>4. FilterInv
  <2>1. EmptyFilter \in FilterType
    BY ZeroInSets DEF EmptyFilter, FilterType, FilterEntry
  <2>2. Outstanding(EmptyFilter) = {}
    BY DEF EmptyFilter, Outstanding
  <2>3. Cardinality({}) = 0
    BY FS_EmptySet
  <2>4. acc \in Accuracy
    BY SizesAssumption DEF Init, Accuracy
  <2>5. ghost \in [installs: Nat, credits: Nat]
    BY DEF Init
  <2>6. CreditsBacked
    BY <2>2, <2>3 DEF Init, CreditsBacked
  <2> QED  BY <2>1, <2>4, <2>5, <2>6 DEF Init, FilterInv
<1>5. WalkInv
  <2>1. NoWalk \in Walk /\ NoWalk.pending = {}
    BY ZeroInSets, NewWalkType DEF NoWalk
  <2> QED  BY <2>1, ZeroInSets DEF Init, WalkInv, CandidatesMove
<1>6. EnvironmentInv
  BY TraceAssumption DEF Init, EnvironmentInv
<1>7. QED
  BY <1>1, <1>2, <1>3, <1>4, <1>5, <1>6 DEF IInv

(***************************************************************************)
(* spp_operate up to the loop, one lemma per table.                        *)
(***************************************************************************)
LEMMA OperateST ==
  ASSUME STInv, GHRInv, NEW f, NEW a, NEW g, NEW line \in Lines,
         Operate(f, a, g, line)
  PROVE  STInv'
<1> DEFINE s   == STSetOf[PageOf(line)]
           tag == TagOf[PageOf(line)]
           new == STRow(st[s], ghr, tag, OffsetOf(line))
<1>1. s \in STSetIds /\ tag \in Tags /\ OffsetOf(line) \in Offsets
  BY LineParts, HashAssumption DEF Lines
<1>2. /\ st \in [STSetIds -> STRowType]
      /\ st[s] \in STRowType /\ LRUOrdered(st[s]) /\ OneEntryPerTag(st[s])
      /\ FilledInOrder(st[s])
      /\ ghr \in [GHRIds -> GHREntry]
  BY <1>1 DEF STInv, GHRInv, LRUPermutation, TagsUnique, STFilledInOrder
<1>3. st' = [st EXCEPT ![s] = new]
  BY DEF Operate
<1> HIDE DEF s, tag
<1>4. /\ new \in STRowType /\ LRUOrdered(new) /\ OneEntryPerTag(new)
      /\ FilledInOrder(new)
  BY <1>1, <1>2, STRowWellFormed, STRowFilled
<1> HIDE DEF new
<1>5. /\ st' \in [STSetIds -> STRowType]
      /\ \A t \in STSetIds : st'[t] = IF t = s THEN new ELSE st[t]
  BY <1>1, <1>2, <1>3, <1>4
<1>6. QED
  BY <1>4, <1>5 DEF STInv, LRUPermutation, TagsUnique, STFilledInOrder

LEMMA OperatePT ==
  ASSUME STInv, PTInv, NEW f, NEW a, NEW g, NEW line \in Lines,
         Operate(f, a, g, line)
  PROVE  PTInv'
<1> DEFINE row    == st[STSetOf[PageOf(line)]]
           tag    == TagOf[PageOf(line)]
           offset == OffsetOf(line)
           last   == STLastSig(row, tag, offset)
           delta  == STDelta(row, tag, offset)
           s      == PTSetOf[last]
           new    == PTTrain(pt[s], delta)
<1>1. /\ STSetOf[PageOf(line)] \in STSetIds
      /\ offset \in Offsets
  BY LineParts, HashAssumption DEF Lines
<1>2. row \in STRowType /\ LRUOrdered(row)
  BY <1>1 DEF STInv, LRUPermutation
<1>3. pt' = IF last = 0 THEN pt ELSE [pt EXCEPT ![s] = new]
  BY DEF Operate, PTInv
<1> HIDE DEF row, tag, offset
<1>4. delta \in Deltas /\ (last # 0 => delta # 0)
  BY <1>1, <1>2, STDeltaType DEF STLastSig
<1>5. CASE last = 0
  BY <1>3, <1>5 DEF PTInv, CountersWithinTotal, SumsWithinTotal, DeltasDistinct
<1>6. CASE last # 0
  <2>1. last \in Sigs
    <3>1. row[STWay(row, tag)].sig \in Sigs
      BY <1>2, STWayFound DEF STRowType, STEntry
    <3> QED  BY <3>1, ZeroInSets DEF STLastSig
  <2> HIDE DEF last, delta
  <2>2. s \in PTSetIds
    BY <2>1, HashAssumption
  <2>3. /\ pt \in [PTSetIds -> PTSet]
        /\ pt[s] \in PTSet /\ WithinTotal(pt[s]) /\ SumWithinTotal(pt[s])
        /\ OneWayPerDelta(pt[s])
    BY <2>2 DEF PTInv, CountersWithinTotal, SumsWithinTotal, DeltasDistinct
  <2> HIDE DEF s
  <2>4. /\ new \in PTSet /\ WithinTotal(new) /\ SumWithinTotal(new)
        /\ OneWayPerDelta(new)
    BY <1>4, <1>6, <2>3, PTTrainWellFormed, PTTrainSum
  <2> HIDE DEF new
  <2>5. /\ pt' \in [PTSetIds -> PTSet]
        /\ \A t \in PTSetIds : pt'[t] = IF t = s THEN new ELSE pt[t]
    BY <1>3, <1>6, <2>2, <2>3, <2>4
  <2> QED  BY <2>4, <2>5 DEF PTInv, CountersWithinTotal, SumsWithinTotal, DeltasDistinct
<1>7. QED
  BY <1>5, <1>6

\* The demand filter and its credit, for the state entered with or for the
\* one a preceding pref_hit callback has left.
LEMMA DemandBacked ==
  ASSUME NEW f \in FilterType, NEW a \in Accuracy,
         NEW g \in [installs: Nat, credits: Nat],
         g.credits + Cardinality(Outstanding(f)) =< g.installs,
         NEW line \in Lines
  PROVE  /\ FilterDemand(f, line) \in FilterType
         /\ Credited(a, f, line) \in Accuracy
         /\ GhostCredited(g, f, line) \in [installs: Nat, credits: Nat]
         /\ GhostCredited(g, f, line).credits
              + Cardinality(Outstanding(FilterDemand(f, line)))
                =< GhostCredited(g, f, line).installs
<1>1. FilterDemand(f, line) \in FilterType
  BY FilterDemandType
<1>2. Credited(a, f, line) \in Accuracy
  BY CountersType DEF Credited
<1>3. GhostCredited(g, f, line) \in [installs: Nat, credits: Nat]
  BY DEF GhostCredited
<1>4. /\ GhostCredited(g, f, line).installs = g.installs
      /\ GhostCredited(g, f, line).credits =
           g.credits + (IF FilterCredits(f, line) THEN 1 ELSE 0)
  BY DEF GhostCredited
<1>5. Cardinality(Outstanding(f)) =
        Cardinality(Outstanding(FilterDemand(f, line)))
          + (IF FilterCredits(f, line) THEN 1 ELSE 0)
  BY DemandSpendsSlot
<1>6. /\ Cardinality(Outstanding(f)) \in Nat
      /\ Cardinality(Outstanding(FilterDemand(f, line))) \in Nat
  BY OutstandingFinite
<1>7. QED
  BY <1>1, <1>2, <1>3, <1>4, <1>5, <1>6

LEMMA OperateFilter ==
  ASSUME NEW f \in FilterType, NEW a \in Accuracy,
         NEW g \in [installs: Nat, credits: Nat],
         g.credits + Cardinality(Outstanding(f)) =< g.installs,
         NEW line \in Lines, Operate(f, a, g, line)
  PROVE  FilterInv'
<1>1. /\ filter' = FilterDemand(f, line)
      /\ acc' = Credited(a, f, line)
      /\ ghost' = GhostCredited(g, f, line)
  BY DEF Operate
<1>2. QED
  BY <1>1, DemandBacked DEF FilterInv, CreditsBacked

LEMMA OperateWalk ==
  ASSUME STInv, GHRInv, NEW f, NEW a \in Accuracy, NEW g,
         NEW line \in Lines, Operate(f, a, g, line)
  PROVE  WalkInv'
<1> DEFINE row    == st[STSetOf[PageOf(line)]]
           tag    == TagOf[PageOf(line)]
           offset == OffsetOf(line)
           curr   == STCurrSig(row, ghr, tag, offset)
<1>1. /\ STSetOf[PageOf(line)] \in STSetIds
      /\ offset \in Offsets
  BY LineParts, HashAssumption DEF Lines
<1>2. row \in STRowType /\ LRUOrdered(row) /\ ghr \in [GHRIds -> GHREntry]
  BY <1>1 DEF STInv, LRUPermutation, GHRInv
<1>3. /\ alpha' = AccuracyPct(a)
      /\ \/ pc' = "idle" /\ walk' = NoWalk
         \/ pc' = "read" /\ walk' = NewWalk(line, curr, 100)
  BY DEF Operate
<1> HIDE DEF row, tag, offset
<1>4. curr \in Sigs
  BY <1>1, <1>2, STSigTypes
<1> HIDE DEF curr
<1>5. alpha' \in 0 .. UnsRange - 1
  BY <1>3, AccuracyPctType
<1>6. walk' \in Walk /\ walk'.pending = {}
  BY <1>3, <1>4, NewWalkType, ZeroInSets DEF NoWalk
<1>7. QED
  BY <1>3, <1>5, <1>6 DEF WalkInv, CandidatesMove

LEMMA DemandEnvironment ==
  ASSUME EnvironmentInv, NEW line \in Lines, Demand(line)
  PROVE  EnvironmentInv'
BY TraceAssumption DEF EnvironmentInv, Demand

(***************************************************************************)
(* The lookahead loop.                                                     *)
(***************************************************************************)
LEMMA WalkRowWellFormed ==
  ASSUME PTInv, walk \in Walk
  PROVE  WalkRow \in PTSet /\ WithinTotal(WalkRow) /\ OneWayPerDelta(WalkRow)
<1>1. PTSetOf[walk.sig] \in PTSetIds
  BY HashAssumption DEF Walk
<1>2. QED
  BY <1>1 DEF PTInv, WalkRow, CountersWithinTotal, DeltasDistinct

LEMMA ReadPatternStep ==
  ASSUME IInv, ReadPattern
  PROVE  WalkInv'
<1> DEFINE confs == PTConfs(WalkRow, walk.depth, alpha, walk.conf)
           cands == PTCandidates(WalkRow, confs)
           next  == LookaheadWays(WalkRow, confs)
           conf  == IF WalkRow.c_sig = 0 THEN walk.conf
                    ELSE IF next = {} THEN 0
                    ELSE confs[Min(next)]
<1>1. /\ PTInv /\ walk \in Walk /\ alpha \in 0 .. UnsRange - 1
      /\ walk.depth \in Nat /\ walk.conf \in 0 .. UnsRange - 1
  BY SizesAssumption DEF IInv, WalkInv, Walk
<1>2. WalkRow \in PTSet /\ WithinTotal(WalkRow) /\ OneWayPerDelta(WalkRow)
  BY <1>1, WalkRowWellFormed
<1>3. confs \in [PTWayIds -> 0 .. UnsRange - 1]
  BY <1>1, <1>2, PTConfsType
<1>4. PFThreshold > 0 => \A w \in cands : WalkRow.ways[w].delta # 0
  BY <1>1, <1>2, CandidatesHaveDelta
<1>5. /\ pc' = "issue"
      /\ walk' = [walk EXCEPT !.confs = confs, !.pending = cands,
                              !.conf = conf, !.lookahead = FALSE]
      /\ UNCHANGED <<pt, alpha>>
  BY DEF ReadPattern, tables
<1> HIDE DEF confs
<1>6. next # {} => Min(next) \in next
  BY LookaheadWayFound
<1>7. next \subseteq PTWayIds /\ cands \subseteq PTWayIds
  BY DEF LookaheadWays, PTCandidates
<1> HIDE DEF next, cands
<1>8. conf \in 0 .. UnsRange - 1
  BY <1>1, <1>3, <1>6, <1>7, ZeroInSets
<1> HIDE DEF conf
<1>9. walk' \in Walk /\ walk'.pending = cands /\ walk'.sig = walk.sig
  BY <1>1, <1>3, <1>5, <1>7, <1>8 DEF Walk
<1>10. CandidatesMove'
  BY <1>4, <1>5, <1>9 DEF CandidatesMove, WalkRow
<1>11. QED
  BY <1>1, <1>5, <1>9, <1>10 DEF WalkInv

LEMMA TakeHeadStep ==
  ASSUME IInv, TakeHead
  PROVE  /\ WalkInv' /\ STInv' /\ PTInv' /\ demands' = demands
         /\ HeadWay \in PTWayIds
         /\ HeadConf \in 0 .. UnsRange - 1
         /\ HeadDelta \in Deltas
         /\ HeadLine \in Int
         /\ InPage(HeadLine) => HeadLine \in Lines
<1>1. /\ walk \in Walk /\ PTInv /\ STInv /\ WalkInv
      /\ walk.pending # {} /\ pc = "issue"
      /\ UNCHANGED <<st, pt, alpha, pc, demands>>
      /\ walk' = [walk EXCEPT !.pending = walk.pending \ {HeadWay},
                              !.lookahead = TRUE]
  BY DEF IInv, WalkInv, TakeHead
<1>2. HeadWay \in walk.pending
  <2>1. walk.pending \subseteq Nat
    BY <1>1, SizesAssumption DEF Walk, PTWayIds
  <2> QED  BY <1>1, <2>1, MinProperty DEF HeadWay
<1>3. HeadWay \in PTWayIds
  BY <1>1, <1>2 DEF Walk
<1>4. HeadConf \in 0 .. UnsRange - 1
  BY <1>1, <1>3 DEF HeadConf, Walk
<1>5. HeadDelta \in Deltas
  <2>1. WalkRow \in PTSet
    BY <1>1, WalkRowWellFormed
  <2> QED  BY <1>3, <2>1 DEF HeadDelta, PTSet, PTWay
<1>6. HeadLine \in Int
  BY <1>1, <1>5, SizesAssumption DEF HeadLine, Walk, Deltas
<1>7. InPage(HeadLine) => HeadLine \in Lines
  BY <1>1, <1>6, PageMates DEF InPage, Walk
<1>8. /\ walk' \in Walk
      /\ walk'.pending \subseteq walk.pending
      /\ walk'.sig = walk.sig
  BY <1>1 DEF Walk
<1>9. CandidatesMove'
  BY <1>1, <1>8 DEF WalkInv, CandidatesMove, WalkRow
<1>10. WalkInv'
  BY <1>1, <1>8, <1>9 DEF WalkInv
<1>11. STInv' /\ PTInv'
  BY <1>1 DEF STInv, LRUPermutation, TagsUnique, STFilledInOrder, PTInv, CountersWithinTotal,
              SumsWithinTotal, DeltasDistinct
<1>12. QED
  BY <1>1, <1>3, <1>4, <1>5, <1>6, <1>7, <1>10, <1>11

LEMMA NextHopStep ==
  ASSUME IInv, NextHop
  PROVE  WalkInv'
<1> DEFINE next  == LookaheadWays(WalkRow, walk.confs)
           delta == WalkRow.ways[Min(next)].delta
           depth == IF walk.conf >= PFThreshold THEN walk.depth + 1
                                                ELSE walk.depth
           more  == next # {} /\ walk.lookahead /\ depth < MaxDepth
                      /\ LookaheadOn
<1>1. /\ walk \in Walk /\ PTInv /\ WalkInv /\ walk.pending = {}
      /\ UNCHANGED alpha
      /\ IF more
           THEN /\ pc' = "read"
                /\ walk' = [walk EXCEPT
                              !.base = walk.base + delta,
                              !.sig = NextSig[<<walk.sig, delta>>],
                              !.depth = depth, !.confs = NoConfs]
           ELSE pc' = "idle" /\ walk' = NoWalk
  BY DEF IInv, WalkInv, NextHop, tables
<1>2. CASE ~ more
  <2>1. walk' \in Walk /\ walk'.pending = {} /\ pc' = "idle"
    BY <1>1, <1>2, ZeroInSets, NewWalkType DEF NoWalk
  <2> QED  BY <1>1, <2>1 DEF WalkInv, CandidatesMove
<1>3. CASE more
  <2>1. next # {} /\ depth \in 0 .. MaxDepth
    BY <1>1, <1>3, SizesAssumption DEF Walk
  <2>2. Min(next) \in PTWayIds
    BY <2>1, LookaheadWayFound DEF LookaheadWays, PTCandidates
  <2>3. delta \in Deltas
    BY <1>1, <2>2, WalkRowWellFormed DEF PTSet, PTWay
  <2>4. NoConfs \in [PTWayIds -> 0 .. UnsRange - 1]
    BY ZeroInSets DEF NoConfs
  <2>5. /\ pc' = "read"
        /\ walk' = [walk EXCEPT !.base = walk.base + delta,
                                !.sig = NextSig[<<walk.sig, delta>>],
                                !.depth = depth, !.confs = NoConfs]
    BY <1>1, <1>3
  <2> HIDE DEF delta, depth, more, next
  <2>6. NextSig[<<walk.sig, delta>>] \in Sigs /\ walk.base + delta \in Int
    BY <1>1, <2>3, HashAssumption, SizesAssumption DEF Walk, Deltas
  <2>7. walk' \in Walk /\ walk'.pending = {}
    BY <1>1, <2>1, <2>4, <2>5, <2>6 DEF Walk
  <2> QED  BY <1>1, <2>5, <2>7 DEF WalkInv, CandidatesMove
<1>4. QED
  BY <1>2, <1>3

LEMMA FilterInvUnchanged ==
  ASSUME FilterInv, UNCHANGED <<filter, acc, ghost>>
  PROVE  FilterInv'
BY DEF FilterInv, CreditsBacked

LEMMA IssueStep ==
  ASSUME IInv, NEW queued \in BOOLEAN, Issue(queued)
  PROVE  IInv'
<1>1. /\ WalkInv' /\ STInv' /\ PTInv'
      /\ demands' = demands /\ HeadLine \in Lines
  BY TakeHeadStep DEF Issue
<1>2. /\ FilterInv /\ GHRInv /\ EnvironmentInv
  BY DEF IInv
<1>3. FilterInv'
  <2>1. CASE HeadConf >= FillThreshold
    <3>1. /\ filter' = FilterInstall(filter, HeadLine)
          /\ ghost' = [ghost EXCEPT !.installs = ghost.installs + 1]
          /\ acc' = IF queued THEN CountIssued(acc) ELSE acc
      BY <2>1 DEF Issue
    <3>2. filter' \in FilterType
      BY <1>1, <1>2, <3>1, FilterInstallType DEF FilterInv
    <3>3. acc' \in Accuracy
      BY <1>2, <3>1, CountersType DEF FilterInv
    <3>4. /\ ghost' \in [installs: Nat, credits: Nat]
          /\ ghost'.installs = ghost.installs + 1
          /\ ghost'.credits = ghost.credits
      BY <1>2, <3>1 DEF FilterInv
    <3>5. Cardinality(Outstanding(filter')) =<
            Cardinality(Outstanding(filter)) + 1
      BY <1>1, <1>2, <3>1, InstallAddsSlot DEF FilterInv
    <3>6. /\ Cardinality(Outstanding(filter)) \in Nat
          /\ Cardinality(Outstanding(filter')) \in Nat
      BY OutstandingFinite
    <3>7. /\ ghost.credits + Cardinality(Outstanding(filter)) =< ghost.installs
          /\ ghost.credits \in Nat /\ ghost.installs \in Nat
      BY <1>2 DEF FilterInv, CreditsBacked
    <3>8. CreditsBacked'
      BY <3>4, <3>5, <3>6, <3>7 DEF CreditsBacked
    <3> QED  BY <3>2, <3>3, <3>4, <3>8 DEF FilterInv
  <2>2. CASE ~ (HeadConf >= FillThreshold)
    <3>1. UNCHANGED <<filter, acc, ghost>>
      BY <2>2 DEF Issue
    <3> QED  BY <1>2, <3>1, FilterInvUnchanged
  <2> QED  BY <2>1, <2>2
<1>4. GHRInv'
  BY <1>2 DEF Issue, GHRInv, GHROneEntryPerOffset
<1>5. EnvironmentInv'
  BY <1>1, <1>2 DEF Issue, EnvironmentInv
<1>6. QED
  BY <1>1, <1>3, <1>4, <1>5 DEF IInv

LEMMA CrossPageStep ==
  ASSUME IInv, CrossPage
  PROVE  IInv'
<1>1. /\ WalkInv' /\ STInv' /\ PTInv' /\ demands' = demands
      /\ HeadConf \in 0 .. UnsRange - 1 /\ HeadDelta \in Deltas
      /\ HeadLine \in Int
  BY TakeHeadStep DEF CrossPage
<1>2. /\ FilterInv /\ GHRInv /\ EnvironmentInv /\ walk.sig \in Sigs
  BY DEF IInv, WalkInv, Walk
<1>3. GHRInv'
  <2>1. OffsetOf(HeadLine) \in Offsets
    BY <1>1, LineParts
  <2>2. ghr' = IF GHROn
                 THEN GHRUpdate(ghr, walk.sig, HeadConf, OffsetOf(HeadLine),
                                HeadDelta)
                 ELSE ghr
    BY DEF CrossPage
  <2> QED  BY <1>1, <1>2, <2>1, <2>2, GHRUpdateWellFormed
           DEF GHRInv, GHROneEntryPerOffset
<1>4. FilterInv'
  BY <1>2, FilterInvUnchanged DEF CrossPage
<1>5. EnvironmentInv'
  BY <1>1, <1>2 DEF CrossPage, EnvironmentInv
<1>6. QED
  BY <1>1, <1>3, <1>4, <1>5 DEF IInv

\* A skipped candidate leaves everything but the scratch queue alone.
LEMMA SkipStep ==
  ASSUME IInv, SkipBelowCutoff \/ SkipFiltered
  PROVE  IInv'
<1>1. TakeHead /\ UNCHANGED <<filter, ghr, acc, ul1, ghost>>
  BY DEF SkipBelowCutoff, SkipFiltered
<1>2. WalkInv' /\ STInv' /\ PTInv' /\ demands' = demands
  BY <1>1, TakeHeadStep
<1>3. FilterInv /\ GHRInv /\ EnvironmentInv
  BY DEF IInv
<1>4. FilterInv'
  BY <1>1, <1>3, FilterInvUnchanged
<1>5. GHRInv' /\ EnvironmentInv'
  BY <1>1, <1>2, <1>3 DEF GHRInv, GHROneEntryPerOffset, EnvironmentInv
<1>6. QED
  BY <1>2, <1>4, <1>5 DEF IInv

LEMMA TablesUnchanged ==
  ASSUME IInv, UNCHANGED <<st, pt, filter, ghr, acc, ghost>>
  PROVE  STInv' /\ PTInv' /\ GHRInv' /\ FilterInv'
<1>1. STInv /\ PTInv /\ GHRInv /\ FilterInv
  BY DEF IInv
<1>2. QED
  BY <1>1, FilterInvUnchanged
  DEF STInv, LRUPermutation, TagsUnique, STFilledInOrder, PTInv, CountersWithinTotal,
      SumsWithinTotal, DeltasDistinct, GHRInv, GHROneEntryPerOffset

\* A callback for a demand, with the state its pref_hit callback left.
LEMMA DemandStep ==
  ASSUME IInv, NEW line \in Lines, Demand(line),
         NEW f \in FilterType, NEW a \in Accuracy,
         NEW g \in [installs: Nat, credits: Nat],
         g.credits + Cardinality(Outstanding(f)) =< g.installs,
         Operate(f, a, g, line)
  PROVE  IInv'
<1>1. STInv /\ PTInv /\ GHRInv /\ EnvironmentInv
  BY DEF IInv
<1>2. STInv' /\ PTInv'
  BY <1>1, OperateST, OperatePT
<1>3. FilterInv'
  BY OperateFilter
<1>4. WalkInv'
  BY <1>1, OperateWalk
<1>5. GHRInv'
  BY <1>1 DEF Operate, GHRInv, GHROneEntryPerOffset
<1>6. EnvironmentInv'
  BY <1>1, DemandEnvironment
<1>7. QED
  BY <1>2, <1>3, <1>4, <1>5, <1>6 DEF IInv

LEMMA NextIInv ==
  ASSUME IInv, [Next]_vars
  PROVE  IInv'
<1>0. /\ FilterInv /\ filter \in FilterType /\ acc \in Accuracy
      /\ ghost \in [installs: Nat, credits: Nat]
      /\ ghost.credits + Cardinality(Outstanding(filter)) =< ghost.installs
      /\ DemandLines \subseteq Lines
  BY TraceAssumption DEF IInv, FilterInv, CreditsBacked
<1>1. ASSUME NEW line \in DemandLines, UL1Miss(line) \/ UL1Hit(line)
      PROVE  IInv'
  <2>1. Demand(line) /\ Operate(filter, acc, ghost, line)
    BY <1>1 DEF UL1Miss, UL1Hit
  <2> QED  BY <1>0, <2>1, DemandStep
<1>2. ASSUME NEW line \in DemandLines, UL1PrefHit(line)
      PROVE  IInv'
  <2>1. /\ Demand(line)
        /\ Operate(FilterDemand(filter, line), Credited(acc, filter, line),
                   GhostCredited(ghost, filter, line), line)
    BY <1>2 DEF UL1PrefHit
  <2>2. line \in Lines
    BY <1>0
  <2>3. /\ FilterDemand(filter, line) \in FilterType
        /\ Credited(acc, filter, line) \in Accuracy
        /\ GhostCredited(ghost, filter, line) \in [installs: Nat, credits: Nat]
        /\ GhostCredited(ghost, filter, line).credits
             + Cardinality(Outstanding(FilterDemand(filter, line)))
               =< GhostCredited(ghost, filter, line).installs
    BY <1>0, <2>2, DemandBacked
  <2> QED  BY <2>1, <2>2, <2>3, DemandStep
<1>3. CASE ReadPattern \/ NextHop
  <2>1. UNCHANGED <<st, pt, filter, ghr, acc, ghost>>
    BY <1>3 DEF ReadPattern, NextHop, tables
  <2>2. WalkInv'
    BY <1>3, ReadPatternStep, NextHopStep
  <2>3. EnvironmentInv'
    BY <1>3 DEF IInv, EnvironmentInv, ReadPattern, NextHop
  <2> QED  BY <2>1, <2>2, <2>3, TablesUnchanged DEF IInv
<1>4. CASE SkipBelowCutoff \/ SkipFiltered
  BY <1>4, SkipStep
<1>5. CASE \E queued \in BOOLEAN : Issue(queued)
  BY <1>5, IssueStep
<1>6. CASE CrossPage
  BY <1>6, CrossPageStep
<1>7. ASSUME NEW line \in EvictableLines, Forget(line)
      PROVE  IInv'
  <2>1. UNCHANGED <<st, pt, filter, ghr, acc, ghost, alpha, pc, walk>>
    BY <1>7 DEF Forget, tables
  <2>2. WalkInv'
    BY <2>1 DEF IInv, WalkInv, CandidatesMove, WalkRow
  <2>3. EnvironmentInv'
    BY <1>7, TraceAssumption DEF Forget, IInv, EnvironmentInv
  <2> QED  BY <2>1, <2>2, <2>3, TablesUnchanged DEF IInv
<1>8. CASE Done
  <2>1. /\ pc = "idle" /\ pc' = "done"
        /\ UNCHANGED <<st, pt, filter, ghr, acc, ghost, alpha, walk, ul1,
                       demands>>
    BY <1>8 DEF Done, tables
  <2>2. WalkInv' /\ EnvironmentInv'
    BY <2>1 DEF IInv, WalkInv, CandidatesMove, WalkRow, EnvironmentInv
  <2> QED  BY <2>1, <2>2, TablesUnchanged DEF IInv
<1>9. CASE UNCHANGED vars
  <2>1. WalkInv' /\ EnvironmentInv'
    BY <1>9 DEF vars, IInv, WalkInv, CandidatesMove, WalkRow, EnvironmentInv
  <2> QED  BY <1>9, <2>1, TablesUnchanged DEF vars, IInv
<1>10. QED
  BY <1>1, <1>2, <1>3, <1>4, <1>5, <1>6, <1>7, <1>8, <1>9
  DEF Next, Step, CallbackAfterDone

(***************************************************************************)
(* The theorems.                                                           *)
(***************************************************************************)

THEOREM Invariance == Spec => []IInv
<1>1. Init => IInv
  BY InitIInv
<1>2. IInv /\ [Next]_vars => IInv'
  BY NextIInv
<1>3. QED
  BY <1>1, <1>2, PTL DEF Spec

\* Every table, counter and local of spp_operate stays within its bits.
THEOREM TypeCorrect == Spec => []TypeOK
<1>1. IInv => TypeOK
  BY DEF IInv, STInv, PTInv, GHRInv, FilterInv, WalkInv, EnvironmentInv,
         TypeOK, STRowType, FilterType
<1>2. QED
  BY <1>1, Invariance, PTL

\* The two ASSERTMs of spp_st_read_and_update hold: the lru fields of a row
\* are a permutation of its ways.
THEOREM SignatureTableSafe == Spec => []LRUPermutation
<1>1. IInv => LRUPermutation
  BY DEF IInv, STInv
<1>2. QED
  BY <1>1, Invariance, PTL

\* The hit test of spp_st_read_and_update may stop at its first match.
THEOREM PagesHaveOneEntry == Spec => []TagsUnique
<1>1. IInv => TagsUnique
  BY DEF IInv, STInv
<1>2. QED
  BY <1>1, Invariance, PTL

\* Through saturation, halving and replacement in spp_pt_update_pattern, no
\* delta is counted more often than its signature.
THEOREM PatternTableSafe == Spec => []CountersWithinTotal
<1>1. IInv => CountersWithinTotal
  BY DEF IInv, PTInv
<1>2. QED
  BY <1>1, Invariance, PTL

\* What all the deltas of a signature predict at the first hop of
\* spp_pt_read_pattern adds up to 100 percent at most: their counters add up
\* to no more than the trainings counted in c_sig, halvings included.
THEOREM ConfidencesArePercent == Spec => []ConfidencesWithin100
<1>1. IInv => ConfidencesWithin100
  <2> SUFFICES ASSUME IInv, NEW s \in PTSetIds, pt[s].c_sig # 0
               PROVE  SumFunction([w \in PTWayIds |->
                                     LocalConf(pt[s].ways[w], pt[s].c_sig)]) =< 100
    BY DEF ConfidencesWithin100
  <2>1. pt[s] \in PTSet /\ WithinTotal(pt[s]) /\ SumWithinTotal(pt[s])
    BY DEF IInv, PTInv, CountersWithinTotal, SumsWithinTotal
  <2>2. QED
    BY <2>1, ConfidenceSum
<1>2. QED
  BY <1>1, Invariance, PTL

\* spp_pt_update_pattern never holds a delta in two ways of a set.
THEOREM DeltasHaveOneWay == Spec => []DeltasDistinct
<1>1. IInv => DeltasDistinct
  BY DEF IInv, PTInv
<1>2. QED
  BY <1>1, Invariance, PTL

\* spp_ghr_update keeps one entry per offset.
THEOREM GHRSafe == Spec => []GHROneEntryPerOffset
<1>1. IInv => GHROneEntryPerOffset
  BY DEF IInv, GHRInv
<1>2. QED
  BY <1>1, Invariance, PTL

\* pf_useful is only counted up for a slot that a fill-level prefetch took,
\* and once for each time it was taken.
THEOREM CreditsAreBacked == Spec => []CreditsBacked
<1>1. IInv => CreditsBacked
  BY DEF IInv, FilterInv
<1>2. QED
  BY <1>1, Invariance, PTL

\* With a positive PF_THRESHOLD the lookahead never queues the line it is on.
THEOREM LookaheadMoves == Spec => []CandidatesMove
<1>1. IInv => CandidatesMove
  BY DEF IInv, WalkInv
<1>2. QED
  BY <1>1, Invariance, PTL

\* The Signature Table implements the list of recent pages: spp_st_read_and_update
\* finds a page if and only if it is among the STWays pages of its set touched
\* last, with the offset of its last touch.
THEOREM ImplementsRecentPages == Spec => RemembersRecentPages
<1> DEFINE pages == [s \in STSetIds |-> RecentOf(st[s])]
<1>1. Init => Recent!Init
  <2> SUFFICES ASSUME Init
               PROVE  pages = [s \in STSetIds |-> <<>>]
    BY DEF Recent!Init
  <2>1. \A i \in 1 .. STWays : WayOfAge(EmptySTRow, i) \in STWayIds
    <3>1. EmptySTRow \in STRowType
      BY ZeroInSets DEF EmptySTRow, STRowType, STEntry
    <3>2. LRUOrdered(EmptySTRow)
      BY DEF EmptySTRow, LRUOrdered
    <3>3. QED
      BY <3>1, <3>2, WayOfAgeFound
  <2>2. {a \in 1 .. STWays : EmptySTRow[WayOfAge(EmptySTRow, a)].valid} = {}
    BY <2>1 DEF EmptySTRow
  <2>3. RecentOf(EmptySTRow) = <<>>
    BY <2>2 DEF RecentOf
  <2>4. QED
    BY <2>3 DEF Init
<1>2. ASSUME STInv, GHRInv, NEW f, NEW a, NEW g, NEW line \in Lines,
             Operate(f, a, g, line)
      PROVE  Recent!Next
  <2> DEFINE s      == STSetOf[PageOf(line)]
             tag    == TagOf[PageOf(line)]
             offset == OffsetOf(line)
             new    == STRow(st[s], ghr, tag, offset)
  <2>1. s \in STSetIds /\ tag \in Tags /\ offset \in Offsets
    BY LineParts, HashAssumption DEF Lines
  <2>2. /\ st \in [STSetIds -> STRowType]
        /\ st[s] \in STRowType /\ LRUOrdered(st[s]) /\ OneEntryPerTag(st[s])
        /\ FilledInOrder(st[s])
        /\ ghr \in [GHRIds -> GHREntry]
    BY <1>2, <2>1 DEF STInv, GHRInv, LRUPermutation, TagsUnique, STFilledInOrder
  <2>3. st' = [st EXCEPT ![s] = new]
    BY <1>2 DEF Operate
  <2> HIDE DEF s, tag, offset
  <2>4. PICK p \in 1 .. STWays :
          /\ Recent!Place(RecentOf(st[s]), tag, p)
          /\ RecentOf(new) = Recent!ToFront(RecentOf(st[s]), p,
                                            [tag |-> tag, offset |-> offset])
    BY <2>1, <2>2, STRowTouches
  <2>5. pages' = [pages EXCEPT ![s] = RecentOf(new)]
    <3> HIDE DEF new
    <3> QED  BY <2>1, <2>2, <2>3
  <2>6. pages[s] = RecentOf(st[s])
    BY <2>1
  <2> HIDE DEF new
  <2>7. Recent!Touch(s, tag, offset)
    BY <2>4, <2>5, <2>6 DEF Recent!Touch
  <2>8. QED
    BY <2>1, <2>7 DEF Recent!Next
<1>3. IInv /\ [Next]_vars => [Recent!Next]_pages
  <2> SUFFICES ASSUME IInv, [Next]_vars, ~ UNCHANGED st
               PROVE  Recent!Next
    OBVIOUS
  <2>1. STInv /\ GHRInv /\ DemandLines \subseteq Lines
    BY TraceAssumption DEF IInv
  <2>2. PICK line \in DemandLines : UL1Miss(line) \/ UL1Hit(line) \/ UL1PrefHit(line)
    BY DEF Next, Step, vars, tables, ReadPattern, TakeHead, NextHop, Issue, CrossPage,
           SkipBelowCutoff, SkipFiltered, Forget, Done, CallbackAfterDone
  <2>3. \E f, a, g : Operate(f, a, g, line)
    BY <2>2 DEF UL1Miss, UL1Hit, UL1PrefHit
  <2>4. QED
    BY <1>2, <2>1, <2>2, <2>3
<1>4. QED
  BY <1>1, <1>3, Invariance, PTL DEF Spec, RemembersRecentPages, Recent!Spec
(***************************************************************************)
(* spp_operate returns.                                                    *)
(***************************************************************************)

\* The path goes on only through a candidate, whose confidence is at least
\* PF_THRESHOLD: the depth++ at the end of the loop is never passed by.
PathConfident ==
  pc = "issue" /\ LookaheadWays(WalkRow, walk.confs) # {} => walk.conf >= PFThreshold

\* The turns of the two loops of spp_operate that are left at most: in each hop
\* one reading, one turn per candidate and one end of the hop.
LaterHops(w) == (MaxDepth - w.depth) * (PTWays + 2)

Turns(p, w) ==
  CASE p = "read"  -> LaterHops(w) + PTWays + 2
    [] p = "issue" -> LaterHops(w) + 1 + Cardinality(w.pending)
    [] OTHER       -> 0

TurnsLeft == Turns(pc, walk)

\* What a step of the running prefetcher does to them.
TurnTaken ==
  pc \in {"read", "issue"} =>
    TurnsLeft \in Nat /\ TurnsLeft' \in Nat /\ TurnsLeft' < TurnsLeft

LEMMA PendingFinite ==
  ASSUME NEW w \in Walk
  PROVE  /\ IsFiniteSet(w.pending) /\ Cardinality(w.pending) \in 0 .. PTWays
         /\ w.depth \in 0 .. MaxDepth /\ w.pending \subseteq Nat
<1>1. w.pending \in SUBSET PTWayIds /\ w.depth \in 0 .. MaxDepth
  BY DEF Walk
<1>2. IsFiniteSet(PTWayIds) /\ Cardinality(PTWayIds) = PTWays /\ PTWayIds \subseteq Nat
  BY SizesAssumption, FS_Interval DEF PTWayIds
<1>3. IsFiniteSet(w.pending) /\ Cardinality(w.pending) =< Cardinality(PTWayIds)
  BY <1>1, <1>2, FS_Subset
<1>4. Cardinality(w.pending) \in Nat
  BY <1>3, FS_CardinalityType
<1>5. Cardinality(w.pending) =< PTWays /\ PTWays \in Nat
  BY <1>2, <1>3, SizesAssumption
<1>6. w.pending \subseteq Nat
  BY <1>1, <1>2
<1>7. QED
  BY <1>1, <1>3, <1>4, <1>5, <1>6

LEMMA Products ==
  ASSUME NEW a \in Nat, NEW b \in Nat
  PROVE  a * b \in Nat /\ (a + 1) * b = a * b + b
<1>1. a * b \in Nat
  OBVIOUS
<1>2. (a + 1) * b = a * b + b
  OBVIOUS
<1>3. QED
  BY <1>1, <1>2

LEMMA LaterHopsType ==
  ASSUME NEW w \in Walk
  PROVE  LaterHops(w) \in Nat
<1> DEFINE a == MaxDepth - w.depth
           b == PTWays + 2
<1>1. a \in Nat /\ b \in Nat
  BY PendingFinite, SizesAssumption
<1>2. LaterHops(w) = a * b
  BY DEF LaterHops
<1> HIDE DEF a, b
<1>3. QED
  BY <1>1, <1>2, Products

LEMMA OneHopLess ==
  ASSUME NEW w \in Walk, NEW v \in Walk, v.depth = w.depth + 1
  PROVE  LaterHops(w) = LaterHops(v) + PTWays + 2
<1> DEFINE a == MaxDepth - v.depth
           b == PTWays + 2
<1>1. a \in Nat /\ b \in Nat /\ PTWays \in Nat /\ MaxDepth - w.depth = a + 1
  BY PendingFinite, SizesAssumption
<1>2. LaterHops(w) = (a + 1) * b /\ LaterHops(v) = a * b
  BY <1>1 DEF LaterHops
<1>3. b = PTWays + 2
  OBVIOUS
<1> HIDE DEF a, b
<1>4. a * b \in Nat /\ (a + 1) * b = a * b + b
  BY <1>1, Products
<1>5. QED
  BY <1>1, <1>2, <1>3, <1>4

LEMMA TurnsType ==
  ASSUME NEW w \in Walk, NEW p
  PROVE  Turns(p, w) \in Nat
<1>1. LaterHops(w) \in Nat /\ Cardinality(w.pending) \in Nat /\ PTWays \in Nat
  BY LaterHopsType, PendingFinite, SizesAssumption
<1>2. QED
  BY <1>1 DEF Turns

LEMMA ReadPatternTurn ==
  ASSUME IInv, ReadPattern
  PROVE  PathConfident' /\ TurnsLeft' < TurnsLeft
<1> DEFINE confs == PTConfs(WalkRow, walk.depth, alpha, walk.conf)
           next  == LookaheadWays(WalkRow, confs)
           conf  == IF WalkRow.c_sig = 0 THEN walk.conf
                    ELSE IF next = {} THEN 0
                    ELSE confs[Min(next)]
<1>1. /\ walk \in Walk /\ pc = "read" /\ pc' = "issue" /\ pt' = pt
      /\ walk' = [walk EXCEPT !.confs = confs, !.pending = PTCandidates(WalkRow, confs),
                              !.conf = conf, !.lookahead = FALSE]
  BY DEF ReadPattern, IInv, WalkInv, tables
<1>2. walk' \in Walk
  BY ReadPatternStep DEF WalkInv
<1> HIDE DEF confs
<1>3. ASSUME next # {}
      PROVE  conf >= PFThreshold
  <2>1. Min(next) \in next
    BY <1>3, LookaheadWayFound
  <2>2. WalkRow.c_sig # 0 /\ confs[Min(next)] >= PFThreshold
    BY <2>1 DEF LookaheadWays, PTCandidates
  <2>3. QED
    BY <1>3, <2>2
<1>4. /\ walk'.confs = confs /\ walk'.conf = conf /\ walk'.sig = walk.sig
      /\ walk'.depth = walk.depth
  <2> HIDE DEF conf
  <2> QED  BY <1>1 DEF Walk
<1>5. PathConfident'
  <2>1. WalkRow' = WalkRow
    BY <1>1, <1>4 DEF WalkRow
  <2>2. LookaheadWays(WalkRow, walk.confs)' = next
    BY <1>4, <2>1 DEF LookaheadWays, PTCandidates
  <2> HIDE DEF conf, next
  <2> QED  BY <1>3, <1>4, <2>2 DEF PathConfident
<1>6. TurnsLeft' < TurnsLeft
  <2>1. LaterHops(walk) \in Nat /\ PTWays \in Nat
    BY <1>1, LaterHopsType, SizesAssumption
  <2>2. Cardinality(walk'.pending) \in 0 .. PTWays
    BY <1>2, PendingFinite
  <2>3. LaterHops(walk') = LaterHops(walk)
    BY <1>4 DEF LaterHops
  <2>4. /\ TurnsLeft = LaterHops(walk) + PTWays + 2
        /\ TurnsLeft' = LaterHops(walk') + 1 + Cardinality(walk'.pending)
    BY <1>1 DEF TurnsLeft, Turns, LaterHops
  <2> QED  BY <2>1, <2>2, <2>3, <2>4
<1>7. QED
  BY <1>5, <1>6

LEMMA TakeHeadTurn ==
  ASSUME IInv, PathConfident, TakeHead
  PROVE  PathConfident' /\ TurnsLeft' < TurnsLeft
<1>1. /\ walk \in Walk /\ pc = "issue" /\ walk.pending # {} /\ UNCHANGED <<pt, pc>>
      /\ walk' = [walk EXCEPT !.pending = walk.pending \ {HeadWay}, !.lookahead = TRUE]
  BY DEF TakeHead, IInv, WalkInv
<1>2. /\ walk'.pending = walk.pending \ {HeadWay} /\ walk'.sig = walk.sig
      /\ walk'.confs = walk.confs /\ walk'.conf = walk.conf /\ walk'.depth = walk.depth
  BY <1>1 DEF Walk
<1>3. IsFiniteSet(walk.pending) /\ walk.pending \subseteq Nat
  BY <1>1, PendingFinite
<1>4. HeadWay \in walk.pending
  BY <1>1, <1>3, MinProperty DEF HeadWay
<1>5. /\ Cardinality(walk'.pending) = Cardinality(walk.pending) - 1
      /\ Cardinality(walk.pending) \in Nat
  BY <1>2, <1>3, <1>4, FS_RemoveElement, FS_CardinalityType
<1>6. TurnsLeft' < TurnsLeft
  <2>1. LaterHops(walk) \in Nat /\ LaterHops(walk') = LaterHops(walk)
    BY <1>1, <1>2, LaterHopsType DEF LaterHops
  <2>2. /\ TurnsLeft = LaterHops(walk) + 1 + Cardinality(walk.pending)
        /\ TurnsLeft' = LaterHops(walk') + 1 + Cardinality(walk'.pending)
    BY <1>1 DEF TurnsLeft, Turns, LaterHops
  <2> QED  BY <1>5, <2>1, <2>2
<1>7. PathConfident'
  <2>1. WalkRow' = WalkRow
    BY <1>1, <1>2 DEF WalkRow
  <2>2. LookaheadWays(WalkRow, walk.confs)' = LookaheadWays(WalkRow, walk.confs)
    BY <1>2, <2>1 DEF LookaheadWays, PTCandidates
  <2> QED  BY <1>1, <1>2, <2>2 DEF PathConfident
<1>8. QED
  BY <1>6, <1>7

LEMMA NextHopTurn ==
  ASSUME IInv, PathConfident, NextHop
  PROVE  PathConfident' /\ TurnsLeft' < TurnsLeft
<1>1. /\ walk \in Walk /\ pc = "issue" /\ walk.pending = {}
      /\ pc' \in {"read", "idle"}
  BY DEF NextHop, IInv, WalkInv
<1>2. PathConfident'
  BY <1>1 DEF PathConfident
<1>3. LaterHops(walk) \in Nat /\ walk' \in Walk
  BY <1>1, LaterHopsType, NextHopStep DEF WalkInv
<1>4. TurnsLeft = LaterHops(walk) + 1
  <2>1. Cardinality(walk.pending) = 0
    BY <1>1, FS_EmptySet
  <2> QED  BY <1>1, <1>3, <2>1 DEF TurnsLeft, Turns
<1>5. CASE pc' = "idle"
  <2>1. TurnsLeft' = 0
    BY <1>5 DEF TurnsLeft, Turns
  <2> QED  BY <1>2, <1>3, <1>4, <2>1
<1>6. CASE pc' = "read"
  <2>1. /\ LookaheadWays(WalkRow, walk.confs) # {}
        /\ walk'.depth = IF walk.conf >= PFThreshold THEN walk.depth + 1 ELSE walk.depth
    BY <1>1, <1>6 DEF NextHop, Walk
  <2>2. walk'.depth = walk.depth + 1
    BY <1>1, <2>1 DEF PathConfident
  <2>3. TurnsLeft' = LaterHops(walk') + PTWays + 2
    BY <1>6 DEF TurnsLeft, Turns, LaterHops
  <2>4. LaterHops(walk) = LaterHops(walk') + PTWays + 2
    BY <1>1, <1>3, <2>2, OneHopLess
  <2> QED  BY <1>2, <1>3, <1>4, <2>3, <2>4
<1>7. QED
  BY <1>1, <1>2, <1>5, <1>6

\* Each turn of a loop of spp_operate leaves fewer turns, and nothing else happens
\* between them: the prefetcher is back at its caller after (MaxDepth + 1) *
\* (PTWays + 2) turns at most, whatever is in the tables, whatever the thresholds
\* and however the filter and the queue answer.
THEOREM LookaheadEnds ==
  Spec => [][TurnTaken]_vars
<1>1. Init => PathConfident
  BY DEF Init, PathConfident
<1>2. ASSUME IInv, PathConfident, Step
      PROVE  PathConfident' /\ TurnsLeft' < TurnsLeft
  <2>1. ReadPattern \/ TakeHead \/ NextHop
    BY <1>2 DEF Step, SkipBelowCutoff, SkipFiltered, Issue, CrossPage
  <2> QED  BY <1>2, <2>1, ReadPatternTurn, TakeHeadTurn, NextHopTurn
<1>3. ASSUME [Next]_vars, ~ Step
      PROVE  \/ UNCHANGED <<pt, pc, walk>>
             \/ pc \in {"idle", "done"} /\ pc' # "issue"
  <2>1. CASE UNCHANGED vars
    BY <2>1 DEF vars
  <2>2. ASSUME NEW line \in DemandLines, UL1Miss(line) \/ UL1Hit(line) \/ UL1PrefHit(line)
        PROVE  pc = "idle" /\ pc' # "issue"
    BY <2>2 DEF UL1Miss, UL1Hit, UL1PrefHit, Demand, Operate
  <2>3. ASSUME NEW line \in EvictableLines, Forget(line)
        PROVE  UNCHANGED <<pt, pc, walk>>
    BY <2>3 DEF Forget, tables
  <2>4. CASE Done
    BY <2>4 DEF Done
  <2>5. CASE CallbackAfterDone
    BY <2>5 DEF CallbackAfterDone, vars
  <2>6. QED
    BY <1>3, <2>1, <2>2, <2>3, <2>4, <2>5 DEF Next
<1>4. IInv /\ PathConfident /\ [Next]_vars => PathConfident'
  <2> SUFFICES ASSUME IInv, PathConfident, [Next]_vars
               PROVE  PathConfident'
    OBVIOUS
  <2>1. CASE Step
    BY <1>2, <2>1
  <2>2. CASE UNCHANGED <<pt, pc, walk>>
    BY <2>2 DEF PathConfident, WalkRow, LookaheadWays, PTCandidates
  <2>3. CASE pc' # "issue"
    BY <2>3 DEF PathConfident
  <2> QED  BY <1>3, <2>1, <2>2, <2>3
<1>5. IInv /\ IInv' /\ PathConfident /\ [Next]_vars => [TurnTaken]_vars
  <2> SUFFICES ASSUME IInv, IInv', PathConfident, [Next]_vars,
                      pc \in {"read", "issue"}, ~ UNCHANGED vars
               PROVE  TurnsLeft \in Nat /\ TurnsLeft' \in Nat /\ TurnsLeft' < TurnsLeft
    BY DEF TurnTaken
  <2>1. walk \in Walk /\ walk' \in Walk
    BY DEF IInv, WalkInv
  <2>2. Turns(pc, walk) \in Nat /\ Turns(pc', walk') \in Nat
    BY <2>1, TurnsType
  <2>3. TurnsLeft = Turns(pc, walk) /\ TurnsLeft' = Turns(pc', walk')
    BY DEF TurnsLeft, Turns, LaterHops
  <2>4. Step
    BY DEF Next, UL1Miss, UL1Hit, UL1PrefHit, Demand, Forget, Done, CallbackAfterDone
  <2>5. QED
    BY <1>2, <2>2, <2>3, <2>4
<1>6. Spec => []PathConfident
  BY <1>1, <1>4, Invariance, PTL DEF Spec
<1>7. QED
  BY <1>5, <1>6, Invariance, PTL DEF Spec
=============================================================================
