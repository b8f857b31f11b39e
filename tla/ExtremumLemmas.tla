--------------------------- MODULE ExtremumLemmas ---------------------------
(***************************************************************************)
(* Every nonempty set of naturals has a least element, which is its Min,   *)
(* and a function into the naturals attains its bounds.  The loops of the  *)
(* simulator that look for "the first way such that ..." and "the entry    *)
(* with the lowest confidence" are modelled by Min; the lemmas say that    *)
(* such a search finds something.                                          *)
(***************************************************************************)
EXTENDS Integers, FiniteSetsExt, WellFoundedInduction, TLAPS

\* The first element found by a loop that counts up from 0.
LEMMA MinProperty ==
  ASSUME NEW S, S \subseteq Nat, S # {}
  PROVE  /\ Min(S) \in S
         /\ \A y \in S : Min(S) =< y
<1> DEFINE R == {p \in Nat \X Nat : p[1] < p[2]}
<1>1. OpToRel(<, Nat) = R
  BY DEF OpToRel
<1>2. IsWellFoundedOn(R, Nat)
  BY <1>1, NatLessThanWellFounded
<1>3. \E x \in S : \A y \in S : <<y, x>> \notin R
  <2> HIDE DEF R
  <2> QED  BY <1>2, WFMin
<1>4. \E x \in S : \A y \in S : x =< y
  <2>1. PICK x \in S : \A y \in S : <<y, x>> \notin R
    BY <1>3
  <2>2. ASSUME NEW y \in S, y < x
        PROVE  FALSE
    <3>1. <<y, x>> \in R
      BY <2>2
    <3> QED  BY <2>1, <3>1
  <2>3. QED
    BY <2>2
<1>5. QED
  BY <1>4 DEF Min

\* The element a scan for the smallest value stops at.
LEMMA MinimumAttained ==
  ASSUME NEW S, S # {}, NEW f \in [S -> Nat]
  PROVE  \E x \in S : \A y \in S : f[x] =< f[y]
<1> DEFINE V == {f[x] : x \in S}
<1>1. V \subseteq Nat /\ V # {}
  OBVIOUS
<1>2. Min(V) \in V /\ \A y \in V : Min(V) =< y
  <2> HIDE DEF V
  <2> QED  BY <1>1, MinProperty
<1>3. PICK x \in S : f[x] = Min(V)
  BY <1>2
<1>4. QED
  BY <1>2, <1>3

\* The element a scan for the largest value stops at.
LEMMA MaximumAttained ==
  ASSUME NEW S, S # {}, NEW b \in Nat, NEW f \in [S -> 0 .. b]
  PROVE  \E x \in S : \A y \in S : f[y] =< f[x]
<1> DEFINE g == [x \in S |-> b - f[x]]
<1>1. g \in [S -> Nat]
  OBVIOUS
<1>2. PICK x \in S : \A y \in S : g[x] =< g[y]
  <2> HIDE DEF g
  <2> QED  BY <1>1, MinimumAttained
<1>3. QED
  BY <1>2
=============================================================================
