---------------------------- MODULE NumberProofs ----------------------------
(***************************************************************************)
(* Lemmas about sets of numbers, which the proofs about the page frames    *)
(* and the address spaces need: what is searched for by the code, from the *)
(* lowest index up, exists and is where it is expected.                    *)
(***************************************************************************)
EXTENDS Integers, FiniteSets, FiniteSetTheorems, WellFoundedInduction, TLAPS

\* A set of numbers that is not empty has a least element.
LEMMA LeastExists ==
  ASSUME NEW S \in SUBSET Nat, S # {}
  PROVE  \E x \in S : \A y \in S : x <= y
<1>1. IsWellFoundedOn(OpToRel(<, Nat), Nat)
  BY NatLessThanWellFounded
<1>2. PICK x \in S : \A y \in S : ~ (<<y, x>> \in OpToRel(<, Nat))
  BY <1>1, WFMin
<1>3. ASSUME NEW y \in S PROVE x <= y
  <2>1. ~ (y < x)
    BY <1>2 DEF OpToRel
  <2> QED BY <2>1
<1> QED BY <1>3

\* A set of numbers that is not empty and bounded has a greatest element.
LEMMA GreatestExists ==
  ASSUME NEW bound \in Nat, NEW S \in SUBSET (0..bound), S # {}
  PROVE  \E x \in S : \A y \in S : y <= x
<1> DEFINE Below == {bound - x : x \in S}
<1>1. Below \in SUBSET Nat /\ Below # {}
  <2>1. ASSUME NEW d \in Below PROVE d \in Nat
    <3>1. PICK x \in S : d = bound - x
      OBVIOUS
    <3>2. x \in 0..bound
      OBVIOUS
    <3> QED BY <3>1, <3>2
  <2>2. PICK x \in S : TRUE
    OBVIOUS
  <2> QED BY <2>1, <2>2
<1> HIDE DEF Below
<1>2. PICK d \in Below : \A e \in Below : d <= e
  BY <1>1, LeastExists
<1>3. PICK x \in S : d = bound - x
  BY DEF Below
<1>4. ASSUME NEW y \in S PROVE y <= x
  <2>1. bound - y \in Below
    BY DEF Below
  <2> QED BY <2>1, <1>2, <1>3
<1> QED BY <1>4

\* How many members of S lie below f.
Below(S, f) == {g \in S : g < f}

\* A bounded set, and the part of it below a number, are finite.
LEMMA BelowFinite ==
  ASSUME NEW last \in Nat, NEW S \in SUBSET (0..last), NEW f
  PROVE  /\ IsFiniteSet(S) /\ Cardinality(S) \in Nat
         /\ IsFiniteSet(Below(S, f)) /\ Cardinality(Below(S, f)) \in Nat
         /\ Below(S, f) \in SUBSET (0..last)
<1>1. IsFiniteSet(0..last)
  <2>1. 0 \in Int /\ last \in Int /\ \A a, b \in Int : IsFiniteSet(a..b)
    BY FS_Interval
  <2> QED BY <2>1
<1>2. Below(S, f) \subseteq S
  BY DEF Below
<1>3. IsFiniteSet(S)
  BY <1>1, FS_Subset
<1>4. IsFiniteSet(Below(S, f))
  BY <1>2, <1>3, FS_Subset
<1> QED BY <1>2, <1>3, <1>4, FS_CardinalityType

\* Of two members the greater has more members below it.
LEMMA BelowGrows ==
  ASSUME NEW last \in Nat, NEW S \in SUBSET (0..last), NEW f \in S, NEW h \in S, f < h
  PROVE  Cardinality(Below(S, f)) < Cardinality(Below(S, h))
<1>1. f \in Below(S, h) /\ f \notin Below(S, f) /\ Below(S, f) \subseteq Below(S, h)
  <2>1. \A g \in S : g \in Nat
    OBVIOUS
  <2>2. \A g \in S : g < f => g < h
    BY <2>1
  <2>3. ~ (f < f)
    BY <2>1
  <2> QED BY <2>2, <2>3 DEF Below
<1>2. IsFiniteSet(Below(S, h)) /\ IsFiniteSet(Below(S, f))
      /\ Cardinality(Below(S, f)) \in Nat /\ Cardinality(Below(S, h)) \in Nat
  BY BelowFinite
<1>3. Below(S, f) \subseteq Below(S, h) \ {f}
  BY <1>1
<1>4. IsFiniteSet(Below(S, h) \ {f}) /\ Cardinality(Below(S, h) \ {f}) = Cardinality(Below(S, h)) - 1
  BY <1>1, <1>2, FS_RemoveElement
<1>5. Cardinality(Below(S, f)) <= Cardinality(Below(S, h) \ {f})
  BY <1>3, <1>4, FS_Subset
<1> QED BY <1>2, <1>4, <1>5

\* A finite set of numbers can be counted from the lowest up: for each i there
\* is a member with i - 1 members below it.
LEMMA CountedUp ==
  ASSUME NEW last \in Nat, NEW S \in SUBSET (0..last), NEW i \in 1..Cardinality(S)
  PROVE  \E f \in S : Cardinality(Below(S, f)) = i - 1
<1> DEFINE High == {f \in S : Cardinality(Below(S, f)) >= i - 1}
<1>1. IsFiniteSet(S) /\ Cardinality(S) \in Nat /\ i \in Nat /\ i >= 1
  BY BelowFinite
<1>2. S # {}
  BY <1>1, FS_EmptySet
<1>8. \A y \in S : y \in Nat
  OBVIOUS
<1>3. \A f : Cardinality(Below(S, f)) \in Nat
  BY BelowFinite
<1>4. High # {}
  <2>1. PICK m \in S : \A y \in S : y <= m
    BY <1>2, GreatestExists
  <2>2. Below(S, m) = S \ {m}
    <3>1. \A y \in S : y < m <=> y # m
      BY <1>8, <2>1
    <3> QED BY <3>1 DEF Below
  <2>3. Cardinality(Below(S, m)) = Cardinality(S) - 1
    BY <1>1, <2>2, FS_RemoveElement
  <2> QED BY <1>1, <2>3
<1>5. PICK f \in High : \A h \in High : f <= h
  <2>1. High \in SUBSET Nat
    BY <1>8
  <2> QED BY <1>4, <2>1, LeastExists
<1>6. CASE Cardinality(Below(S, f)) > i - 1
  <2>1. Below(S, f) \in SUBSET (0..last) /\ IsFiniteSet(Below(S, f))
    BY BelowFinite
  <2>2. Below(S, f) # {}
    BY <1>1, <1>6, FS_EmptySet
  <2>3. PICK h \in Below(S, f) : \A y \in Below(S, f) : y <= h
    BY <2>1, <2>2, GreatestExists
  <2>4. h \in S /\ h < f /\ f \in S
    BY <2>3 DEF Below
  <2>5. Below(S, h) = Below(S, f) \ {h}
    <3>1. f \in Nat /\ h \in Nat
      BY <1>8, <2>4
    <3>2. \A y \in S : y < f => y <= h
      BY <2>3 DEF Below
    <3>3. \A y \in S : y < h <=> y < f /\ y # h
      BY <1>8, <2>4, <3>1, <3>2
    <3> QED BY <3>3 DEF Below
  <2>6. Cardinality(Below(S, h)) = Cardinality(Below(S, f)) - 1
    BY <2>1, <2>5, FS_RemoveElement
  <2>7. h \in High
    BY <1>1, <1>3, <1>6, <2>4, <2>6
  <2>8. f <= h
    BY <1>5, <2>7
  <2>9. h \in Nat /\ f \in Nat
    BY <1>8, <2>4
  <2> QED BY <2>4, <2>8, <2>9
<1>7. CASE Cardinality(Below(S, f)) = i - 1
  BY <1>7
<1> QED BY <1>1, <1>3, <1>5, <1>6, <1>7
=============================================================================
