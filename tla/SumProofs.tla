------------------------------ MODULE SumProofs ------------------------------
(***************************************************************************)
(* Sums over finite sets.  A fold takes the elements of a set out one by   *)
(* one.  That the partial sums exist, and what they are, is shown by       *)
(* looking at a smallest number, or a smallest set, at which it might fail *)
(* to be so; the theorem WFMin of the library provides that one.           *)
(***************************************************************************)
EXTENDS Integers, FiniteSets, WellFoundedInduction, FiniteSetTheorems, TLAPS

LEMMA LeastElement ==
  ASSUME NEW S \in SUBSET Nat, S # {}
  PROVE  \E x \in S : \A y \in S : x =< y
<1> DEFINE R == OpToRel(<, Nat)
<1>1. IsWellFoundedOn(R, Nat)
  BY NatLessThanWellFounded, Zenon
<1>2. \A x, y \in Nat : y < x => <<y, x>> \in R
  BY DEF OpToRel
<1> HIDE DEF R
<1>3. \E x \in S : \A y \in S : ~(<<y, x>> \in R)
  BY <1>1, WFMin
<1>4. PICK x \in S : \A y \in S : ~(<<y, x>> \in R)
  BY <1>3
<1>5. ASSUME NEW y \in S PROVE x =< y
  <2>1. x \in Nat /\ y \in Nat /\ ~(y < x)
    BY <1>2, <1>4
  <2> QED BY <2>1
<1> QED BY <1>5

Some(s) == CHOOSE x \in s : TRUE

\* g holds the sums of f over the sets in D.
SetSums(g, f, D) ==
  g = [s \in D |-> IF s = {} THEN 0 ELSE f[Some(s)] + g[s \ {Some(s)}]]

\* A nonempty family of subsets of a finite set has a member none of whose proper
\* subsets belongs to it.
LEMMA SmallestMember ==
  ASSUME NEW S, IsFiniteSet(S), NEW Bad \in SUBSET SUBSET S, Bad # {}
  PROVE  \E s \in Bad : \A u \in SUBSET S : u \subseteq s /\ u # s => u \notin Bad
<1> DEFINE Sizes == {Cardinality(s) : s \in Bad}
<1>1. \A s \in SUBSET S : IsFiniteSet(s) /\ Cardinality(s) \in Nat
  BY FS_Subset, FS_CardinalityType
<1>2. Sizes \in SUBSET Nat /\ Sizes # {}
  BY <1>1
<1>3. PICK n \in Sizes : \A m \in Sizes : n =< m
  <2> HIDE DEF Sizes
  <2> QED BY <1>2, LeastElement
<1>4. PICK s \in Bad : n = Cardinality(s)
  BY <1>3
<1>5. ASSUME NEW u \in SUBSET S, u \subseteq s, u # s, u \in Bad
      PROVE  FALSE
  <2>1. Cardinality(u) <= Cardinality(s) /\ Cardinality(u) # Cardinality(s)
    BY <1>1, <1>5, FS_Subset
  <2>2. Cardinality(s) =< Cardinality(u)
    BY <1>3, <1>4, <1>5
  <2> QED BY <1>1, <1>5, <2>1, <2>2
<1> QED BY <1>4, <1>5

SmallSets(S, n) == {s \in SUBSET S : Cardinality(s) <= n}

LEMMA OneOut ==
  ASSUME NEW S, IsFiniteSet(S), NEW s \in SUBSET S, s # {}
  PROVE  /\ Some(s) \in s /\ s \ {Some(s)} \in SUBSET S
         /\ s \ {Some(s)} \subseteq s /\ s \ {Some(s)} # s
         /\ Cardinality(s) \in Nat \ {0}
         /\ Cardinality(s \ {Some(s)}) = Cardinality(s) - 1
<1>1. Some(s) \in s
  BY DEF Some
<1>2. IsFiniteSet(s) /\ Cardinality(s) \in Nat
  BY FS_Subset, FS_CardinalityType
<1>3. Cardinality(s) # 0
  BY <1>2, FS_EmptySet
<1>4. Cardinality(s \ {Some(s)}) = Cardinality(s) - 1
  BY <1>1, <1>2, FS_RemoveElement
<1> QED BY <1>1, <1>2, <1>3, <1>4

LEMMA SetSumsExist ==
  ASSUME NEW S, IsFiniteSet(S), NEW f, NEW n \in Nat
  PROVE  \E g : SetSums(g, f, SmallSets(S, n))
<1> DEFINE Bad == {k \in Nat : ~ \E g : SetSums(g, f, SmallSets(S, k))}
<1> SUFFICES ASSUME Bad # {} PROVE FALSE
  OBVIOUS
<1>1. PICK k \in Bad : \A j \in Bad : k =< j
  BY LeastElement
<1>2. CASE k = 0
  <2> DEFINE g == [s \in SmallSets(S, k) |-> 0]
  <2>1. ASSUME NEW s \in SmallSets(S, k) PROVE s = {}
    <3>1. s \in SUBSET S /\ Cardinality(s) <= 0
      BY <1>2 DEF SmallSets
    <3>2. s # {} => Cardinality(s) \in Nat \ {0}
      BY <3>1, OneOut
    <3> QED BY <3>1, <3>2
  <2>2. SetSums(g, f, SmallSets(S, k))
    BY <2>1 DEF SetSums
  <2> QED BY <1>1, <2>2
<1>3. CASE k # 0
  <2>1. k \in Nat /\ k - 1 \in Nat /\ k - 1 \notin Bad
    BY <1>1, <1>3
  <2>2. PICK h : SetSums(h, f, SmallSets(S, k - 1))
    BY <2>1
  <2> DEFINE next(s) == IF s = {} THEN 0 ELSE f[Some(s)] + h[s \ {Some(s)}]
             g == [s \in SmallSets(S, k) |-> next(s)]
  <2>3. \A s \in SmallSets(S, k - 1) : h[s] = next(s) /\ s \in SmallSets(S, k)
    <3>1. \A s \in SmallSets(S, k - 1) : h[s] = next(s)
      BY <2>2 DEF SetSums
    <3>2. ASSUME NEW s \in SUBSET S, Cardinality(s) <= k - 1 PROVE Cardinality(s) <= k
      <4>1. Cardinality(s) \in Nat
        BY FS_Subset, FS_CardinalityType
      <4> QED BY <2>1, <3>2, <4>1
    <3>3. \A s \in SmallSets(S, k - 1) : s \in SmallSets(S, k)
      BY <3>2 DEF SmallSets
    <3> HIDE DEF next
    <3> QED BY <3>1, <3>3
  <2>4. \A s \in SmallSets(S, k) : s # {} => s \ {Some(s)} \in SmallSets(S, k - 1)
    BY <2>1, OneOut DEF SmallSets
  <2>5. \A s \in SmallSets(S, k - 1) : g[s] = h[s]
    BY <2>3
  <2>6. \A s \in SmallSets(S, k) :
          g[s] = IF s = {} THEN 0 ELSE f[Some(s)] + g[s \ {Some(s)}]
    BY <2>4, <2>5
  <2>7. g = [s \in SmallSets(S, k) |-> g[s]]
    OBVIOUS
  <2> HIDE DEF g
  <2>8. SetSums(g, f, SmallSets(S, k))
    BY <2>6, <2>7 DEF SetSums
  <2> QED BY <1>1, <2>8
<1> QED BY <1>2, <1>3

LEMMA AllSumsExist ==
  ASSUME NEW S, IsFiniteSet(S), NEW f
  PROVE  \E g : SetSums(g, f, SUBSET S)
<1>1. PICK n \in Nat : n = Cardinality(S) /\ SmallSets(S, n) = SUBSET S
  BY FS_Subset, FS_CardinalityType DEF SmallSets
<1>2. \E g : SetSums(g, f, SmallSets(S, n))
  BY SetSumsExist
<1> QED BY <1>1, <1>2

\* A sum of integers is an integer.
LEMMA SetSumsAreInt ==
  ASSUME NEW S, IsFiniteSet(S), NEW f \in [S -> Int], NEW g, SetSums(g, f, SUBSET S)
  PROVE  g[S] \in Int
<1> DEFINE Bad == {s \in SUBSET S : g[s] \notin Int}
<1>1. Bad = {}
  <2> SUFFICES ASSUME Bad # {} PROVE FALSE
    OBVIOUS
  <2>1. PICK s \in Bad : \A u \in SUBSET S : u \subseteq s /\ u # s => u \notin Bad
    <3>1. Bad \in SUBSET SUBSET S
      OBVIOUS
    <3> HIDE DEF Bad
    <3> QED BY <3>1, SmallestMember
  <2>2. g[s] = IF s = {} THEN 0 ELSE f[Some(s)] + g[s \ {Some(s)}]
    BY <2>1 DEF SetSums
  <2>3. s # {}
    BY <2>1, <2>2
  <2>4. Some(s) \in S /\ g[s \ {Some(s)}] \in Int
    BY <2>1, <2>3, OneOut
  <2> QED BY <2>1, <2>2, <2>3, <2>4
<1> QED BY <1>1
=============================================================================
