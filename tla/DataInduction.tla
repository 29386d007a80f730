--------------------------- MODULE DataInduction ---------------------------
(***************************************************************************)
(* Induction for the proof modules, stated about sets instead of           *)
(* predicates so that a proof can instantiate it: what holds of a number   *)
(* or of a finite set is the membership in the set of those it holds of.   *)
(* Everything rests on the least-number principle, which the library's     *)
(* well-foundedness of strict inclusion gives.                             *)
(***************************************************************************)
EXTENDS Naturals, FiniteSets, FiniteSetTheorems, WellFoundedInduction, TLAPS

\* A nonempty set of natural numbers has a least element.
LEMMA LeastNumber ==
  ASSUME NEW S, S \subseteq Nat, S # {}
  PROVE  \E m \in S : \A n \in S : m <= n
<1> DEFINE R == StrictSubsetOrdering(Nat)
           D == FiniteSubsetsOf(Nat)
           T == {0..n : n \in S}
<1>1. IsWellFoundedOn(R, D)
  BY FS_StrictSubsetOrderingWellFounded
<1>2. T \subseteq D
  <2>1. ASSUME NEW n \in S PROVE 0..n \in FiniteSubsetsOf(Nat)
    <3>1. 0 \in Int /\ n \in Int
      OBVIOUS
    <3>2. IsFiniteSet(0..n)
      BY <3>1, FS_Interval
    <3>3. 0..n \in SUBSET Nat
      OBVIOUS
    <3> QED BY <3>2, <3>3 DEF FiniteSubsetsOf
  <2> QED BY <2>1
<1>3. T # {}
  OBVIOUS
<1>4. PICK x \in T : \A y \in T : ~ (<<y, x>> \in R)
  <2> HIDE DEF R, D, T
  <2> QED BY <1>1, <1>2, <1>3, WFMin, Zenon
<1>5. PICK m \in S : x = 0..m
  OBVIOUS
<1>6. ASSUME NEW n \in S, n < m PROVE FALSE
  <2>1. 0..n \subseteq 0..m /\ 0..n # 0..m
    BY <1>6
  <2>2. 0..n \in SUBSET Nat /\ 0..m \in SUBSET Nat
    OBVIOUS
  <2>3. <<0..n, x>> \in R
    BY <2>1, <2>2, <1>5 DEF StrictSubsetOrdering
  <2> QED BY <1>4, <2>3
<1> QED BY <1>6

\* A set with 0 and the successors of its numbers holds every natural number.
LEMMA NumberInduction ==
  ASSUME NEW S, 0 \in S, \A n \in S \intersect Nat : n + 1 \in S
  PROVE  \A n \in Nat : n \in S
<1> SUFFICES ASSUME Nat \ S # {} PROVE FALSE
  OBVIOUS
<1>1. PICK m \in Nat \ S : \A n \in Nat \ S : m <= n
  BY LeastNumber
<1>2. m - 1 \in Nat /\ m - 1 \notin Nat \ S
  BY <1>1
<1> QED BY <1>1, <1>2

\* A family with the empty set, closed under the addition of an element of S,
\* has S in it when S is finite.
LEMMA FiniteInduction ==
  ASSUME NEW S, IsFiniteSet(S), NEW P, {} \in P,
         \A T \in P : \A x \in S \ T : T \union {x} \in P
  PROVE  S \in P
<1> DEFINE N == {n \in Nat : \A T \in SUBSET S : Cardinality(T) = n => T \in P}
<1>0. \A T \in SUBSET S : IsFiniteSet(T) /\ Cardinality(T) \in Nat
  BY FS_Subset, FS_CardinalityType
<1>1. 0 \in N
  BY <1>0, FS_EmptySet
<1>2. ASSUME NEW n \in N \intersect Nat PROVE n + 1 \in N
  <2>1. SUFFICES ASSUME NEW T \in SUBSET S, Cardinality(T) = n + 1 PROVE T \in P
    OBVIOUS
  <2>2. PICK x \in T : TRUE
    BY <2>1, <1>0, FS_EmptySet
  <2>3. Cardinality(T \ {x}) = n
    BY <2>1, <2>2, <1>0, FS_RemoveElement
  <2>4. T \ {x} \in P
    BY <2>3, <1>2
  <2>5. T = (T \ {x}) \union {x}
    BY <2>2
  <2>6. x \in S \ (T \ {x})
    BY <2>2
  <2> QED BY <2>4, <2>5, <2>6
<1>3. \A n \in Nat : n \in N
  <2> HIDE DEF N
  <2> QED BY <1>1, <1>2, NumberInduction
<1> QED BY <1>3, <1>0

\* What holds of a set once it holds of all its proper subsets, holds of a finite set.
LEMMA SubsetInduction ==
  ASSUME NEW S, IsFiniteSet(S), NEW P,
         \A r \in SUBSET S : (\A q \in SUBSET r : q # r => q \in P) => r \in P
  PROVE  \A r \in SUBSET S : r \in P
<1> SUFFICES ASSUME NEW r \in SUBSET S, r \notin P PROVE FALSE
  OBVIOUS
<1> DEFINE D == {q \in SUBSET S : q \notin P}
           N == {Cardinality(q) : q \in D}
<1>1. \A q \in SUBSET S : IsFiniteSet(q) /\ Cardinality(q) \in Nat
  BY FS_Subset, FS_CardinalityType
<1>2. N \subseteq Nat /\ N # {}
  <2>1. r \in D
    OBVIOUS
  <2>2. \A q \in D : Cardinality(q) \in Nat
    BY <1>1
  <2> HIDE DEF D
  <2> QED BY <2>1, <2>2
<1>3. PICK n \in N : \A k \in N : n <= k
  <2> HIDE DEF N
  <2> QED BY <1>2, LeastNumber
<1>4. PICK q \in D : n = Cardinality(q)
  BY <1>3
<1>5. ASSUME NEW p \in SUBSET q, p # q PROVE p \in P
  <2>1. p \in SUBSET S /\ Cardinality(p) <= Cardinality(q) /\ Cardinality(p) # Cardinality(q)
    BY <1>1, <1>5, FS_Subset
  <2>2. p \notin P => n <= Cardinality(p)
    BY <1>3, <2>1
  <2>3. Cardinality(p) \in Nat /\ Cardinality(q) \in Nat
    BY <1>1, <2>1
  <2> QED BY <1>4, <2>1, <2>2, <2>3
<1> QED BY <1>4, <1>5

\* The function that a recursion over 0..n defines exists: its values are those
\* of n steps, each a function of X into X.
LEMMA RecursionExists ==
  ASSUME NEW X, NEW a \in X, NEW n \in Nat, NEW step \in [1..n -> [X -> X]]
  PROVE  \E f \in [0..n -> X] : f[0] = a /\ \A i \in 1..n : f[i] = step[i][f[i - 1]]
<1> DEFINE Defined(k, f) == f[0] = a /\ \A i \in 1..k : f[i] = step[i][f[i - 1]]
           N == {k \in Nat : k <= n => \E f \in [0..k -> X] : Defined(k, f)}
<1>1. 0 \in N
  <2>1. [i \in 0..0 |-> a] \in [0..0 -> X] /\ Defined(0, [i \in 0..0 |-> a])
    OBVIOUS
  <2> QED BY <2>1
<1>2. ASSUME NEW k \in N \intersect Nat PROVE k + 1 \in N
  <2>1. ASSUME k + 1 <= n
        PROVE  \E f \in [0..(k + 1) -> X] : Defined(k + 1, f)
    <3>2. PICK f \in [0..k -> X] : Defined(k, f)
      BY <2>1
    <3> DEFINE g == [i \in 0..(k + 1) |-> IF i <= k THEN f[i] ELSE step[k + 1][f[k]]]
    <3>3. f[k] \in X /\ step[k + 1] \in [X -> X]
      BY <2>1
    <3>4. g \in [0..(k + 1) -> X]
      BY <3>3
    <3>5. ASSUME NEW i \in 1..(k + 1)
          PROVE  g[i] = step[i][g[i - 1]]
      <4>2. CASE i \in 1..k
        <5>1. i - 1 \in 0..k /\ g[i - 1] = f[i - 1] /\ g[i] = f[i]
          BY <4>2
        <5> QED BY <5>1, <4>2, <3>2
      <4>3. CASE i = k + 1
        <5>1. g[k] = f[k] /\ g[i] = step[k + 1][f[k]]
          BY <4>3
        <5> QED BY <5>1, <4>3
      <4> QED BY <4>2, <4>3
    <3>6. Defined(k + 1, g)
      BY <3>2, <3>5
    <3> QED BY <3>4, <3>6
  <2>2. k + 1 \in Nat
    OBVIOUS
  <2> HIDE DEF Defined
  <2> QED BY <2>1, <2>2
<1>3. n \in N
  <2> HIDE DEF N
  <2> QED BY <1>1, <1>2, NumberInduction
<1> QED BY <1>3
=============================================================================
