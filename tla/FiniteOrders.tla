---------------------------- MODULE FiniteOrders ----------------------------
(***************************************************************************)
(* What a list with an ORDER BY and a LIMIT rests on: a finite set whose   *)
(* members have integer keys has a member with the greatest key, and parts *)
(* of every size that none of the rest outranks.                           *)
(***************************************************************************)
EXTENDS Integers, FiniteSetTheorems, WellFoundedInduction, TLAPS

\* Induction over finite sets, as a statement about sets: some counterexample has
\* no smaller one.
LEMMA SmallestSubset ==
    ASSUME NEW S, IsFiniteSet(S), NEW Bad \in SUBSET (SUBSET S), Bad # {}
    PROVE  \E U \in Bad : \A V \in Bad : V \subseteq U => V = U
<1>1. \A T \in SUBSET S : IsFiniteSet(T)
  BY FS_Subset
<1>2. Bad \subseteq FiniteSubsetsOf(S)
  BY <1>1 DEF FiniteSubsetsOf
<1>3. PICK U \in Bad : \A V \in Bad : ~ (<<V, U>> \in StrictSubsetOrdering(S))
  BY <1>2, FS_StrictSubsetOrderingWellFounded, WFMin
<1>4. ASSUME NEW V \in Bad, V \subseteq U, V # U
      PROVE  <<V, U>> \in StrictSubsetOrdering(S)
  BY <1>1, <1>4 DEF StrictSubsetOrdering, FiniteSubsetsOf
<1>5. ASSUME NEW V \in Bad, V \subseteq U
      PROVE  V = U
  BY <1>3, <1>4, <1>5
<1> QED
  BY <1>5

\* A finite set that is not empty has a member whose key is the greatest.
LEMMA GreatestKey ==
    ASSUME NEW S, IsFiniteSet(S), S # {}, NEW key, \A x \in S : key[x] \in Int
    PROVE  \E x \in S : \A y \in S : key[x] >= key[y]
<1> DEFINE Tops(U) == {x \in U : \A y \in U : key[x] >= key[y]}
           Bad == {U \in SUBSET S : U # {} /\ Tops(U) = {}}
<1>1. SUFFICES ASSUME Bad # {}
               PROVE  FALSE
  OBVIOUS
<1>2. Bad \in SUBSET (SUBSET S)
  OBVIOUS
<1> HIDE DEF Bad
<1>3. PICK U \in Bad : \A V \in Bad : V \subseteq U => V = U
  BY <1>1, <1>2, SmallestSubset
<1> USE DEF Bad
<1>4. PICK u \in U : TRUE
  OBVIOUS
<1>5. U \ {u} \notin Bad
  BY <1>3, <1>4
<1>6. CASE U \ {u} = {}
  <2>1. U = {u} /\ key[u] \in Int
    BY <1>4, <1>6
  <2> QED
    BY <2>1
<1>7. CASE U \ {u} # {}
  <2>1. PICK x \in U \ {u} : \A y \in U \ {u} : key[x] >= key[y]
    BY <1>5, <1>7
  <2>2. \A y \in U : key[y] \in Int
    OBVIOUS
  <2>3. x \in Tops(U) \/ u \in Tops(U)
    BY <1>4, <2>1, <2>2
  <2> QED
    BY <2>3
<1> QED
  BY <1>6, <1>7

\* Induction over the natural numbers, as a statement about sets.
LEMMA LeastNatural ==
    ASSUME NEW T \in SUBSET Nat, T # {}
    PROVE  \E n \in T : \A m \in T : n <= m
<1>1. PICK n \in T : TRUE
  OBVIOUS
<1> DEFINE S == {x \in T : x <= n}
           key == [x \in S |-> 0 - x]
<1>2. IsFiniteSet(0..n)
  BY FS_Interval
<1>3. \A x \in T : x \in Nat
  OBVIOUS
<1>4. n \in S /\ \A x \in S : x \in 0..n
  BY <1>1, <1>3
<1>5. IsFiniteSet(S) /\ \A x \in S : key[x] \in Int
  <2>1. IsFiniteSet(S)
    <3>1. S \subseteq 0..n
      BY <1>4
    <3> HIDE DEF S
    <3> QED
      BY <1>2, <3>1, FS_Subset
  <2>2. \A x \in S : x \in Int
    BY <1>3
  <2> QED
    BY <2>1, <2>2
<1>6. \E x \in S : \A y \in S : key[x] >= key[y]
  <2> HIDE DEF S, key
  <2> QED
    BY <1>4, <1>5, GreatestKey
<1>7. PICK x \in S : \A y \in S : 0 - x >= 0 - y
  BY <1>6
<1> QED
  BY <1>1, <1>3, <1>7

\* A finite set with integer keys has, for every size up to its own, a part of that
\* size that no member outside outranks: what ORDER BY and LIMIT return exists.
LEMMA TopPart ==
    ASSUME NEW S, IsFiniteSet(S), NEW key, \A x \in S : key[x] \in Int,
           NEW k \in Nat, k <= Cardinality(S)
    PROVE  \E P \in SUBSET S :
             Cardinality(P) = k /\ \A p \in P, q \in S \ P : key[p] >= key[q]
<1> DEFINE Top(n) == \E P \in SUBSET S :
                       Cardinality(P) = n /\ \A p \in P, q \in S \ P : key[p] >= key[q]
           Bad == {n \in Nat : n <= Cardinality(S) /\ ~ Top(n)}
<1>1. SUFFICES ASSUME Bad # {}
               PROVE  FALSE
  OBVIOUS
<1>2. PICK n \in Bad : \A m \in Bad : n <= m
  <2>1. Bad \in SUBSET Nat
    OBVIOUS
  <2> HIDE DEF Bad
  <2> QED
    BY <1>1, <2>1, LeastNatural
<1>3. Cardinality(S) \in Nat
  BY FS_CardinalityType
<1>4. n # 0
  <2>1. Cardinality({}) = 0
    BY FS_EmptySet
  <2>2. Top(0)
    BY <2>1
  <2> QED
    BY <2>2
<1>5. n \in Nat /\ n - 1 \in Nat /\ n <= Cardinality(S) /\ n - 1 <= Cardinality(S)
  BY <1>3, <1>4
<1>6. n - 1 \notin Bad
  BY <1>2, <1>5
<1>7. Top(n - 1)
  BY <1>5, <1>6
<1>8. PICK P \in SUBSET S : /\ Cardinality(P) = n - 1
                            /\ \A p \in P, q \in S \ P : key[p] >= key[q]
  BY <1>7
<1>9. IsFiniteSet(P) /\ IsFiniteSet(S \ P) /\ S \ P # {}
  <2>1. IsFiniteSet(P) /\ IsFiniteSet(S \ P)
    BY FS_Subset
  <2>2. P # S
    BY <1>3, <1>5, <1>8
  <2> QED
    BY <2>1, <2>2
<1>10. PICK x \in S \ P : \A y \in S \ P : key[x] >= key[y]
  BY <1>9, GreatestKey
<1>11. Cardinality(P \cup {x}) = n
  <2>1. Cardinality(P \cup {x}) = Cardinality(P) + 1
    BY <1>8, <1>9, <1>10, FS_AddElement
  <2> QED
    BY <1>5, <1>8, <2>1
<1>12. ASSUME NEW p \in P \cup {x}, NEW q \in S \ (P \cup {x})
       PROVE  key[p] >= key[q]
  BY <1>8, <1>10, <1>12
<1>13. Top(n)
  <2>1. P \cup {x} \in SUBSET S
    BY <1>10
  <2> QED
    BY <1>11, <1>12, <2>1
<1> QED
  BY <1>13

\* A function takes finitely many values on a finite set.
LEMMA FiniteImage ==
    ASSUME NEW S, IsFiniteSet(S), NEW f
    PROVE  IsFiniteSet({f[x] : x \in S})
<1> DEFINE T == {f[x] : x \in S}
           g == [x \in S |-> f[x]]
<1>1. g \in Surjection(S, T)
  BY DEF Surjection
<1> HIDE DEF T, g
<1>2. IsFiniteSet(T)
  BY <1>1, FS_Surjection
<1> QED
  BY <1>2 DEF T

\* The least of finitely many integers is one of them, and so is the greatest.
LEMMA LeastExists ==
    ASSUME NEW S \in SUBSET Int, IsFiniteSet(S), S # {}
    PROVE  \E x \in S : \A y \in S : x <= y
<1> DEFINE key == [x \in S |-> 0 - x]
<1>1. \A x \in S : key[x] \in Int
  OBVIOUS
<1>2. \E x \in S : \A y \in S : key[x] >= key[y]
  <2> HIDE DEF key
  <2> QED
    BY <1>1, GreatestKey
<1> QED
  BY <1>2

LEMMA GreatestExists ==
    ASSUME NEW S \in SUBSET Int, IsFiniteSet(S), S # {}
    PROVE  \E x \in S : \A y \in S : x >= y
<1> DEFINE key == [x \in S |-> x]
<1>1. \A x \in S : key[x] \in Int
  OBVIOUS
<1>2. \E x \in S : \A y \in S : key[x] >= key[y]
  <2> HIDE DEF key
  <2> QED
    BY <1>1, GreatestKey
<1> QED
  BY <1>2
=============================================================================
