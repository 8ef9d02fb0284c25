-------------------------- MODULE Counting_proofs ---------------------------
(***************************************************************************)
(* What a sum becomes when an argument is added or a value changes, and    *)
(* what a selection from a list has of the list.                           *)
(***************************************************************************)
EXTENDS Counting, FiniteSetTheorems, TLAPS

NatsOn(f, S) == IsFiniteSet(S) /\ \A s \in S : f[s] \in Nat

LEMMA UnitsOfOne ==
    ASSUME NEW s, NEW n \in Nat
    PROVE  IsFiniteSet({s} \X (1..n)) /\ Cardinality({s} \X (1..n)) = n
<1>1. IsFiniteSet({s}) /\ Cardinality({s}) = 1
  BY FS_Singleton
<1>2. IsFiniteSet(1..n) /\ Cardinality(1..n) = n
  BY FS_Interval
<1>3. /\ IsFiniteSet({s} \X (1..n))
      /\ Cardinality({s} \X (1..n)) = Cardinality({s}) * Cardinality(1..n)
  BY <1>1, <1>2, FS_Product
<1>4. QED
  BY <1>1, <1>2, <1>3

LEMMA UnitsFinite ==
    ASSUME NEW f, NEW S, NatsOn(f, S) PROVE IsFiniteSet(Units(f, S))
<1> DEFINE T == {{s} \X (1..f[s]) : s \in S}
           g == [s \in S |-> {s} \X (1..f[s])]
<1>1. g \in Surjection(S, T)
  BY DEF Surjection
<1>2. IsFiniteSet(T)
  BY <1>1, FS_Surjection DEF NatsOn
<1>3. \A X \in T : IsFiniteSet(X)
  <2>1. \A s \in S : IsFiniteSet({s} \X (1..f[s]))
    BY UnitsOfOne DEF NatsOn
  <2>2. QED
    BY <2>1
<1>4. Units(f, S) = UNION T
  BY DEF Units
<1> HIDE DEF T
<1>5. QED
  BY <1>2, <1>3, <1>4, FS_UNION

\* A sum is a natural number, and 0 over the empty set.
LEMMA SumType == ASSUME NEW f, NEW S, NatsOn(f, S) PROVE SumOver(f, S) \in Nat
  BY UnitsFinite, FS_CardinalityType DEF SumOver

LEMMA SumOfNone == \A f : SumOver(f, {}) = 0
<1> TAKE f
<1>1. Units(f, {}) = {}
  BY DEF Units
<1>2. QED
  BY <1>1, FS_EmptySet DEF SumOver

\* Only the values on the set matter.
LEMMA SumSame ==
    ASSUME NEW f, NEW g, NEW S, \A s \in S : f[s] = g[s]
    PROVE  SumOver(f, S) = SumOver(g, S)
<1>1. \A s \in S : {s} \X (1..f[s]) = {s} \X (1..g[s])
  OBVIOUS
<1>2. Units(f, S) = Units(g, S)
  BY <1>1 DEF Units
<1>3. QED
  BY <1>2 DEF SumOver

LEMMA SumAdd ==
    ASSUME NEW f, NEW S, NatsOn(f, S), NEW s, s \notin S, f[s] \in Nat
    PROVE  SumOver(f, S \cup {s}) = SumOver(f, S) + f[s]
<1> DEFINE U == Units(f, S)
           V == {s} \X (1..f[s])
<1>1. Units(f, S \cup {s}) = U \cup V
  BY DEF Units
<1>2. U \cap V = {}
  BY DEF Units
<1>3. IsFiniteSet(U) /\ IsFiniteSet(V) /\ Cardinality(V) = f[s]
  BY UnitsFinite, UnitsOfOne
<1>4. Cardinality(U \cup V) = Cardinality(U) + Cardinality(V) - Cardinality(U \cap V)
  BY <1>3, FS_Union
<1>5. Cardinality(U) \in Nat
  BY <1>3, FS_CardinalityType
<1>6. Cardinality(U \cap V) = 0
  BY <1>2, FS_EmptySet
<1>7. SumOver(f, S \cup {s}) = Cardinality(U \cup V) /\ SumOver(f, S) = Cardinality(U)
  BY <1>1 DEF SumOver
<1> HIDE DEF U, V
<1>8. QED
  BY <1>3, <1>4, <1>5, <1>6, <1>7

LEMMA SumRemove ==
    ASSUME NEW f, NEW S, NatsOn(f, S), NEW s \in S
    PROVE  SumOver(f, S \ {s}) = SumOver(f, S) - f[s]
<1> DEFINE T == S \ {s}
<1>1. NatsOn(f, T)
  BY FS_RemoveElement DEF NatsOn
<1>2. S = T \cup {s} /\ s \notin T /\ f[s] \in Nat
  BY DEF NatsOn
<1> HIDE DEF T
<1>3. SumOver(f, S) = SumOver(f, T) + f[s]
  BY <1>1, <1>2, SumAdd
<1>4. SumOver(f, T) \in Nat
  BY <1>1, SumType
<1>5. QED
  BY <1>2, <1>3, <1>4 DEF T

\* One value changes.
LEMMA SumChange ==
    ASSUME NEW f, NEW g, NEW S, NatsOn(f, S), NEW s \in S, g[s] \in Nat,
           \A r \in S \ {s} : f[r] = g[r]
    PROVE  SumOver(g, S) = SumOver(f, S) - f[s] + g[s]
<1> DEFINE T == S \ {s}
<1>1. IsFiniteSet(T) /\ NatsOn(f, T) /\ NatsOn(g, T)
  BY FS_RemoveElement DEF NatsOn
<1>2. SumOver(f, T) = SumOver(g, T)
  BY SumSame
<1>3. S = T \cup {s} /\ s \notin T /\ f[s] \in Nat
  BY DEF NatsOn
<1> HIDE DEF T
<1>4. /\ SumOver(f, S) = SumOver(f, T) + f[s]
      /\ SumOver(g, S) = SumOver(g, T) + g[s]
  BY <1>1, <1>3, SumAdd
<1>5. SumOver(f, T) \in Nat
  BY <1>1, SumType
<1>6. QED
  BY <1>2, <1>3, <1>4, <1>5

\* A sum over fewer is not larger.
LEMMA SumOfFewer ==
    ASSUME NEW f, NEW S, NatsOn(f, S), NEW T, T \subseteq S
    PROVE  SumOver(f, T) <= SumOver(f, S)
<1>1. Units(f, T) \subseteq Units(f, S)
  BY DEF Units
<1>2. QED
  BY <1>1, UnitsFinite, FS_Subset DEF SumOver

\* Nor is a sum of smaller values.
LEMMA SumOfSmaller ==
    ASSUME NEW f, NEW g, NEW S, NatsOn(f, S), NatsOn(g, S),
           \A s \in S : g[s] <= f[s]
    PROVE  SumOver(g, S) <= SumOver(f, S)
<1>1. \A s \in S : 1..g[s] \subseteq 1..f[s]
  BY DEF NatsOn
<1>2. Units(g, S) \subseteq Units(f, S)
  BY <1>1 DEF Units
<1>3. QED
  BY <1>2, UnitsFinite, FS_Subset DEF SumOver
-----------------------------------------------------------------------------
(* Selections.                                                             *)

\* Each rank is that of one of the numbers.
LEMMA RankOnto ==
    ASSUME NEW n \in Nat, NEW K \in SUBSET (1..n)
    PROVE  /\ IsFiniteSet(K) /\ Cardinality(K) \in Nat
           /\ \A i \in 1..Cardinality(K) : \E k \in K : Rank(K, k) = i
<1> DEFINE c == Cardinality(K)
           UpTo(k) == {j \in K : j <= k}
           f == [k \in K |-> Rank(K, k)]
<1>1. IsFiniteSet(K) /\ c \in Nat
  <2>1. IsFiniteSet(1..n)
    BY FS_Interval
  <2>2. IsFiniteSet(K)
    BY <2>1, FS_Subset
  <2>3. QED
    BY <2>2, FS_CardinalityType
<1>2. ASSUME NEW k \in K PROVE IsFiniteSet(UpTo(k)) /\ Rank(K, k) \in 1..c
  <2>1. UpTo(k) \in SUBSET K /\ k \in UpTo(k)
    OBVIOUS
  <2>2. /\ IsFiniteSet(UpTo(k)) /\ Cardinality(UpTo(k)) <= c
        /\ Cardinality(UpTo(k)) \in Nat
    BY <1>1, <2>1, FS_Subset, FS_CardinalityType
  <2>3. Cardinality(UpTo(k)) # 0
    BY <2>1, <2>2, FS_EmptySet
  <2> HIDE DEF c
  <2>4. QED
    BY <1>1, <2>2, <2>3 DEF Rank
<1>3. ASSUME NEW k \in K, NEW l \in K, k < l PROVE Rank(K, k) # Rank(K, l)
  <2>1. UpTo(k) \in SUBSET UpTo(l) /\ l \in UpTo(l) /\ l \notin UpTo(k)
    <3>1. k \in Nat /\ l \in Nat /\ \A j \in K : j \in Nat
      OBVIOUS
    <3>2. (\A j \in K : j <= k => j <= l) /\ l <= l /\ ~(l <= k)
      BY <1>3, <3>1
    <3>3. QED
      BY <3>2
  <2>2. Cardinality(UpTo(k)) # Cardinality(UpTo(l))
    BY <1>2, <2>1, FS_Subset
  <2>3. QED
    BY <2>2 DEF Rank
<1>4. f \in Injection(K, 1..c)
  <2>1. f \in [K -> 1..c]
    BY <1>2
  <2>2. \A k, l \in K : k # l => k < l \/ l < k
    OBVIOUS
  <2>3. \A k, l \in K : f[k] = f[l] => k = l
    BY <1>3, <2>2
  <2>4. QED
    BY <2>1, <2>3 DEF Injection, IsInjective
<1>5. IsFiniteSet(1..c) /\ Cardinality(1..c) = c
  BY <1>1, FS_Interval
<1>6. f \in Surjection(K, 1..c)
  BY <1>4, <1>5, FS_Injection
<1>7. \A i \in 1..c : \E k \in K : f[k] = i
  BY <1>6 DEF Surjection
<1>8. QED
  BY <1>1, <1>7

\* Some numbers have a least one: the one whose rank is 1.
LEMMA Lowest ==
    ASSUME NEW n \in Nat, NEW K \in SUBSET (1..n), K # {}
    PROVE  \E k \in K : \A j \in K : k <= j
<1>1. IsFiniteSet(K) /\ Cardinality(K) \in Nat /\ Cardinality(K) # 0
  BY RankOnto, FS_EmptySet
<1>2. PICK k \in K : Rank(K, k) = 1
  BY <1>1, RankOnto
<1> DEFINE upTo == {j \in K : j <= k}
<1>3. IsFiniteSet(upTo) /\ Cardinality(upTo) = 1 /\ k \in upTo
  BY <1>1, <1>2, FS_Subset DEF Rank
<1>4. upTo = {k}
  <2> HIDE DEF upTo
  <2>1. QED
    BY <1>3, FS_Singleton
<1>5. \A j \in K : j <= k => j = k
  BY <1>4
<1>6. QED
  BY <1>5

\* A selection is a list of elements of the list, and different positions in it
\* stand for different ones in the list.
LEMMA Picked ==
    ASSUME NEW S, NEW list \in Seq(S), NEW K \in SUBSET DOMAIN list
    PROVE  /\ PickFrom(list, K) \in Seq(S)
           /\ DOMAIN PickFrom(list, K) = 1..Cardinality(K)
           /\ \E f \in Injection(DOMAIN PickFrom(list, K), K) :
                 \A i \in DOMAIN PickFrom(list, K) : PickFrom(list, K)[i] = list[f[i]]
<1> DEFINE c == Cardinality(K)
           f == [i \in 1..c |-> CHOOSE k \in K : Rank(K, k) = i]
           picked == PickFrom(list, K)
<1>1. K \in SUBSET (1..Len(list)) /\ Len(list) \in Nat
  OBVIOUS
<1>2. /\ IsFiniteSet(K) /\ c \in Nat
      /\ \A i \in 1..c : f[i] \in K /\ Rank(K, f[i]) = i
  BY <1>1, RankOnto
<1>3. picked = [i \in 1..c |-> list[f[i]]]
  BY DEF PickFrom
<1> HIDE DEF f, picked, c
<1>4. picked \in Seq(S) /\ DOMAIN picked = 1..c
  BY <1>2, <1>3
<1>5. f \in Injection(1..c, K)
  BY <1>2 DEF Injection, IsInjective, f
<1>6. QED
  BY <1>3, <1>4, <1>5 DEF picked, c
=============================================================================
