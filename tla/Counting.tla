------------------------------ MODULE Counting ------------------------------
(***************************************************************************)
(* Sums and selections as cardinalities, with no recursion, so that they   *)
(* can be reasoned about.                                                  *)
(***************************************************************************)
EXTENDS Naturals, Sequences, FiniteSets

\* f[s] units of each s in S.
Units(f, S) == UNION {{s} \X (1..f[s]) : s \in S}

\* The sum of the values of f, natural numbers, over the finite set S.
SumOver(f, S) == Cardinality(Units(f, S))

\* Which of the numbers in K, in their order, k is.
Rank(K, k) == Cardinality({j \in K : j <= k})

\* The elements of list at the positions in K, in their order.
PickFrom(list, K) ==
    [i \in 1..Cardinality(K) |-> list[CHOOSE k \in K : Rank(K, k) = i]]
=============================================================================
