----------------------------- MODULE MCPayments -----------------------------
(***************************************************************************)
(* Payments on small instances.                                            *)
(***************************************************************************)
EXTENDS Payments, FiniteSetsExt, TLC

\* SumOver is the sum.
ASSUME CountingAssumption ==
    \A S \in SUBSET {1, 2, 3} : \A f \in [S -> 0..2] :
        SumOver(f, S) = MapThenSumSet(LAMBDA s : f[s], S)

Symmetry == Permutations(TransactionId) \cup Permutations(Handler)
=============================================================================
