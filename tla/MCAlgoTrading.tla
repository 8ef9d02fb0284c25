---------------------------- MODULE MCAlgoTrading ----------------------------
(***************************************************************************)
(* AlgoTrading on small instances.                                         *)
(***************************************************************************)
EXTENDS AlgoTrading, TLC

Symmetry ==
    Permutations(AlgorithmId) \cup Permutations(BacktestId)
        \cup Permutations(Handler) \cup Permutations(Terms)
=============================================================================
