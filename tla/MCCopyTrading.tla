--------------------------- MODULE MCCopyTrading ----------------------------
(***************************************************************************)
(* CopyTrading on small instances; ids, followers and handlers are         *)
(* interchangeable.                                                        *)
(***************************************************************************)
EXTENDS CopyTrading, TLC

Symmetry == Permutations(SubscriptionId) \cup Permutations(Handler)
                \cup Permutations(Follower)
=============================================================================
