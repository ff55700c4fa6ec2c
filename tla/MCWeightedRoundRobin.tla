------------------------ MODULE MCWeightedRoundRobin ------------------------
(* Two groups that share a member, for TLC. *)
EXTENDS WeightedRoundRobin, TLC
CONSTANTS b1, b2, b3, g1, g2
MCOrder == <<b1, b2, b3>>
MCWeight == (g1 :> (b1 :> 1 @@ b2 :> 3)) @@ (g2 :> (b2 :> 1 @@ b3 :> 2))
=============================================================================
