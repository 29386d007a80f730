---------------------------- MODULE MCGapLimits ----------------------------
(***************************************************************************)
(* One wallet that hands out external and internal addresses, and one that *)
(* was restored from its seed.                                             *)
(***************************************************************************)
EXTENDS GapLimits, TLC

CONSTANTS issuer, restored, external, internal

MCLimit == external :> 2 @@ internal :> 1
MCMaxIndex == external :> 3 @@ internal :> 1
Symmetry == Permutations(Payments)
=============================================================================
