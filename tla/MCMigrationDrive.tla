-------------------------- MODULE MCMigrationDrive --------------------------
(* Small instances of MigrationDrive. *)
EXTENDS MigrationDrive, TLC

\* Two layers of preparations, 1 and 2, and the transfer 3 they lead to.
LayerDeps == 1 :> {} @@ 2 :> {1} @@ 3 :> {2}
LayerValue == 1 :> 0 @@ 2 :> 0 @@ 3 :> 1
LayerSched == 1 :> 1 @@ 2 :> 2 @@ 3 :> 5
LayerExpiry == 1 :> 3 @@ 2 :> 4 @@ 3 :> 6
LayerBound == 1 :> 0 @@ 2 :> 0 @@ 3 :> 3

\* Transfer 2 is funded by preparation 1.
PairDeps == 1 :> {} @@ 2 :> {1}
PairValue == 1 :> 0 @@ 2 :> 1
PairSched == 1 :> 2 @@ 2 :> 4
PairExpiry == 1 :> 4 @@ 2 :> 5
PairBound == 1 :> 0 @@ 2 :> 2

\* The pair, with a transfer that expires early enough to be rebuilt.
LiveSched == 1 :> 1 @@ 2 :> 3
LiveExpiry == 1 :> 3 @@ 2 :> 3
LiveBound == 1 :> 0 @@ 2 :> 1
=============================================================================
