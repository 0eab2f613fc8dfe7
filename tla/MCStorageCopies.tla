-------------------------- MODULE MCStorageCopies --------------------------
(* Instances of StorageCopies for TLC.                                     *)
EXTENDS StorageCopies, TLC

CONSTANTS k1, k2, a, b, c, z, v1, v2

OneKey == {k1}
TwoKeys == {k1, k2}
OneBody == [k \in Keys |-> {v1}]
RankABCZ == (a :> 0) @@ (b :> 1) @@ (c :> 2) @@ (z :> 3)
RankOf == [t \in Targets |-> RankABCZ[t]]
=============================================================================
