-------------------------- MODULE MCStorageTargets --------------------------
(* Instances of StorageTargets for TLC.                                    *)
EXTENDS StorageTargets, TLC

CONSTANTS a, b, c, z

RankABCZ == (a :> 0) @@ (b :> 1) @@ (c :> 2) @@ (z :> 3)
RankOf == [t \in TargetIds |-> RankABCZ[t]]
RoleOf == [t \in TargetIds |-> IF t = z THEN "archive" ELSE "regular"]

(* Only b changes its role.                                                *)
RolesOfB == [t \in TargetIds |-> IF t = b THEN {"regular", "archive"} ELSE {EnvRole[t]}]
=============================================================================
