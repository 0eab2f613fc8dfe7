--------------------------- MODULE StorageTargets ---------------------------
(***************************************************************************)
(* The admin plane of storage-service: which targets take part in          *)
(* replication, and what happens to the copies when that changes.          *)
(*                                                                         *)
(* An admin request (PUT /guard-status/{id}/config, PUT                    *)
(* /operational-config) checks, commits, reads the overrides back and      *)
(* replaces app.state in separate steps; nothing serialises two of them.   *)
(* Data-plane requests are single steps here (StorageCopies has their      *)
(* interleavings).  A start of the service runs the device swap guard.     *)
(***************************************************************************)
EXTENDS Naturals, FiniteSets

CONSTANTS
    TargetIds,      \* the ids Settings.targets may ever list
    FirstTargets,   \* those it lists at the first start
    Position,       \* their order
    EnvRole,        \* Settings.targets[t].role: "regular" or "archive"
    Roles,          \* Roles[t]: the roles admins ask for t
    Objects,        \* object keys
    ArchiveObjects, \* those written with PUT .../archive-copy
    Admins,         \* admin requests that may be in flight together
    Quorums,        \* quorum_count values admins ask for
    Policies,       \* values of allow_degraded_start admins ask for
    Exclusive,      \* object requests pause while an admin request is in flight;
                    \* the replication sweep does not
    MaxChanges,     \* bound: admin requests in all
    MaxSwaps,       \* bound: storage devices replaced by blank ones
    MaxStarts       \* bound: starts of the service

ASSUME TargetsAssumption ==
    /\ IsFiniteSet(TargetIds)
    /\ Position \in [TargetIds -> Nat]
    /\ \A t, u \in TargetIds : Position[t] = Position[u] => t = u
    /\ EnvRole \in [TargetIds -> {"regular", "archive"}]
    /\ FirstTargets \subseteq TargetIds
    /\ \E t \in FirstTargets : EnvRole[t] = "regular"
    /\ ArchiveObjects \subseteq Objects
    /\ Roles \in [TargetIds -> SUBSET {"regular", "archive"}]
    /\ Quorums \subseteq Nat
    /\ Policies \subseteq BOOLEAN
    /\ Exclusive \in BOOLEAN
    /\ MaxChanges \in Nat /\ MaxSwaps \in Nat /\ MaxStarts \in Nat

VARIABLES
    present,    \* the ids Settings.targets lists; read at a start only
    override,   \* target_override rows merged over the env: role and retired
    live,       \* app.state.targets
    archive,    \* app.state.archive_targets
    cfg,        \* operational_config: strategy and quorum_count
    degraded,   \* guard_config.allow_degraded_start
    running,    \* the service is up
    admin,      \* admin[x]: the admin request in flight
    objects,    \* object_metadata
    rows,       \* rows[k][t]: object_copy.status
    stored,     \* stored[t]: the objects on the mounted device
    marker,     \* marker[t]: the device's identity file, 0 if it has none
    known,      \* known[t]: backend_identity.device_id, 0 if there is none
    stamps, changes, swaps, starts      \* ids handed out; what the bounds count

targetVars == <<present, override, live, archive, cfg, degraded, running, admin, objects,
          rows, stored, marker, known, stamps, changes, swaps, starts>>

devices == <<stored, marker, known, stamps, swaps>>
control == <<present, override, live, archive, cfg, degraded, running, admin, changes, starts>>

-----------------------------------------------------------------------------
Status == {"none", "pending", "ok", "failed"}
Override == [role : {"regular", "archive"}, retired : BOOLEAN]
Config == [strategy : {"quorum", "primary_async"}, quorum : Nat]

ResolveTargets(o) == {t \in present : o[t].role # "archive" /\ ~o[t].retired}
ResolveArchiveTargets(o) == {t \in present : o[t].role = "archive" /\ ~o[t].retired}
(* Mutant: one target too few is accepted.                                 *)
QuorumSatisfiableOffByOne(c, ts) ==
    c.strategy = "quorum" => c.quorum \in 1..(Cardinality(ts) + 1)

QuorumSatisfiable(c, ts) == c.strategy = "quorum" => c.quorum \in 1..Cardinality(ts)

NoRequest == [pc |-> "idle"]
Request ==
    {NoRequest}
    \cup [pc : {"checked"}, kind : {"target"}, target : TargetIds, set : Override, was : BOOLEAN]
    \cup [pc : {"checked"}, kind : {"config"}, cfg : Config]
    \cup [pc : {"committed"}]
    \cup [pc : {"reloaded"}, seen : [TargetIds -> Override]]

TargetsTypeOK ==
    /\ present \subseteq TargetIds
    /\ override \in [TargetIds -> Override]
    /\ live \subseteq TargetIds /\ archive \subseteq TargetIds
    /\ cfg \in Config
    /\ degraded \in BOOLEAN /\ running \in BOOLEAN
    /\ admin \in [Admins -> Request]
    /\ objects \subseteq Objects
    /\ rows \in [Objects -> [TargetIds -> Status]]
    /\ stored \in [TargetIds -> SUBSET Objects]
    /\ marker \in [TargetIds -> Nat] /\ known \in [TargetIds -> Nat]
    /\ stamps \in Nat /\ changes \in Nat /\ swaps \in Nat /\ starts \in Nat

TargetsInit ==
    /\ present = FirstTargets
    /\ override = [t \in TargetIds |-> [role |-> EnvRole[t], retired |-> FALSE]]
    /\ live = {} /\ archive = {}
    /\ cfg = [strategy |-> "primary_async", quorum |-> 1]
    /\ degraded = FALSE
    /\ running = FALSE
    /\ admin = [x \in Admins |-> NoRequest]
    /\ objects = {}
    /\ rows = [k \in Objects |-> [t \in TargetIds |-> "none"]]
    /\ stored = [t \in TargetIds |-> {}]
    /\ marker = [t \in TargetIds |-> 0]
    /\ known = [t \in TargetIds |-> 0]
    /\ stamps = 0 /\ changes = 0 /\ swaps = 0 /\ starts = 0

Idle == \A x \in Admins : admin[x].pc = "idle"

-----------------------------------------------------------------------------
(* Object rows and targets.                                                *)

OkOn(k) == {t \in TargetIds : rows[k][t] = "ok"}

(* Mutant: an object counts only when it has one row, whatever its status. *)
SoleCopies(t) == {k \in Objects : {u \in TargetIds : rows[k][u] # "none"} = {t}}

(* count_sole_ok_copies_for_backend: the objects confirmed on t only.      *)
SoleOkCopies(t) == {k \in Objects : OkOn(k) = {t}}

(* Mutant: nothing is seeded.                                              *)
SeedNothing(rs, ts) == rs

(* seed_pending_copies_for_new_target, for each target of ts.              *)
SeedPending(rs, ts) ==
    [k \in Objects |-> [t \in TargetIds |->
        IF t \in ts /\ k \in objects /\ rs[k][t] = "none" THEN "pending" ELSE rs[k][t]]]

(* remove_copies_for_backend and reset_copies_for_backend.                 *)
RemoveCopies(rs, t) == [k \in Objects |-> [rs[k] EXCEPT ![t] = "none"]]

(* Mutants: only copies that were not confirmed are reset; a status the    *)
(* table does not know is written.                                         *)
ResetUnconfirmed(rs, ts) ==
    [k \in Objects |-> [t \in TargetIds |->
        IF t \in ts /\ rs[k][t] = "failed" THEN "pending" ELSE rs[k][t]]]
ResetToQueued(rs, ts) ==
    [k \in Objects |-> [t \in TargetIds |->
        IF t \in ts /\ rs[k][t] # "none" THEN "queued" ELSE rs[k][t]]]

ResetCopies(rs, ts) ==
    [k \in Objects |-> [t \in TargetIds |->
        IF t \in ts /\ rs[k][t] # "none" THEN "pending" ELSE rs[k][t]]]

-----------------------------------------------------------------------------
(* PUT /guard-status/{target_id}/config.                                   *)

TargetCheck(x, t, set) ==
    LET wouldBe == [override EXCEPT ![t] = set]
    IN  /\ running /\ t \in present
        /\ admin[x].pc = "idle" /\ changes < MaxChanges
        /\ ResolveTargets(wouldBe) # {}
        /\ QuorumSatisfiable(cfg, ResolveTargets(wouldBe))
        /\ set.retired /\ ~override[t].retired => SoleOkCopies(t) = {}
        /\ admin' = [admin EXCEPT ![x] =
               [pc |-> "checked", kind |-> "target", target |-> t, set |-> set,
                was |-> override[t].retired]]
        /\ changes' = changes + 1
        /\ UNCHANGED <<present, override, live, archive, cfg, degraded, running, objects,
                       rows, devices, starts>>

TargetCommit(x) ==
    /\ admin[x].pc = "checked" /\ admin[x].kind = "target"
    /\ LET t == admin[x].target
           set == admin[x].set
       IN  /\ override' = [override EXCEPT ![t] = set]
           /\ rows' = IF set.retired /\ ~admin[x].was THEN RemoveCopies(rows, t)
                      ELSE IF admin[x].was /\ ~set.retired THEN SeedPending(rows, {t})
                      ELSE rows
    /\ admin' = [admin EXCEPT ![x] = [pc |-> "committed"]]
    /\ UNCHANGED <<present, live, archive, cfg, degraded, running, objects,
                   devices, changes, starts>>

(* The overrides are read back; the answer reaches the process later.      *)
TargetReload(x) ==
    /\ admin[x].pc = "committed"
    /\ admin' = [admin EXCEPT ![x] = [pc |-> "reloaded", seen |-> override]]
    /\ UNCHANGED <<present, override, live, archive, cfg, degraded, running, objects,
                   rows, devices, changes, starts>>

TargetApply(x) ==
    /\ admin[x].pc = "reloaded"
    /\ live' = ResolveTargets(admin[x].seen)
    /\ archive' = ResolveArchiveTargets(admin[x].seen)
    /\ admin' = [admin EXCEPT ![x] = NoRequest]
    /\ UNCHANGED <<present, override, cfg, degraded, running, objects, rows, devices,
                   changes, starts>>

-----------------------------------------------------------------------------
(* PUT /operational-config, which checks against app.state.targets.        *)

ConfigCheck(x, c) ==
    /\ running
    /\ admin[x].pc = "idle" /\ changes < MaxChanges
    /\ QuorumSatisfiable(c, live)
    /\ admin' = [admin EXCEPT ![x] = [pc |-> "checked", kind |-> "config", cfg |-> c]]
    /\ changes' = changes + 1
    /\ UNCHANGED <<present, override, live, archive, cfg, degraded, running, objects,
                   rows, devices, starts>>

ConfigCommit(x) ==
    /\ admin[x].pc = "checked" /\ admin[x].kind = "config"
    /\ cfg' = admin[x].cfg
    /\ admin' = [admin EXCEPT ![x] = NoRequest]
    /\ UNCHANGED <<present, override, live, archive, degraded, running, objects, rows,
                   devices, changes, starts>>

(* PUT /guard-config.                                                      *)
PutGuardConfig(x, allow) ==
    /\ running /\ admin[x].pc = "idle"
    /\ degraded # allow /\ changes < MaxChanges
    /\ degraded' = allow
    /\ changes' = changes + 1
    /\ UNCHANGED <<present, override, live, archive, cfg, running, admin, objects, rows,
                   devices, starts>>

(* POST /guard-status/{target_id}/reidentify: adopt the device's marker or *)
(* stamp a new one, and count every copy on the target as lost.            *)
Reidentify(x, t) ==
    /\ running /\ admin[x].pc = "idle"
    /\ changes < MaxChanges
    /\ t \in live
    /\ LET id == IF marker[t] # 0 THEN marker[t] ELSE stamps + 1
       IN  /\ known' = [known EXCEPT ![t] = id]
           /\ marker' = [marker EXCEPT ![t] = id]
           /\ stamps' = IF marker[t] # 0 THEN stamps ELSE stamps + 1
    /\ rows' = ResetCopies(rows, {t})
    /\ changes' = changes + 1
    /\ UNCHANGED <<present, override, live, archive, cfg, degraded, running, admin,
                   objects, stored, swaps, starts>>

-----------------------------------------------------------------------------
(* A start: lifespan reads the overrides and runs the device swap guard    *)
(* over app.state.targets.  reachable are the backends that answer.        *)

Fresh(reachable) == {t \in ResolveTargets(override) : known[t] = 0 /\ t \in reachable}
Blank(reachable) == {t \in Fresh(reachable) : marker[t] = 0}

(* check_target_identity: a first start adopts or stamps, a later one      *)
(* compares the marker with the recorded device id.                        *)
Verified(reachable) ==
    Fresh(reachable)
    \cup {t \in ResolveTargets(override) \cap reachable :
            known[t] # 0 /\ marker[t] = known[t]}

Stamp(reachable, t) ==
    IF t \in Blank(reachable)
    THEN stamps + Cardinality({u \in Blank(reachable) : Position[u] <= Position[t]})
    ELSE marker[t]

(* The identities and seeded rows of the first transaction stay even when  *)
(* the start is then refused.                                              *)
Start(reachable) ==
    LET targets == ResolveTargets(override)
        verified == Verified(reachable)
        unverified == targets \ verified
        seeded == SeedPending(rows, Fresh(reachable))
        accepted == unverified = {} \/ (degraded /\ verified # {})
    IN  /\ ~running /\ starts < MaxStarts
        /\ starts' = starts + 1
        /\ marker' = [t \in TargetIds |-> Stamp(reachable, t)]
        /\ known' = [t \in TargetIds |->
               IF t \in Fresh(reachable) THEN Stamp(reachable, t) ELSE known[t]]
        /\ stamps' = stamps + Cardinality(Blank(reachable))
        /\ running' = accepted
        /\ rows' = IF accepted THEN ResetCopies(seeded, unverified) ELSE seeded
        /\ live' = IF accepted THEN targets ELSE {}
        /\ archive' = IF accepted THEN ResolveArchiveTargets(override) ELSE {}
        /\ UNCHANGED <<present, override, cfg, degraded, admin, objects, stored,
                       swaps, changes>>

(* A shutdown or a crash; requests in flight are gone.                     *)
Stop ==
    /\ running
    /\ running' = FALSE
    /\ live' = {} /\ archive' = {}
    /\ admin' = [x \in Admins |-> NoRequest]
    /\ UNCHANGED <<present, override, cfg, degraded, objects, rows, devices,
                   changes, starts>>

(* The operator adds a target to DMS_TARGETS, for the next start.          *)
AddTarget(t) ==
    /\ ~running
    /\ t \notin present
    /\ present' = present \cup {t}
    /\ UNCHANGED <<override, live, archive, cfg, degraded, running, admin,
                   objects, rows, devices, changes, starts>>

(* A device is replaced by a blank one.                                    *)
SwapDevice(t) ==
    /\ swaps < MaxSwaps
    /\ t \in present
    /\ stored' = [stored EXCEPT ![t] = {}]
    /\ marker' = [marker EXCEPT ![t] = 0]
    /\ swaps' = swaps + 1
    /\ UNCHANGED <<control, objects, rows, known, stamps>>

-----------------------------------------------------------------------------
(* Data-plane requests, each as one step against app.state.                *)

PrimaryTarget == CHOOSE t \in live : \A u \in live : Position[t] <= Position[u]

(* The targets that confirm a PUT before it is answered.                   *)
Confirming ==
    IF cfg.strategy = "quorum" THEN {s \in SUBSET live : Cardinality(s) >= cfg.quorum}
    ELSE {{PrimaryTarget}}

StoreOn(k, ts) == stored' = [t \in TargetIds |->
                     IF t \in ts THEN stored[t] \cup {k} ELSE stored[t]]

Upload(k) ==
    /\ running /\ live # {} /\ k \notin ArchiveObjects
    /\ Exclusive => Idle
    /\ \E s \in Confirming :
         /\ StoreOn(k, s)
         /\ rows' = [rows EXCEPT ![k] = [t \in TargetIds |->
                CASE t \in s -> "ok"
                  [] t \in live \ s ->
                        IF cfg.strategy = "quorum" THEN "failed" ELSE "pending"
                  [] OTHER -> @[t]]]
    /\ objects' = objects \cup {k}
    /\ UNCHANGED <<control, marker, known, stamps, swaps>>

ArchiveUpload(k) ==
    /\ running /\ archive # {} /\ k \in ArchiveObjects
    /\ Exclusive => Idle
    /\ StoreOn(k, archive)
    /\ rows' = [rows EXCEPT ![k] =
                  [t \in TargetIds |-> IF t \in archive THEN "ok" ELSE @[t]]]
    /\ objects' = objects \cup {k}
    /\ UNCHANGED <<control, marker, known, stamps, swaps>>

Delete(k) ==
    /\ running /\ k \in objects
    /\ Exclusive => Idle
    /\ stored' = [t \in TargetIds |-> IF t \in live THEN stored[t] \ {k} ELSE stored[t]]
    /\ rows' = [rows EXCEPT ![k] = [t \in TargetIds |-> "none"]]
    /\ objects' = objects \ {k}
    /\ UNCHANGED <<control, marker, known, stamps, swaps>>

(* One copy of a process-pending batch; the source is any confirmed copy.  *)
Replicate(k, t) ==
    /\ running
    /\ rows[k][t] \in {"pending", "failed"}
    /\ \/ /\ \E s \in OkOn(k) : k \in stored[s]
          /\ StoreOn(k, {t})
          /\ rows' = [rows EXCEPT ![k][t] = "ok"]
       \/ /\ \A s \in OkOn(k) : k \notin stored[s]
          /\ rows' = [rows EXCEPT ![k][t] = "failed"]
          /\ UNCHANGED stored
    /\ UNCHANGED <<control, objects, marker, known, stamps, swaps>>

(* verify_all_copies of one object.                                        *)
Verify(k) ==
    /\ running /\ k \in objects
    /\ Exclusive => Idle
    /\ rows' = [rows EXCEPT ![k] = [t \in TargetIds |->
           IF @[t] \in {"none", "pending"} THEN @[t]
           ELSE IF k \in stored[t] THEN "ok" ELSE "failed"]]
    /\ UNCHANGED <<control, objects, devices>>

-----------------------------------------------------------------------------
AdminNext(x) ==
    \/ \E t \in TargetIds, retired \in BOOLEAN : \E role \in Roles[t] :
          TargetCheck(x, t, [role |-> role, retired |-> retired])
    \/ TargetCommit(x) \/ TargetReload(x) \/ TargetApply(x)
    \/ \E c \in [strategy : {"quorum", "primary_async"}, quorum : Quorums] : ConfigCheck(x, c)
    \/ ConfigCommit(x)
    \/ \E allow \in Policies : PutGuardConfig(x, allow)
    \/ \E t \in TargetIds : Reidentify(x, t)

TargetsNext ==
    \/ \E x \in Admins : AdminNext(x)
    \/ \E reachable \in SUBSET TargetIds : Start(reachable)
    \/ Stop
    \/ \E t \in TargetIds : AddTarget(t) \/ SwapDevice(t)
    \/ \E k \in Objects : Upload(k) \/ ArchiveUpload(k) \/ Delete(k) \/ Verify(k)
    \/ \E k \in Objects, t \in TargetIds : Replicate(k, t)

TargetsSpec == TargetsInit /\ [][TargetsNext]_targetVars

-----------------------------------------------------------------------------
(* Properties.                                                             *)

(* upload_object takes app.state.targets[0]: while the service runs there  *)
(* is one, and the configured quorum can be met.                           *)
UploadsPossible ==
    running =>
        /\ live # {}
        /\ Idle /\ cfg.strategy = "quorum" => cfg.quorum \in 1..Cardinality(live)

(* put_target_config never removes the last confirmed copy of an object.   *)
NothingStranded ==
    [][\A x \in Admins :
         (admin[x].pc = "checked" /\ admin'[x].pc = "committed")
            => \A k \in Objects : OkOn(k) # {} => \E t \in TargetIds : rows'[k][t] = "ok"]_targetVars

(* Targets whose rows no degraded start and no change of role and back has *)
(* left without seeding.                                                   *)
Steady(t) == ~degraded /\ Roles[t] = {EnvRole[t]}

(* An identified target in service, a steady one, owes or holds a copy of  *)
(* every object, and a target taken out of service keeps no rows behind.   *)
RowsFollowTargets ==
    running /\ Idle =>
        /\ \A k \in objects \ ArchiveObjects, t \in live :
               known[t] # 0 /\ Steady(t) => rows[k][t] # "none"
        /\ \A k \in Objects, t \in present : override[t].retired => rows[k][t] = "none"

(* A start never carries on with a device that was replaced: on every      *)
(* target it identified before, what the database calls "ok" is there.     *)
SwapsDetected ==
    [][(~running /\ running') =>
         \A t \in live', k \in Objects :
             (known[t] # 0 /\ rows'[k][t] = "ok") => k \in stored'[t]]_targetVars
=============================================================================
