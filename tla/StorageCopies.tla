--------------------------- MODULE StorageCopies ---------------------------
(***************************************************************************)
(* The data plane of storage-service: object_metadata, object_copy and the *)
(* bytes on the backends, under concurrent requests.                       *)
(*                                                                         *)
(* One request is one process: an upload, a removal, the replication sweep *)
(* (POST /replication/process-pending) or a fixity check.  A request reads *)
(* the database and calls backends in separate steps, and its database     *)
(* changes appear in one commit at its end; bytes appear on a backend the  *)
(* moment they are written.  Everything between those points interleaves.  *)
(*                                                                         *)
(* Row locks that a flush takes before the commit are not modelled: they   *)
(* only delay other requests, so every real interleaving is one of these.  *)
(* The lock on the metadata row, which an upload takes before it touches a *)
(* backend, is: a key has at most one upload in flight, and a deletion     *)
(* cannot commit under it.                                                 *)
(***************************************************************************)
EXTENDS Naturals, FiniteSets

CONSTANTS
    Keys,           \* object keys
    ArchiveKeys,    \* the keys written with PUT .../archive-copy
    Contents,       \* byte strings; SHA-256 is injective on them
    Body,           \* Body[k]: the contents callers upload under k
    Live,           \* app.state.targets
    Archive,        \* app.state.archive_targets
    Primary,        \* app.state.targets[0]
    Rank,           \* the position of a target in Settings.targets
    Governed,       \* targets with object_lock_mode = "governance"
    FlakyReads,     \* targets whose read reports any client error as "not found"
    Strategy,       \* OperationalConfig.write_strategy
    QuorumCount,    \* OperationalConfig.quorum_count
    MaxAttempts,    \* OperationalConfig.max_replication_attempts
    Horizon,        \* retention dates are 1..Horizon, 0 is none
    None,           \* no bytes, no object
    Rotten,         \* bytes no caller wrote
    MaxUploads,     \* bound: PUTs per key
    MaxRemovals,    \* bound: deletions and dehydrations in all
    MaxFaults,      \* bound: backend errors, database errors and crashes
    MaxRot          \* bound: copies damaged on their backend

Targets == Live \cup Archive
Pairs == Keys \X Targets
Bytes == Contents \cup {None, Rotten}

ASSUME StorageAssumption ==
    /\ ArchiveKeys \subseteq Keys
    /\ Body \in [Keys -> SUBSET Contents]
    /\ None \notin Contents /\ Rotten \notin Contents /\ None # Rotten
    /\ Live \cap Archive = {}
    /\ Primary \in Live
    /\ Rank \in [Targets -> Nat]
    /\ \A t \in Live : Rank[Primary] <= Rank[t]
    /\ Governed \subseteq Targets /\ FlakyReads \subseteq Targets
    /\ Strategy \in {"quorum", "primary_async"}
    /\ QuorumCount \in Nat \ {0}
    /\ MaxAttempts \in Nat \ {0}
    /\ Horizon \in Nat
    /\ MaxUploads \in Nat /\ MaxRemovals \in Nat
    /\ MaxFaults \in Nat /\ MaxRot \in Nat

VARIABLES
    meta,       \* meta[k]: object_metadata.checksum_sha256, or None
    copies,     \* copies[k][t]: the object_copy row
    disk,       \* disk[k][t]: the bytes the backend holds
    upload,     \* upload[k]: the PUT in flight
    removal,    \* removal[k]: the DELETE in flight
    sweep,      \* the process-pending request in flight
    check,      \* the fixity request in flight
    alerted,    \* copies announced with storage.replication.failed_permanent
    now,        \* the date
    erased,     \* keys whose readable copies a removal was authorised to take
    uploads, removals, faults, rots     \* what the bounds count

vars == <<meta, copies, disk, upload, removal, sweep, check, alerted, now,
          erased, uploads, removals, faults, rots>>

-----------------------------------------------------------------------------
(* Rows of object_copy.  last_error, the timestamps and checksum_sha256    *)
(* are never read back by the service.  due says that next_retry_at is     *)
(* NULL or past; until is retention_until, 0 for NULL.  attempts           *)
(* saturates at MaxAttempts, the only value it is compared with.           *)

Statuses == {"none", "pending", "ok", "failed", "failed_permanent"}
Row == [status : Statuses, attempts : 0..MaxAttempts, due : BOOLEAN, until : 0..Horizon]
NoRow == [status |-> "none", attempts |-> 0, due |-> TRUE, until |-> 0]
NoRows == [k \in Keys |-> [t \in Targets |-> NoRow]]

RecordCopy(row, status, increment, until, due) ==
    [status   |-> status,
     attempts |-> IF increment /\ row.attempts < MaxAttempts
                  THEN row.attempts + 1 ELSE row.attempts,
     due      |-> due,
     until    |-> IF until # 0 THEN until ELSE row.until]

(* The session writes only the columns it changed since it loaded the row, *)
(* and a row deleted meanwhile stays deleted.                              *)
Flushed(row, loaded, mine) ==
    IF row.status = "none" THEN NoRow
    ELSE [status   |-> IF mine.status # loaded.status THEN mine.status ELSE row.status,
          attempts |-> IF mine.attempts # loaded.attempts THEN mine.attempts ELSE row.attempts,
          due      |-> IF mine.due # loaded.due THEN mine.due ELSE row.due,
          until    |-> IF mine.until # loaded.until THEN mine.until ELSE row.until]

FlushAll(job) ==
    [k \in Keys |-> [t \in Targets |->
        Flushed(copies[k][t], job.loaded[k][t], job.mine[k][t])]]

-----------------------------------------------------------------------------
(* Requests in flight.                                                     *)

NoUpload == [phase |-> "idle", content |-> None, until |-> 0, todo |-> {}, wrote |-> {}]
NoRemoval == [phase |-> "idle", scope |-> "all", bypass |-> FALSE, todo |-> {}]
NoSweep == [active |-> FALSE, todo |-> {}, held |-> {}, loaded |-> NoRows, mine |-> NoRows]
NoCheck == [active |-> FALSE, keys |-> {}, expect |-> [k \in Keys |-> None],
            todo |-> {}, loaded |-> NoRows, mine |-> NoRows]

UploadJob == [phase : {"idle", "writing", "undo"}, content : Contents \cup {None},
              until : 0..Horizon, todo : SUBSET Targets, wrote : SUBSET Targets]
RemovalJob == [phase : {"idle", "deleting"}, scope : {"all", "live"},
               bypass : BOOLEAN, todo : SUBSET Targets]
Held == [key : Keys, target : Targets, data : Bytes, until : 0..Horizon]
SweepJob == [active : BOOLEAN, todo : SUBSET Pairs, held : SUBSET Held,
             loaded : [Keys -> [Targets -> Row]], mine : [Keys -> [Targets -> Row]]]
CheckJob == [active : BOOLEAN, keys : SUBSET Keys, expect : [Keys -> Contents \cup {None}],
             todo : SUBSET Pairs,
             loaded : [Keys -> [Targets -> Row]], mine : [Keys -> [Targets -> Row]]]

TypeOK ==
    /\ meta \in [Keys -> Contents \cup {None}]
    /\ copies \in [Keys -> [Targets -> Row]]
    /\ disk \in [Keys -> [Targets -> Bytes]]
    /\ upload \in [Keys -> UploadJob]
    /\ removal \in [Keys -> RemovalJob]
    /\ sweep \in SweepJob
    /\ check \in CheckJob
    /\ alerted \subseteq Pairs
    /\ now \in 0..Horizon
    /\ erased \subseteq Keys
    /\ uploads \in [Keys -> Nat]
    /\ removals \in Nat /\ faults \in Nat /\ rots \in Nat

Init ==
    /\ meta = [k \in Keys |-> None]
    /\ copies = NoRows
    /\ disk = [k \in Keys |-> [t \in Targets |-> None]]
    /\ upload = [k \in Keys |-> NoUpload]
    /\ removal = [k \in Keys |-> NoRemoval]
    /\ sweep = NoSweep
    /\ check = NoCheck
    /\ alerted = {}
    /\ now = 0
    /\ erased = {}
    /\ uploads = [k \in Keys |-> 0]
    /\ removals = 0 /\ faults = 0 /\ rots = 0

(* An exception: a backend or the database is unreachable, a request is    *)
(* cut off, or the process dies under it.                                  *)
Fault == faults < MaxFaults /\ faults' = faults + 1

Store(k, t, bytes) == disk' = [disk EXCEPT ![k][t] = bytes]

(* A loop over targets takes them in the order of Settings.targets.        *)
FirstOf(ts) == {t \in ts : \A u \in ts : Rank[t] <= Rank[u]}

(* A write that raises may still have reached the backend.                 *)
MayStore(k, t, bytes) == UNCHANGED disk \/ Store(k, t, bytes)

-----------------------------------------------------------------------------
(* PUT /objects/{key} and PUT /objects/{key}/archive-copy.                 *)

IsArchive(k) == k \in ArchiveKeys
Quorate(k) == ~IsArchive(k) /\ Strategy = "quorum"

(* The targets a PUT writes before it answers.                             *)
FirstWrites(k) ==
    IF IsArchive(k) THEN Archive
    ELSE IF Strategy = "quorum" THEN Live ELSE {Primary}

UploadBegin(k) ==
    /\ upload[k].phase = "idle"
    /\ uploads[k] < MaxUploads
    /\ IsArchive(k) => Archive # {}
    /\ \E c \in Body[k], u \in (IF IsArchive(k) THEN {0} ELSE 0..Horizon) :
         upload' = [upload EXCEPT ![k] =
             [phase |-> "writing", content |-> c, until |-> u,
              todo |-> FirstWrites(k), wrote |-> {}]]
    /\ uploads' = [uploads EXCEPT ![k] = @ + 1]
    /\ UNCHANGED <<meta, copies, disk, removal, sweep, check, alerted, now,
                   erased, removals, faults, rots>>

(* The quorum targets are written together, the archive targets in turn.   *)
NextWrites(k) == IF IsArchive(k) THEN FirstOf(upload[k].todo) ELSE upload[k].todo

UploadStored(k, t) ==
    /\ upload[k].phase = "writing"
    /\ t \in NextWrites(k)
    /\ Store(k, t, upload[k].content)
    /\ upload' = [upload EXCEPT ![k].todo = @ \ {t}, ![k].wrote = @ \cup {t}]
    /\ UNCHANGED <<meta, copies, removal, sweep, check, alerted, now, erased,
                   uploads, removals, faults, rots>>

(* Mutant: a failed primary or archive write is swallowed.                 *)
AfterRaiseSwallowed(k, t) == [upload[k] EXCEPT !.todo = @ \ {t}]

(* Under "quorum" the gather goes on; a failed primary or archive write    *)
(* ends the request with a rollback.                                       *)
AfterRaise(k, t) ==
    IF Quorate(k) THEN [upload[k] EXCEPT !.todo = @ \ {t}] ELSE NoUpload

UploadRaised(k, t) ==
    /\ upload[k].phase = "writing"
    /\ t \in NextWrites(k)
    /\ Fault
    /\ MayStore(k, t, upload[k].content)
    /\ upload' = [upload EXCEPT ![k] = AfterRaise(k, t)]
    /\ UNCHANGED <<meta, copies, removal, sweep, check, alerted, now, erased,
                   uploads, removals, rots>>

(* Mutants: every live row is confirmed at once; the primary's row is      *)
(* queued like the secondaries'.                                           *)
WrittenRowAllOk(k, t) ==
    IF t \in Live \cup upload[k].wrote
    THEN RecordCopy(copies[k][t], "ok", FALSE, upload[k].until, TRUE) ELSE copies[k][t]
WrittenRowAllQueued(k, t) ==
    IF t \in Live THEN RecordCopy(copies[k][t], "pending", FALSE, upload[k].until, TRUE)
    ELSE copies[k][t]

(* The row of target t after a successful PUT.                             *)
WrittenRow(k, t) ==
    LET job == upload[k]
        row == copies[k][t]
    IN  CASE t \in job.wrote -> RecordCopy(row, "ok", FALSE, job.until, TRUE)
          [] t \in Live \ job.wrote /\ Quorate(k) ->
                RecordCopy(row, "failed", FALSE, 0, TRUE)
          [] t \in Live \ job.wrote /\ ~IsArchive(k) /\ ~Quorate(k) ->
                RecordCopy(row, "pending", FALSE, job.until, TRUE)
          [] OTHER -> row

(* Mutant: one confirmation short of the quorum is enough.                 *)
ConfirmedOffByOne(k) == Quorate(k) => Cardinality(upload[k].wrote) + 1 >= QuorumCount

Confirmed(k) == Quorate(k) => Cardinality(upload[k].wrote) >= QuorumCount

UploadCommit(k) ==
    /\ upload[k].phase = "writing"
    /\ upload[k].todo = {}
    /\ Confirmed(k)
    /\ meta' = [meta EXCEPT ![k] = upload[k].content]
    /\ copies' = [copies EXCEPT ![k] = [t \in Targets |-> WrittenRow(k, t)]]
    /\ upload' = [upload EXCEPT ![k] = NoUpload]
    /\ UNCHANGED <<disk, removal, sweep, check, alerted, now, erased, uploads,
                   removals, faults, rots>>

(* The quorum was missed: the copies just written are deleted again.       *)
QuorumMissed(k) ==
    /\ upload[k].phase = "writing"
    /\ upload[k].todo = {}
    /\ ~Confirmed(k)
    /\ upload' = [upload EXCEPT ![k].phase = "undo", ![k].todo = upload[k].wrote]
    /\ UNCHANGED <<meta, copies, disk, removal, sweep, check, alerted, now,
                   erased, uploads, removals, faults, rots>>

UndoWrite(k, t) ==
    /\ upload[k].phase = "undo"
    /\ t \in FirstOf(upload[k].todo)
    /\ \/ Store(k, t, None) /\ UNCHANGED faults
       \/ Fault /\ UNCHANGED disk         \* the exception is suppressed
    /\ upload' = [upload EXCEPT ![k].todo = @ \ {t}]
    /\ UNCHANGED <<meta, copies, removal, sweep, check, alerted, now, erased,
                   uploads, removals, rots>>

UploadRollback(k) ==
    /\ upload[k].phase = "undo"
    /\ upload[k].todo = {}
    /\ upload' = [upload EXCEPT ![k] = NoUpload]
    /\ UNCHANGED <<meta, copies, disk, removal, sweep, check, alerted, now,
                   erased, uploads, removals, faults, rots>>

UploadLost(k) ==
    /\ upload[k].phase # "idle"
    /\ Fault
    /\ upload' = [upload EXCEPT ![k] = NoUpload]
    /\ UNCHANGED <<meta, copies, disk, removal, sweep, check, alerted, now,
                   erased, uploads, removals, rots>>

-----------------------------------------------------------------------------
(* DELETE /objects/{key} (scope "all") and DELETE .../live-copies ("live").*)

(* Mutant: a lock in its last period no longer counts.                     *)
LockedTargetsLater(k) == {t \in Governed : copies[k][t].until > now + 1}

LockedTargets(k) == {t \in Governed : copies[k][t].until > now}

(* bypass: the caller asks for it and has the governance bypass role.      *)
RemovalBegin(k, scope, bypass) ==
    /\ removal[k].phase = "idle"
    /\ removals < MaxRemovals
    /\ meta[k] # None
    /\ LockedTargets(k) = {} \/ bypass
    /\ removal' = [removal EXCEPT ![k] =
                     [phase |-> "deleting", scope |-> scope, todo |-> Live,
                      bypass |-> bypass /\ LockedTargets(k) # {}]]
    /\ erased' = IF scope = "live" /\ IsArchive(k) THEN erased ELSE erased \cup {k}
    /\ removals' = removals + 1
    /\ UNCHANGED <<meta, copies, disk, upload, sweep, check, alerted, now,
                   uploads, faults, rots>>

RemovalDelete(k, t) ==
    /\ removal[k].phase = "deleting"
    /\ t \in FirstOf(removal[k].todo)
    /\ Store(k, t, None)
    /\ removal' = [removal EXCEPT ![k].todo = @ \ {t}]
    /\ UNCHANGED <<meta, copies, upload, sweep, check, alerted, now, erased,
                   uploads, removals, faults, rots>>

(* delete_copies_for_key, or delete_copy for each live target.             *)
RowsAfterRemoval(k) ==
    [copies EXCEPT ![k] = [t \in Targets |->
        IF removal[k].scope = "all" \/ t \in Live THEN NoRow ELSE @[t]]]

RemovalCommit(k) ==
    /\ removal[k].phase = "deleting"
    /\ removal[k].todo = {}
    /\ copies' = RowsAfterRemoval(k)
    /\ IF removal[k].scope = "all"
       THEN upload[k].phase = "idle" /\ meta' = [meta EXCEPT ![k] = None]
       ELSE UNCHANGED meta
    /\ removal' = [removal EXCEPT ![k] = NoRemoval]
    /\ UNCHANGED <<disk, upload, sweep, check, alerted, now, erased, uploads,
                   removals, faults, rots>>

RemovalLost(k) ==
    /\ removal[k].phase # "idle"
    /\ Fault
    /\ removal' = [removal EXCEPT ![k] = NoRemoval]
    /\ UNCHANGED <<meta, copies, disk, upload, sweep, check, alerted, now,
                   erased, uploads, removals, rots>>

-----------------------------------------------------------------------------
(* POST /replication/process-pending.  One run at a time: the CronJob that *)
(* calls it forbids overlap.                                               *)

(* Mutant: a copy that failed once is not selected again.                  *)
DuePairsPending ==
    {p \in Pairs : copies[p[1]][p[2]].status = "pending" /\ copies[p[1]][p[2]].due}

DuePairs ==
    {p \in Pairs : /\ copies[p[1]][p[2]].status \in {"pending", "failed"}
                   /\ copies[p[1]][p[2]].due}

DueRows == [k \in Keys |-> [t \in Targets |->
               IF <<k, t>> \in DuePairs THEN copies[k][t] ELSE NoRow]]

SweepBegin ==
    /\ ~sweep.active
    /\ DuePairs # {}
    /\ sweep' = [active |-> TRUE, todo |-> DuePairs, held |-> {},
                 loaded |-> DueRows, mine |-> DueRows]
    /\ UNCHANGED <<meta, copies, disk, upload, removal, check, alerted, now,
                   erased, uploads, removals, faults, rots>>

(* What the sweep's own session sees: the committed row under its changes. *)
Seen(k, t) == Flushed(copies[k][t], sweep.loaded[k][t], sweep.mine[k][t])
OkSources(k) == {s \in Targets : Seen(k, s).status = "ok"}

(* record_copy in the sweep's session.  The UPDATE of a row that has been  *)
(* deleted meanwhile fails, and with it the whole batch.                   *)
SweepRecord(k, t, row) ==
    sweep' = IF copies[k][t].status = "none" THEN NoSweep
             ELSE [sweep EXCEPT !.todo = @ \ {<<k, t>>}, !.held = {},
                                !.mine[k][t] = row]

(* Mutant: the copy is given up on without a word.                         *)
SweepFailedSilently(k, t) ==
    LET row == sweep.mine[k][t]
        status == IF row.attempts + 1 >= MaxAttempts THEN "failed_permanent" ELSE "failed"
    IN  SweepRecord(k, t, RecordCopy(row, status, TRUE, 0, FALSE)) /\ UNCHANGED alerted

(* An attempt on (k, t) raised: retry later, or give up and say so.        *)
SweepFailed(k, t) ==
    LET row == sweep.mine[k][t]
    IN  IF row.attempts + 1 >= MaxAttempts
        THEN /\ alerted' = alerted \cup {<<k, t>>}
             /\ SweepRecord(k, t, RecordCopy(row, "failed_permanent", TRUE, 0, TRUE))
        ELSE /\ SweepRecord(k, t, RecordCopy(row, "failed", TRUE, 0, FALSE))
             /\ UNCHANGED alerted

SweepRead(k, t, s) ==
    /\ sweep.active /\ sweep.held = {}
    /\ <<k, t>> \in sweep.todo
    /\ s \in OkSources(k)
    /\ disk[k][s] # None
    /\ sweep' = [sweep EXCEPT !.held =
           {[key |-> k, target |-> t, data |-> disk[k][s], until |-> Seen(k, s).until]}]
    /\ UNCHANGED <<meta, copies, disk, upload, removal, check, alerted, now,
                   erased, uploads, removals, faults, rots>>

SweepReadRaised(k, t, s) ==
    /\ sweep.active /\ sweep.held = {}
    /\ <<k, t>> \in sweep.todo
    /\ s \in OkSources(k)
    /\ \/ disk[k][s] = None /\ UNCHANGED faults
       \/ Fault
    /\ SweepFailed(k, t)
    /\ UNCHANGED <<meta, copies, disk, upload, removal, check, now, erased,
                   uploads, removals, rots>>

(* No confirmed copy to read from: the attempt counts, but max_attempts is *)
(* not looked at.                                                          *)
SweepNoSource(k, t) ==
    /\ sweep.active /\ sweep.held = {}
    /\ <<k, t>> \in sweep.todo
    /\ OkSources(k) = {}
    /\ SweepRecord(k, t, RecordCopy(sweep.mine[k][t], "failed", TRUE, 0, FALSE))
    /\ UNCHANGED <<meta, copies, disk, upload, removal, check, alerted, now,
                   erased, uploads, removals, faults, rots>>

SweepWrite ==
    \E h \in sweep.held :
        /\ Store(h.key, h.target, h.data)
        /\ SweepRecord(h.key, h.target,
               RecordCopy(sweep.mine[h.key][h.target], "ok", TRUE, h.until, TRUE))
        /\ UNCHANGED <<meta, copies, upload, removal, check, alerted, now,
                       erased, uploads, removals, faults, rots>>

SweepWriteRaised ==
    \E h \in sweep.held :
        /\ Fault
        /\ MayStore(h.key, h.target, h.data)
        /\ SweepFailed(h.key, h.target)
        /\ UNCHANGED <<meta, copies, upload, removal, check, now, erased,
                       uploads, removals, rots>>

SweepCommit ==
    /\ sweep.active /\ sweep.todo = {}
    /\ copies' = FlushAll(sweep)
    /\ sweep' = NoSweep
    /\ UNCHANGED <<meta, disk, upload, removal, check, alerted, now, erased,
                   uploads, removals, faults, rots>>

SweepLost ==
    /\ sweep.active
    /\ Fault
    /\ sweep' = NoSweep
    /\ UNCHANGED <<meta, copies, disk, upload, removal, check, alerted, now,
                   erased, uploads, removals, rots>>

-----------------------------------------------------------------------------
(* GET /object-verify/{key}/all, GET .../archive-copy/verify (one object)  *)
(* and POST /object-verify/process-pending (several, in one transaction).  *)

CheckBegin(ks) ==
    /\ ~check.active
    /\ ks # {} /\ \A k \in ks : meta[k] # None
    /\ check' = [active |-> TRUE, keys |-> ks, todo |-> {},
                 expect |-> [k \in Keys |-> IF k \in ks THEN meta[k] ELSE None],
                 loaded |-> NoRows, mine |-> NoRows]
    /\ UNCHANGED <<meta, copies, disk, upload, removal, sweep, alerted, now,
                   erased, uploads, removals, faults, rots>>

(* The next object's rows are listed; pending ones are passed over.        *)
CheckList(k) ==
    /\ check.active /\ check.todo = {}
    /\ k \in check.keys
    /\ check' = [check EXCEPT
           !.keys = @ \ {k},
           !.todo = {<<k, t>> : t \in {u \in Targets :
                                   copies[k][u].status \notin {"none", "pending"}}},
           !.loaded[k] = copies[k],
           !.mine[k] = copies[k]]
    /\ UNCHANGED <<meta, copies, disk, upload, removal, sweep, alerted, now,
                   erased, uploads, removals, faults, rots>>

CheckRecord(k, t, status) ==
    check' = IF copies[k][t].status = "none" THEN NoCheck
             ELSE [check EXCEPT !.todo = @ \ {<<k, t>>},
                     !.mine[k][t] = RecordCopy(@, status, FALSE, 0, TRUE)]

(* Mutant: only the existence of the object is looked at.                  *)
VerdictExists(k, t) == IF disk[k][t] # None THEN "ok" ELSE "failed"

(* The checksum is read back and compared; a missing object is a failure.  *)
Verdict(k, t) == IF disk[k][t] = check.expect[k] THEN "ok" ELSE "failed"

CheckRow(k, t) ==
    /\ check.active
    /\ <<k, t>> \in check.todo
    /\ \/ UNCHANGED faults /\ CheckRecord(k, t, Verdict(k, t))
       \/ t \in FlakyReads /\ Fault /\ CheckRecord(k, t, "failed")
    /\ UNCHANGED <<meta, copies, disk, upload, removal, sweep, alerted, now,
                   erased, uploads, removals, rots>>

CheckCommit ==
    /\ check.active /\ check.keys = {} /\ check.todo = {}
    /\ copies' = FlushAll(check)
    /\ check' = NoCheck
    /\ UNCHANGED <<meta, disk, upload, removal, sweep, alerted, now, erased,
                   uploads, removals, faults, rots>>

(* Any other backend error ends the request; nothing of it is committed.   *)
CheckLost ==
    /\ check.active
    /\ Fault
    /\ check' = NoCheck
    /\ UNCHANGED <<meta, copies, disk, upload, removal, sweep, alerted, now,
                   erased, uploads, removals, rots>>

-----------------------------------------------------------------------------
(* Time and the media.                                                     *)

BackoffElapses(k, t) ==
    /\ ~copies[k][t].due
    /\ copies' = [copies EXCEPT ![k][t].due = TRUE]
    /\ UNCHANGED <<meta, disk, upload, removal, sweep, check, alerted, now,
                   erased, uploads, removals, faults, rots>>

TimePasses ==
    /\ now < Horizon
    /\ now' = now + 1
    /\ UNCHANGED <<meta, copies, disk, upload, removal, sweep, check, alerted,
                   erased, uploads, removals, faults, rots>>

(* Bit rot on one copy while another confirmed copy is intact: what the    *)
(* redundancy is there for.                                                *)
MediaRots(k, t) ==
    /\ rots < MaxRot
    /\ disk[k][t] \in Contents
    /\ \E u \in Targets \ {t} : /\ copies[k][u].status = "ok"
                               /\ disk[k][u] = meta[k]
    /\ Store(k, t, Rotten)
    /\ rots' = rots + 1
    /\ UNCHANGED <<meta, copies, upload, removal, sweep, check, alerted, now,
                   erased, uploads, removals, faults>>

-----------------------------------------------------------------------------
UploadNext(k) ==
    \/ UploadBegin(k) \/ UploadCommit(k) \/ QuorumMissed(k)
    \/ UploadRollback(k) \/ UploadLost(k)
    \/ \E t \in Targets : UploadStored(k, t) \/ UploadRaised(k, t) \/ UndoWrite(k, t)

RemovalNext(k) ==
    \/ \E scope \in {"all", "live"}, bypass \in BOOLEAN : RemovalBegin(k, scope, bypass)
    \/ \E t \in Targets : RemovalDelete(k, t)
    \/ RemovalCommit(k) \/ RemovalLost(k)

SweepStep ==
    \/ \E p \in sweep.todo : \/ SweepNoSource(p[1], p[2])
                             \/ \E s \in Targets : \/ SweepRead(p[1], p[2], s)
                                                   \/ SweepReadRaised(p[1], p[2], s)
    \/ SweepWrite \/ SweepWriteRaised \/ SweepCommit

CheckStep ==
    \/ \E k \in check.keys : CheckList(k)
    \/ \E p \in check.todo : CheckRow(p[1], p[2])
    \/ CheckCommit

Next ==
    \/ \E k \in Keys : UploadNext(k) \/ RemovalNext(k)
    \/ SweepBegin \/ SweepStep \/ SweepLost
    \/ \E ks \in SUBSET Keys : CheckBegin(ks)
    \/ CheckStep \/ CheckLost
    \/ \E k \in Keys, t \in Targets : BackoffElapses(k, t) \/ MediaRots(k, t)
    \/ TimePasses

Spec == Init /\ [][Next]_vars

(* A request that has begun goes on, and both CronJobs keep calling.       *)
UploadStep(k) ==
    \/ UploadCommit(k) \/ QuorumMissed(k) \/ UploadRollback(k)
    \/ \E t \in Targets : UploadStored(k, t) \/ UndoWrite(k, t)

ReplicationJob ==
    /\ \A k \in Keys : WF_vars(UploadStep(k))
    /\ WF_vars(SweepBegin) /\ WF_vars(SweepStep)
    /\ \A k \in Keys, t \in Targets : WF_vars(BackoffElapses(k, t))

VerificationJob ==
    /\ WF_vars(\E ks \in SUBSET Keys : CheckBegin(ks))
    /\ WF_vars(CheckStep)

FairSpec == Spec /\ ReplicationJob
HealingSpec == FairSpec /\ VerificationJob

-----------------------------------------------------------------------------
(* Properties.                                                             *)

Acknowledged(k) == meta[k] # None /\ k \notin erased

(* A copy the database calls "ok" holds the acknowledged content, however  *)
(* sweeps, fixity checks, re-uploads and crashes interleave with it; only  *)
(* damage on the medium itself can make it wrong.                          *)
ConfirmedCopiesFaithful ==
    \A k \in Keys, t \in Targets :
        Acknowledged(k) /\ copies[k][t].status = "ok" => disk[k][t] \in {meta[k], Rotten}

(* read_with_fallback: the first target, in priority order, whose row is   *)
(* "ok" and whose backend has the object.                                  *)
ReadTargets(k) == IF IsArchive(k) THEN Archive ELSE Live
Readable(k) == {t \in ReadTargets(k) : copies[k][t].status = "ok" /\ disk[k][t] # None}
ReadWithFallback(k) == {disk[k][t] : t \in FirstOf(Readable(k))}

(* Once a PUT has been answered, and until someone is authorised to remove *)
(* the object, GET returns exactly the acknowledged bytes.                 *)
ReadsAcknowledged ==
    \A k \in Keys : Acknowledged(k) => ReadWithFallback(k) = {meta[k]}

(* The bytes of an acknowledged object are never out of reach: a target    *)
(* that has a row for it holds them, so a later fixity check and sweep can *)
(* restore every other copy even when the row itself was marked "failed".  *)
AlwaysRecoverable ==
    \A k \in Keys : Acknowledged(k) =>
        \E t \in Targets : copies[k][t].status # "none" /\ disk[k][t] = meta[k]

(* process_pending publishes before it commits: a copy is never given up   *)
(* on without an alert, whatever the batch's fate.                         *)
PermanentIsAlerted ==
    \A k \in Keys, t \in Targets :
        copies[k][t].status = "failed_permanent" => <<k, t>> \in alerted

(* A row under a running governance lock disappears only in a removal that *)
(* was authorised to bypass it.                                            *)
LockHonoured ==
    [][\A k \in Keys, t \in Governed :
         (copies[k][t].until > now /\ copies'[k][t].status = "none")
            => removal[k].bypass]_vars

(* write_with_redundancy under "quorum": when the PUT is answered,         *)
(* quorum_count targets hold the new bytes under an "ok" row.              *)
QuorumHolds ==
    [][\A k \in Keys :
         (Quorate(k) /\ upload[k].phase = "writing" /\ upload'[k].phase = "idle"
          /\ faults' = faults)
            => Cardinality({t \in Live : /\ copies'[k][t].status = "ok"
                                         /\ disk'[k][t] = meta'[k]}) >= QuorumCount]_vars

(* Under the replication CronJob every copy still owed to an acknowledged  *)
(* object is eventually confirmed or given up on.                          *)
OwedCopiesSettle ==
    \A k \in Keys, t \in Targets :
        (Acknowledged(k) /\ copies[k][t].status \in {"pending", "failed"})
            ~> (~Acknowledged(k) \/ copies[k][t].status \in {"ok", "failed_permanent"})

(* Under both CronJobs a damaged copy is eventually found and replaced by  *)
(* the acknowledged bytes, as long as some confirmed copy was intact.      *)
DamageHeals ==
    \A k \in Keys, t \in Targets :
        (Acknowledged(k) /\ disk[k][t] = Rotten)
            ~> (~Acknowledged(k) \/ (disk[k][t] = meta[k] /\ copies[k][t].status = "ok"))

-----------------------------------------------------------------------------
(* What the documentation says and the code does not do.                   *)

(* "After max_attempts unsuccessful attempts, a copy is considered         *)
(* permanently failed": no copy is queued for another attempt after that.  *)
RetriesEnd ==
    \A k \in Keys, t \in Targets :
        copies[k][t].status = "failed" => copies[k][t].attempts < MaxAttempts
=============================================================================
