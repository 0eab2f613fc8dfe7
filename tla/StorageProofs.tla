---------------------------- MODULE StorageProofs ----------------------------
(***************************************************************************)
(* Proofs about storage-service, for every value of the constants: first   *)
(* its data plane (StorageCopies), then its admin plane (StorageTargets,   *)
(* from the types of admin requests on).                                   *)
(***************************************************************************)
EXTENDS StorageCopies, StorageTargets, TLAPS, FiniteSetTheorems, WellFoundedInduction

-----------------------------------------------------------------------------
(* Rows.                                                                   *)

(* record_copy yields a row whatever row it finds.                         *)
LEMMA RecordCopyType ==
    ASSUME NEW row \in Row, NEW status \in Statuses, NEW increment \in BOOLEAN,
           NEW until \in 0..Horizon, NEW due \in BOOLEAN
    PROVE  RecordCopy(row, status, increment, until, due) \in Row
<1>1. MaxAttempts \in Nat /\ Horizon \in Nat
  BY StorageAssumption
<1>2. (IF increment /\ row.attempts < MaxAttempts THEN row.attempts + 1 ELSE row.attempts)
        \in 0..MaxAttempts
  BY <1>1 DEF Row
<1>3. (IF until # 0 THEN until ELSE row.until) \in 0..Horizon
  BY <1>1 DEF Row
<1> QED
  BY <1>2, <1>3 DEF RecordCopy, Row

(* The empty rows of a session that has loaded nothing.                    *)
LEMMA NoRowsType == NoRow \in Row /\ NoRows \in [Keys -> [Targets -> Row]]
<1>1. MaxAttempts \in Nat /\ Horizon \in Nat
  BY StorageAssumption
<1>2. NoRow \in Row
  BY <1>1 DEF NoRow, Row, Statuses
<1> QED
  BY <1>2 DEF NoRows

(* A flush merges three rows into one.                                     *)
LEMMA FlushedType ==
    ASSUME NEW row \in Row, NEW loaded \in Row, NEW mine \in Row
    PROVE  Flushed(row, loaded, mine) \in Row
  BY NoRowsType DEF Flushed, Row

(* So the commit of a sweep or a check leaves rows.                        *)
LEMMA FlushAllType ==
    ASSUME copies \in [Keys -> [Targets -> Row]], NEW job,
           job.loaded \in [Keys -> [Targets -> Row]],
           job.mine \in [Keys -> [Targets -> Row]]
    PROVE  FlushAll(job) \in [Keys -> [Targets -> Row]]
<1>1. ASSUME NEW k \in Keys, NEW t \in Targets
      PROVE  Flushed(copies[k][t], job.loaded[k][t], job.mine[k][t]) \in Row
  BY FlushedType
<1> QED
  BY <1>1 DEF FlushAll

-----------------------------------------------------------------------------
(* Type correctness.                                                       *)

(* The empty requests have their types.                                    *)
LEMMA NoJobTypes ==
    /\ NoUpload \in UploadJob
    /\ NoRemoval \in RemovalJob
    /\ NoSweep \in SweepJob
    /\ NoCheck \in CheckJob
<1>1. Horizon \in Nat
  BY StorageAssumption
<1>2. NoUpload \in UploadJob /\ NoRemoval \in RemovalJob
  BY <1>1 DEF NoUpload, UploadJob, NoRemoval, RemovalJob
<1>3. NoSweep \in SweepJob
  BY NoRowsType DEF NoSweep, SweepJob
<1>4. NoCheck \in CheckJob
  BY NoRowsType DEF NoCheck, CheckJob
<1> QED
  BY <1>2, <1>3, <1>4

(* record_copy in a sweep keeps the request well typed.                    *)
LEMMA SweepRecordType ==
    ASSUME TypeOK, NEW k \in Keys, NEW t \in Targets, NEW row \in Row,
           SweepRecord(k, t, row)
    PROVE  sweep' \in SweepJob
<1>1. CASE copies[k][t].status = "none"
  BY <1>1, NoJobTypes DEF SweepRecord
<1>2. CASE copies[k][t].status # "none"
  BY <1>2 DEF SweepRecord, TypeOK, SweepJob
<1> QED
  BY <1>1, <1>2

(* ... and so does a failed attempt.                                       *)
LEMMA SweepFailedType ==
    ASSUME TypeOK, NEW k \in Keys, NEW t \in Targets, SweepFailed(k, t)
    PROVE  sweep' \in SweepJob /\ alerted' \subseteq Pairs
<1> DEFINE row == sweep.mine[k][t]
<1>1. row \in Row
  BY DEF TypeOK, SweepJob
<1>2. 0 \in 0..Horizon
  BY StorageAssumption
<1>3. CASE row.attempts + 1 >= MaxAttempts
  <2>1. RecordCopy(row, "failed_permanent", TRUE, 0, TRUE) \in Row
    BY <1>1, <1>2, RecordCopyType DEF Statuses
  <2>2. /\ alerted' = alerted \cup {<<k, t>>}
        /\ SweepRecord(k, t, RecordCopy(row, "failed_permanent", TRUE, 0, TRUE))
    BY <1>3 DEF SweepFailed
  <2>3. sweep' \in SweepJob
    BY <2>1, <2>2, SweepRecordType
  <2>4. alerted' \subseteq Pairs
    BY <2>2 DEF TypeOK, Pairs
  <2> QED
    BY <2>3, <2>4
<1>4. CASE ~(row.attempts + 1 >= MaxAttempts)
  <2>1. RecordCopy(row, "failed", TRUE, 0, FALSE) \in Row
    BY <1>1, <1>2, RecordCopyType DEF Statuses
  <2>2. /\ alerted' = alerted
        /\ SweepRecord(k, t, RecordCopy(row, "failed", TRUE, 0, FALSE))
    BY <1>4 DEF SweepFailed
  <2> QED
    BY <2>1, <2>2, SweepRecordType DEF TypeOK
<1> QED
  BY <1>3, <1>4

(* Bytes that are written are bytes.                                       *)
LEMMA StoreType ==
    ASSUME TypeOK, NEW k \in Keys, NEW t \in Targets, NEW bytes \in Bytes,
           MayStore(k, t, bytes) \/ Store(k, t, bytes)
    PROVE  disk' \in [Keys -> [Targets -> Bytes]]
<1>1. disk \in [Keys -> [Targets -> Bytes]]
  BY DEF TypeOK
<1>2. CASE UNCHANGED disk
  BY <1>1, <1>2
<1>3. CASE Store(k, t, bytes)
  BY <1>1, <1>3 DEF Store
<1> QED
  BY <1>2, <1>3 DEF MayStore

LEMMA FaultType == ASSUME TypeOK, Fault PROVE faults' \in Nat
  BY DEF Fault, TypeOK

(* A PUT in flight: a target is done, the undo begins, a copy is undone.   *)
LEMMA UploadJobType ==
    ASSUME NEW job \in UploadJob, NEW t \in Targets
    PROVE  /\ [job EXCEPT !.todo = @ \ {t}, !.wrote = @ \cup {t}] \in UploadJob
           /\ [job EXCEPT !.phase = "undo", !.todo = job.wrote] \in UploadJob
           /\ [job EXCEPT !.todo = @ \ {t}] \in UploadJob
<1>1. [job EXCEPT !.todo = @ \ {t}, !.wrote = @ \cup {t}] \in UploadJob
  BY DEF UploadJob
<1>2. [job EXCEPT !.phase = "undo", !.todo = job.wrote] \in UploadJob
  BY DEF UploadJob
<1>3. [job EXCEPT !.todo = @ \ {t}] \in UploadJob
  BY DEF UploadJob
<1> QED
  BY <1>1, <1>2, <1>3

(* The row of a target after a PUT.                                        *)
LEMMA WrittenRowType ==
    ASSUME TypeOK, NEW k \in Keys, NEW t \in Targets
    PROVE  WrittenRow(k, t) \in Row
<1>1. copies[k][t] \in Row /\ upload[k].until \in 0..Horizon /\ 0 \in 0..Horizon
  BY StorageAssumption DEF TypeOK, UploadJob
<1>2. /\ RecordCopy(copies[k][t], "ok", FALSE, upload[k].until, TRUE) \in Row
      /\ RecordCopy(copies[k][t], "failed", FALSE, 0, TRUE) \in Row
      /\ RecordCopy(copies[k][t], "pending", FALSE, upload[k].until, TRUE) \in Row
  BY <1>1, RecordCopyType DEF Statuses
<1> QED
  BY <1>1, <1>2 DEF WrittenRow

THEOREM TypeInit == Init => TypeOK
<1> SUFFICES ASSUME Init PROVE TypeOK
  OBVIOUS
<1>1. 0 \in 0..Horizon
  BY StorageAssumption
<1> QED
  BY <1>1, NoRowsType, NoJobTypes DEF Init, TypeOK, Bytes

THEOREM TypeStep == TypeOK /\ [Next]_vars => TypeOK'
<1> SUFFICES ASSUME TypeOK, [Next]_vars PROVE TypeOK'
  OBVIOUS
<1> USE DEF TypeOK
<1>1. ASSUME NEW k \in Keys, UploadBegin(k) PROVE TypeOK'
  <2>1. PICK c \in Body[k], u \in 0..Horizon :
          upload' = [upload EXCEPT ![k] =
             [phase |-> "writing", content |-> c, until |-> u,
              todo |-> FirstWrites(k), wrote |-> {}]]
    <3>1. (IF IsArchive(k) THEN {0} ELSE 0..Horizon) \subseteq 0..Horizon
      BY StorageAssumption
    <3> QED
      BY <1>1, <3>1 DEF UploadBegin
  <2>2. c \in Contents /\ FirstWrites(k) \in SUBSET Targets
    BY StorageAssumption DEF FirstWrites, Targets
  <2>3. upload' \in [Keys -> UploadJob]
    BY <2>1, <2>2 DEF UploadJob
  <2> QED
    BY <1>1, <2>3 DEF UploadBegin
<1>2. ASSUME NEW k \in Keys, NEW t \in Targets, UploadStored(k, t) PROVE TypeOK'
  <2>1. disk' \in [Keys -> [Targets -> Bytes]]
    <3>1. upload[k].content \in Bytes
      BY DEF UploadJob, Bytes
    <3> QED
      BY <1>2, <3>1, StoreType DEF UploadStored
  <2>2. upload' \in [Keys -> UploadJob]
    <3> DEFINE job == [upload[k] EXCEPT !.todo = @ \ {t}, !.wrote = @ \cup {t}]
    <3>1. job \in UploadJob
      BY UploadJobType
    <3>2. upload' = [upload EXCEPT ![k] = job]
      BY <1>2 DEF UploadStored
    <3> QED
      BY <3>1, <3>2
  <2> QED
    BY <1>2, <2>1, <2>2 DEF UploadStored
<1>3. ASSUME NEW k \in Keys, NEW t \in Targets, UploadRaised(k, t) PROVE TypeOK'
  <2>1. disk' \in [Keys -> [Targets -> Bytes]]
    <3>1. upload[k].content \in Bytes
      BY DEF UploadJob, Bytes
    <3> QED
      BY <1>3, <3>1, StoreType DEF UploadRaised
  <2>2. upload' \in [Keys -> UploadJob]
    <3>1. AfterRaise(k, t) \in UploadJob
      BY NoJobTypes DEF AfterRaise, UploadJob
    <3> QED
      BY <1>3, <3>1 DEF UploadRaised
  <2>3. faults' \in Nat
    BY <1>3, FaultType DEF UploadRaised
  <2> QED
    BY <1>3, <2>1, <2>2, <2>3 DEF UploadRaised
<1>4. ASSUME NEW k \in Keys, UploadCommit(k) PROVE TypeOK'
  <2>1. copies' \in [Keys -> [Targets -> Row]]
    <3>1. [t \in Targets |-> WrittenRow(k, t)] \in [Targets -> Row]
      BY WrittenRowType
    <3> QED
      BY <1>4, <3>1 DEF UploadCommit
  <2>2. meta' \in [Keys -> Contents \cup {None}]
    BY <1>4 DEF UploadCommit, UploadJob
  <2> QED
    BY <1>4, <2>1, <2>2, NoJobTypes DEF UploadCommit
<1>5. ASSUME NEW k \in Keys, QuorumMissed(k) PROVE TypeOK'
  <2>1. upload' \in [Keys -> UploadJob]
    <3> DEFINE job == [upload[k] EXCEPT !.phase = "undo", !.todo = upload[k].wrote]
    <3>1. job \in UploadJob
      BY StorageAssumption, UploadJobType DEF Targets
    <3>2. upload' = [upload EXCEPT ![k] = job]
      BY <1>5 DEF QuorumMissed
    <3> QED
      BY <3>1, <3>2
  <2> QED
    BY <1>5, <2>1 DEF QuorumMissed
<1>6. ASSUME NEW k \in Keys, NEW t \in Targets, UndoWrite(k, t) PROVE TypeOK'
  <2>1. disk' \in [Keys -> [Targets -> Bytes]]
    BY <1>6, StoreType DEF UndoWrite, MayStore, Bytes
  <2>2. upload' \in [Keys -> UploadJob]
    <3> DEFINE job == [upload[k] EXCEPT !.todo = @ \ {t}]
    <3>1. job \in UploadJob
      BY UploadJobType
    <3>2. upload' = [upload EXCEPT ![k] = job]
      BY <1>6 DEF UndoWrite
    <3> QED
      BY <3>1, <3>2
  <2>3. faults' \in Nat
    BY <1>6, FaultType DEF UndoWrite
  <2> QED
    BY <1>6, <2>1, <2>2, <2>3 DEF UndoWrite
<1>7. ASSUME NEW k \in Keys, UploadRollback(k) \/ UploadLost(k) PROVE TypeOK'
  <2>1. faults' \in Nat
    BY <1>7, FaultType DEF UploadRollback, UploadLost
  <2> QED
    BY <1>7, <2>1, NoJobTypes DEF UploadRollback, UploadLost
<1>8. ASSUME NEW k \in Keys, NEW scope \in {"all", "live"}, NEW bypass \in BOOLEAN,
             RemovalBegin(k, scope, bypass)
      PROVE  TypeOK'
  <2>1. removal' \in [Keys -> RemovalJob]
    BY <1>8 DEF RemovalBegin, RemovalJob, Targets
  <2> QED
    BY <1>8, <2>1 DEF RemovalBegin
<1>9. ASSUME NEW k \in Keys, NEW t \in Targets, RemovalDelete(k, t) PROVE TypeOK'
  <2>1. disk' \in [Keys -> [Targets -> Bytes]]
    BY <1>9, StoreType DEF RemovalDelete, Bytes
  <2>2. removal' \in [Keys -> RemovalJob]
    <3> DEFINE job == [removal[k] EXCEPT !.todo = @ \ {t}]
    <3>1. job \in RemovalJob
      BY DEF RemovalJob
    <3>2. removal' = [removal EXCEPT ![k] = job]
      BY <1>9 DEF RemovalDelete
    <3> QED
      BY <3>1, <3>2
  <2> QED
    BY <1>9, <2>1, <2>2 DEF RemovalDelete
<1>10. ASSUME NEW k \in Keys, RemovalCommit(k) PROVE TypeOK'
  <2>1. copies' \in [Keys -> [Targets -> Row]]
    BY <1>10, NoRowsType DEF RemovalCommit, RowsAfterRemoval
  <2>2. meta' \in [Keys -> Contents \cup {None}]
    BY <1>10 DEF RemovalCommit
  <2> QED
    BY <1>10, <2>1, <2>2, NoJobTypes DEF RemovalCommit
<1>11. ASSUME NEW k \in Keys, RemovalLost(k) PROVE TypeOK'
  BY <1>11, NoJobTypes, FaultType DEF RemovalLost
<1>12. CASE SweepBegin
  <2>1. DuePairs \in SUBSET Pairs /\ DueRows \in [Keys -> [Targets -> Row]]
    BY NoRowsType DEF DuePairs, DueRows, Pairs
  <2>2. sweep' \in SweepJob
    BY <1>12, <2>1 DEF SweepBegin, SweepJob
  <2> QED
    BY <1>12, <2>2 DEF SweepBegin
<1>13. ASSUME NEW k \in Keys, NEW t \in Targets, NEW s \in Targets, SweepRead(k, t, s)
       PROVE  TypeOK'
  <2>1. Seen(k, s) \in Row
    BY FlushedType DEF Seen, SweepJob
  <2>2. [key |-> k, target |-> t, data |-> disk[k][s], until |-> Seen(k, s).until] \in Held
    BY <2>1 DEF Held, Row
  <2>3. sweep' \in SweepJob
    BY <1>13, <2>2 DEF SweepRead, SweepJob
  <2> QED
    BY <1>13, <2>3 DEF SweepRead
<1>14. ASSUME NEW k \in Keys, NEW t \in Targets, NEW s \in Targets, SweepReadRaised(k, t, s)
       PROVE  TypeOK'
  <2>1. sweep' \in SweepJob /\ alerted' \subseteq Pairs
    BY <1>14, SweepFailedType DEF SweepReadRaised
  <2>2. faults' \in Nat
    BY <1>14, FaultType DEF SweepReadRaised
  <2> QED
    BY <1>14, <2>1, <2>2 DEF SweepReadRaised
<1>15. ASSUME NEW k \in Keys, NEW t \in Targets, SweepNoSource(k, t) PROVE TypeOK'
  <2>1. sweep.mine[k][t] \in Row /\ 0 \in 0..Horizon
    BY StorageAssumption DEF SweepJob
  <2>2. RecordCopy(sweep.mine[k][t], "failed", TRUE, 0, FALSE) \in Row
    BY <2>1, RecordCopyType DEF Statuses
  <2>3. sweep' \in SweepJob
    BY <1>15, <2>2, SweepRecordType DEF SweepNoSource
  <2> QED
    BY <1>15, <2>3 DEF SweepNoSource
<1>16. CASE SweepWrite
  <2>1. PICK h \in sweep.held :
          /\ Store(h.key, h.target, h.data)
          /\ SweepRecord(h.key, h.target,
               RecordCopy(sweep.mine[h.key][h.target], "ok", TRUE, h.until, TRUE))
    BY <1>16 DEF SweepWrite
  <2>2. h.key \in Keys /\ h.target \in Targets /\ h.data \in Bytes /\ h.until \in 0..Horizon
    BY DEF SweepJob, Held
  <2>3. sweep.mine[h.key][h.target] \in Row
    BY <2>2 DEF SweepJob
  <2>4. RecordCopy(sweep.mine[h.key][h.target], "ok", TRUE, h.until, TRUE) \in Row
    BY <2>2, <2>3, RecordCopyType DEF Statuses
  <2>5. sweep' \in SweepJob
    BY <2>1, <2>2, <2>4, SweepRecordType
  <2>6. disk' \in [Keys -> [Targets -> Bytes]]
    BY <2>1, <2>2, StoreType
  <2> QED
    BY <1>16, <2>5, <2>6 DEF SweepWrite
<1>17. CASE SweepWriteRaised
  <2>1. PICK h \in sweep.held :
          /\ Fault
          /\ MayStore(h.key, h.target, h.data)
          /\ SweepFailed(h.key, h.target)
    BY <1>17 DEF SweepWriteRaised
  <2>2. h.key \in Keys /\ h.target \in Targets /\ h.data \in Bytes
    BY DEF SweepJob, Held
  <2>3. sweep' \in SweepJob /\ alerted' \subseteq Pairs
    BY <2>1, <2>2, SweepFailedType
  <2>4. disk' \in [Keys -> [Targets -> Bytes]]
    BY <2>1, <2>2, StoreType
  <2>5. faults' \in Nat
    BY <2>1, FaultType
  <2> QED
    BY <1>17, <2>3, <2>4, <2>5 DEF SweepWriteRaised
<1>18. CASE SweepCommit
  <2>1. copies' \in [Keys -> [Targets -> Row]]
    BY <1>18, FlushAllType DEF SweepCommit, SweepJob
  <2> QED
    BY <1>18, <2>1, NoJobTypes DEF SweepCommit
<1>19. CASE SweepLost
  BY <1>19, NoJobTypes, FaultType DEF SweepLost
<1>20. ASSUME NEW ks \in SUBSET Keys, CheckBegin(ks) PROVE TypeOK'
  <2>1. check' \in CheckJob
    BY <1>20, NoRowsType DEF CheckBegin, CheckJob
  <2> QED
    BY <1>20, <2>1 DEF CheckBegin
<1>21. ASSUME NEW k \in Keys, CheckList(k) PROVE TypeOK'
  <2>1. check' \in CheckJob
    <3>1. copies[k] \in [Targets -> Row]
      OBVIOUS
    <3>2. {<<k, t>> : t \in {u \in Targets : copies[k][u].status \notin {"none", "pending"}}}
            \subseteq Pairs
      BY DEF Pairs
    <3>3. /\ [check.loaded EXCEPT ![k] = copies[k]] \in [Keys -> [Targets -> Row]]
          /\ [check.mine EXCEPT ![k] = copies[k]] \in [Keys -> [Targets -> Row]]
      BY <3>1 DEF CheckJob
    <3> QED
      BY <1>21, <3>2, <3>3 DEF CheckList, CheckJob
  <2> QED
    BY <1>21, <2>1 DEF CheckList
<1>22. ASSUME NEW k \in Keys, NEW t \in Targets, CheckRow(k, t) PROVE TypeOK'
  <2>1. check' \in CheckJob
    <3>1. PICK status \in Statuses : CheckRecord(k, t, status)
      BY <1>22 DEF CheckRow, Verdict, Statuses
    <3>2. check.mine[k][t] \in Row /\ 0 \in 0..Horizon
      BY StorageAssumption DEF CheckJob
    <3>3. RecordCopy(check.mine[k][t], status, FALSE, 0, TRUE) \in Row
      BY <3>2, RecordCopyType
    <3> QED
      BY <3>1, <3>3, NoJobTypes DEF CheckRecord, CheckJob
  <2>2. faults' \in Nat
    BY <1>22, FaultType DEF CheckRow
  <2> QED
    BY <1>22, <2>1, <2>2 DEF CheckRow
<1>23. CASE CheckCommit
  <2>1. copies' \in [Keys -> [Targets -> Row]]
    BY <1>23, FlushAllType DEF CheckCommit, CheckJob
  <2> QED
    BY <1>23, <2>1, NoJobTypes DEF CheckCommit
<1>24. CASE CheckLost
  BY <1>24, NoJobTypes, FaultType DEF CheckLost
<1>25. ASSUME NEW k \in Keys, NEW t \in Targets, BackoffElapses(k, t) PROVE TypeOK'
  <2>1. copies' \in [Keys -> [Targets -> Row]]
    <3> DEFINE row == [copies[k][t] EXCEPT !.due = TRUE]
    <3>1. row \in Row /\ copies[k] \in [Targets -> Row]
      <4>1. copies[k] \in [Targets -> Row] /\ copies[k][t] \in Row
        OBVIOUS
      <4>2. \A r \in Row : [r EXCEPT !.due = TRUE] \in Row
        BY DEF Row
      <4> QED
        BY <4>1, <4>2
    <3>2. copies' = [copies EXCEPT ![k] = [copies[k] EXCEPT ![t] = row]]
      <4>1. copies' = [copies EXCEPT ![k][t].due = TRUE]
        BY <1>25 DEF BackoffElapses
      <4> QED
        BY <4>1, Zenon
    <3>3. [copies[k] EXCEPT ![t] = row] \in [Targets -> Row]
      BY <3>1
    <3> QED
      BY <3>2, <3>3
  <2> QED
    BY <1>25, <2>1 DEF BackoffElapses
<1>26. ASSUME NEW k \in Keys, NEW t \in Targets, MediaRots(k, t) PROVE TypeOK'
  <2>1. disk' \in [Keys -> [Targets -> Bytes]]
    BY <1>26, StoreType DEF MediaRots, Bytes
  <2> QED
    BY <1>26, <2>1 DEF MediaRots
<1>27. CASE TimePasses
  BY <1>27, StorageAssumption DEF TimePasses
<1>28. CASE UNCHANGED vars
  BY <1>28 DEF vars
<1>29. ASSUME NEW p \in sweep.todo \cup check.todo PROVE p[1] \in Keys /\ p[2] \in Targets
  BY DEF SweepJob, CheckJob, Pairs
<1>30. \A k \in check.keys : k \in Keys
  BY DEF CheckJob
<1> QED
  BY <1>1, <1>2, <1>3, <1>4, <1>5, <1>6, <1>7, <1>8, <1>9, <1>10, <1>11, <1>12, <1>13,
     <1>14, <1>15, <1>16, <1>17, <1>18, <1>19, <1>20, <1>21, <1>22, <1>23, <1>24, <1>25,
     <1>26, <1>27, <1>28, <1>29, <1>30
     DEF Next, UploadNext, RemovalNext, SweepStep, CheckStep

(* Every reachable state is well typed.                                    *)
THEOREM TypeCorrect == Spec => []TypeOK
  BY TypeInit, TypeStep, PTL DEF Spec

-----------------------------------------------------------------------------
(* Which actions touch which variable.                                     *)

(* What a step of each kind of request leaves alone.                       *)
LEMMA UploadFrame ==
    ASSUME NEW k \in Keys, UploadNext(k)
    PROVE  /\ removal' = removal /\ sweep' = sweep /\ check' = check
           /\ alerted' = alerted /\ erased' = erased
           /\ meta' # meta \/ copies' # copies => UploadCommit(k)
           /\ disk' # disk => \E t \in Targets :
                 UploadStored(k, t) \/ UploadRaised(k, t) \/ UndoWrite(k, t)
  BY DEF UploadNext, UploadBegin, UploadStored, UploadRaised, UploadCommit,
         QuorumMissed, UndoWrite, UploadRollback, UploadLost

LEMMA RemovalFrame ==
    ASSUME NEW k \in Keys, RemovalNext(k)
    PROVE  /\ upload' = upload /\ sweep' = sweep /\ check' = check
           /\ alerted' = alerted /\ erased \subseteq erased'
           /\ meta' # meta \/ copies' # copies => RemovalCommit(k)
           /\ disk' # disk => \E t \in Targets : RemovalDelete(k, t)
  BY DEF RemovalNext, RemovalBegin, RemovalDelete, RemovalCommit, RemovalLost

LEMMA SweepFrame ==
    ASSUME SweepBegin \/ SweepStep \/ SweepLost
    PROVE  /\ meta' = meta /\ upload' = upload /\ removal' = removal /\ check' = check
           /\ alerted \subseteq alerted' /\ erased' = erased
           /\ copies' # copies => SweepCommit
           /\ disk' # disk => SweepWrite \/ SweepWriteRaised
<1>1. CASE SweepBegin \/ SweepLost \/ SweepCommit
  BY <1>1 DEF SweepBegin, SweepLost, SweepCommit
<1>2. CASE SweepWrite \/ SweepWriteRaised
  BY <1>2 DEF SweepWrite, SweepWriteRaised, SweepFailed
<1>3. ASSUME NEW p \in sweep.todo, SweepNoSource(p[1], p[2]) PROVE UNCHANGED
          <<meta, copies, disk, upload, removal, check, alerted, erased>>
  BY <1>3 DEF SweepNoSource
<1>4. ASSUME NEW p \in sweep.todo, NEW s \in Targets,
             SweepRead(p[1], p[2], s) \/ SweepReadRaised(p[1], p[2], s)
      PROVE  /\ UNCHANGED <<meta, copies, disk, upload, removal, check, erased>>
             /\ alerted \subseteq alerted'
  BY <1>4 DEF SweepRead, SweepReadRaised, SweepFailed
<1> QED
  BY <1>1, <1>2, <1>3, <1>4 DEF SweepStep

LEMMA CheckFrame ==
    ASSUME (\E ks \in SUBSET Keys : CheckBegin(ks)) \/ CheckStep \/ CheckLost
    PROVE  /\ meta' = meta /\ disk' = disk /\ upload' = upload /\ removal' = removal
           /\ sweep' = sweep /\ alerted' = alerted /\ erased' = erased
           /\ copies' # copies => CheckCommit
  BY DEF CheckStep, CheckBegin, CheckList, CheckRow, CheckCommit, CheckLost

LEMMA WorldFrame ==
    ASSUME \/ \E k \in Keys, t \in Targets : BackoffElapses(k, t) \/ MediaRots(k, t)
           \/ TimePasses
    PROVE  /\ meta' = meta /\ upload' = upload /\ removal' = removal
           /\ sweep' = sweep /\ check' = check /\ alerted' = alerted /\ erased' = erased
           /\ copies' # copies => \E k \in Keys, t \in Targets : BackoffElapses(k, t)
           /\ disk' # disk => \E k \in Keys, t \in Targets : MediaRots(k, t)
  BY DEF BackoffElapses, MediaRots, TimePasses

(* The kinds of steps.                                                     *)
LEMMA StepKinds ==
    ASSUME [Next]_vars
    PROVE  \/ UNCHANGED vars
           \/ \E k \in Keys : UploadNext(k) \/ RemovalNext(k)
           \/ SweepBegin \/ SweepStep \/ SweepLost
           \/ (\E ks \in SUBSET Keys : CheckBegin(ks)) \/ CheckStep \/ CheckLost
           \/ (\E k \in Keys, t \in Targets : BackoffElapses(k, t) \/ MediaRots(k, t))
           \/ TimePasses
  BY DEF Next

(* object_copy rows change in a commit, or when a backoff elapses.         *)
LEMMA CopiesChange ==
    ASSUME [Next]_vars, copies' # copies
    PROVE  \/ \E k \in Keys : UploadCommit(k) \/ RemovalCommit(k)
           \/ SweepCommit \/ CheckCommit
           \/ \E k \in Keys, t \in Targets : BackoffElapses(k, t)
  BY StepKinds, UploadFrame, RemovalFrame, SweepFrame, CheckFrame, WorldFrame DEF vars

(* object_metadata changes only in the commit of a PUT or a DELETE.        *)
LEMMA MetaChange ==
    ASSUME [Next]_vars, meta' # meta
    PROVE  \E k \in Keys : UploadCommit(k) \/ RemovalCommit(k)
  BY StepKinds, UploadFrame, RemovalFrame, SweepFrame, CheckFrame, WorldFrame DEF vars

(* Bytes change on a backend call or on the medium.                        *)
LEMMA DiskChange ==
    ASSUME TypeOK, [Next]_vars, disk' # disk
    PROVE  \/ \E k \in Keys, t \in Targets :
                \/ UploadStored(k, t) \/ UploadRaised(k, t) \/ UndoWrite(k, t)
                \/ RemovalDelete(k, t) \/ MediaRots(k, t)
           \/ SweepWrite \/ SweepWriteRaised
  BY StepKinds, UploadFrame, RemovalFrame, SweepFrame, CheckFrame, WorldFrame DEF vars

LEMMA UploadChange ==
    ASSUME [Next]_vars, upload' # upload
    PROVE  \E k \in Keys : UploadNext(k)
  BY StepKinds, RemovalFrame, SweepFrame, CheckFrame, WorldFrame DEF vars

LEMMA RemovalChange ==
    ASSUME [Next]_vars, removal' # removal
    PROVE  \E k \in Keys : RemovalNext(k)
  BY StepKinds, UploadFrame, SweepFrame, CheckFrame, WorldFrame DEF vars

LEMMA SweepChange ==
    ASSUME [Next]_vars, sweep' # sweep
    PROVE  SweepBegin \/ SweepStep \/ SweepLost
  BY StepKinds, UploadFrame, RemovalFrame, CheckFrame, WorldFrame DEF vars

LEMMA CheckChange ==
    ASSUME [Next]_vars, check' # check
    PROVE  (\E ks \in SUBSET Keys : CheckBegin(ks)) \/ CheckStep \/ CheckLost
  BY StepKinds, UploadFrame, RemovalFrame, SweepFrame, WorldFrame DEF vars

(* alerts are never taken back, nor is an authorised removal.              *)
LEMMA HistoryGrows ==
    ASSUME [Next]_vars
    PROVE  alerted \subseteq alerted' /\ erased \subseteq erased'
  BY StepKinds, UploadFrame, RemovalFrame, SweepFrame, CheckFrame, WorldFrame DEF vars

-----------------------------------------------------------------------------
(* What a step can do to one row.                                          *)

(* A commit changes the status of a row to what its request found out, and *)
(* never creates a row except for a PUT.                                   *)
LEMMA CopyRowStep ==
    ASSUME TypeOK, [Next]_vars, NEW k \in Keys, NEW t \in Targets,
           copies'[k][t].status # copies[k][t].status
    PROVE  \/ UploadCommit(k) /\ copies'[k][t] = WrittenRow(k, t)
           \/ RemovalCommit(k) /\ (removal[k].scope = "all" \/ t \in Live)
              /\ copies'[k][t] = NoRow
           \/ /\ SweepCommit
              /\ copies[k][t].status # "none"
              /\ sweep.mine[k][t].status # sweep.loaded[k][t].status
              /\ copies'[k][t].status = sweep.mine[k][t].status
           \/ /\ CheckCommit
              /\ copies[k][t].status # "none"
              /\ check.mine[k][t].status # check.loaded[k][t].status
              /\ copies'[k][t].status = check.mine[k][t].status
<1>1. copies \in [Keys -> [Targets -> Row]]
  BY DEF TypeOK
<1>2. ASSUME NEW x \in Keys, UploadCommit(x)
      PROVE  UploadCommit(k) /\ copies'[k][t] = WrittenRow(k, t)
  BY <1>1, <1>2 DEF UploadCommit
<1>3. ASSUME NEW x \in Keys, RemovalCommit(x)
      PROVE  RemovalCommit(k) /\ (removal[k].scope = "all" \/ t \in Live)
             /\ copies'[k][t] = NoRow
  BY <1>1, <1>3 DEF RemovalCommit, RowsAfterRemoval
<1>4. ASSUME NEW job, copies' = FlushAll(job)
      PROVE  /\ copies[k][t].status # "none"
             /\ job.mine[k][t].status # job.loaded[k][t].status
             /\ copies'[k][t].status = job.mine[k][t].status
  <2>1. copies'[k][t] = Flushed(copies[k][t], job.loaded[k][t], job.mine[k][t])
    BY <1>4 DEF FlushAll
  <2> QED
    BY <2>1 DEF Flushed, NoRow
<1>5. ASSUME NEW x \in Keys, NEW y \in Targets, BackoffElapses(x, y) PROVE FALSE
  <2>1. copies' = [copies EXCEPT ![x][y].due = TRUE]
    BY <1>5 DEF BackoffElapses
  <2>2. \A r \in Row : [r EXCEPT !.due = TRUE].status = r.status
    BY DEF Row
  <2> QED
    BY <1>1, <2>1, <2>2
<1>6. copies' # copies
  OBVIOUS
<1> QED
  BY <1>2, <1>3, <1>4, <1>5, <1>6, CopiesChange DEF SweepCommit, CheckCommit

(* An attempt that raised leaves "failed", or the last status and an alert.*)
LEMMA SweepFailedOutcome ==
    ASSUME NEW k \in Keys, NEW t \in Targets, SweepFailed(k, t)
    PROVE  \E status \in {"failed", "failed_permanent"}, due \in BOOLEAN :
              /\ SweepRecord(k, t, RecordCopy(sweep.mine[k][t], status, TRUE, 0, due))
              /\ status = "failed_permanent" => <<k, t>> \in alerted'
<1>1. CASE sweep.mine[k][t].attempts + 1 >= MaxAttempts
  <2>1. /\ SweepRecord(k, t, RecordCopy(sweep.mine[k][t], "failed_permanent", TRUE, 0, TRUE))
        /\ <<k, t>> \in alerted'
    BY <1>1 DEF SweepFailed
  <2> QED
    BY <2>1
<1>2. CASE ~(sweep.mine[k][t].attempts + 1 >= MaxAttempts)
  <2>1. SweepRecord(k, t, RecordCopy(sweep.mine[k][t], "failed", TRUE, 0, FALSE))
    BY <1>2 DEF SweepFailed
  <2> QED
    BY <2>1
<1> QED
  BY <1>1, <1>2

(* A sweep ends, begins, reads a source, or records one attempt: "ok" only *)
(* with the bytes written in the same step.                                *)
LEMMA SweepOutcome ==
    ASSUME TypeOK, [Next]_vars, sweep' # sweep
    PROVE  \/ sweep' = NoSweep
           \/ SweepBegin
           \/ \E p \in sweep.todo, s \in Targets : SweepRead(p[1], p[2], s)
           \/ \E k \in Keys, t \in Targets, row \in Row :
                 /\ sweep' = [sweep EXCEPT !.todo = @ \ {<<k, t>>}, !.held = {},
                                           !.mine[k][t] = row]
                 /\ <<k, t>> \in sweep.todo \/ \E h \in sweep.held : h.key = k /\ h.target = t
                 /\ row.status \in {"ok", "failed", "failed_permanent"}
                 /\ row.status = "failed_permanent" => <<k, t>> \in alerted'
                 /\ row.status = "ok" =>
                       \E h \in sweep.held : h.key = k /\ h.target = t /\ Store(k, t, h.data)
<1> DEFINE Recorded(k, t, row) ==
      /\ <<k, t>> \in sweep.todo \/ \E h \in sweep.held : h.key = k /\ h.target = t
      /\ row.status \in {"ok", "failed", "failed_permanent"}
      /\ row.status = "failed_permanent" => <<k, t>> \in alerted'
      /\ row.status = "ok" =>
            \E h \in sweep.held : h.key = k /\ h.target = t /\ Store(k, t, h.data)
<1> DEFINE Goal ==
      \/ sweep' = NoSweep
      \/ \E k \in Keys, t \in Targets, row \in Row :
            /\ sweep' = [sweep EXCEPT !.todo = @ \ {<<k, t>>}, !.held = {}, !.mine[k][t] = row]
            /\ Recorded(k, t, row)
<1>1. ASSUME NEW k \in Keys, NEW t \in Targets, NEW row \in Row,
             SweepRecord(k, t, row), Recorded(k, t, row)
      PROVE  Goal
  <2>1. CASE copies[k][t].status = "none"
    BY <1>1, <2>1 DEF SweepRecord
  <2>2. CASE copies[k][t].status # "none"
    <3>1. sweep' = [sweep EXCEPT !.todo = @ \ {<<k, t>>}, !.held = {}, !.mine[k][t] = row]
      BY <1>1, <2>2 DEF SweepRecord
    <3> QED
      BY <3>1, <1>1
  <2> QED
    BY <2>1, <2>2
<1>2. ASSUME NEW k \in Keys, NEW t \in Targets, SweepFailed(k, t),
             <<k, t>> \in sweep.todo \/ \E h \in sweep.held : h.key = k /\ h.target = t
      PROVE  Goal
  <2>1. PICK status \in {"failed", "failed_permanent"}, due \in BOOLEAN :
          /\ SweepRecord(k, t, RecordCopy(sweep.mine[k][t], status, TRUE, 0, due))
          /\ status = "failed_permanent" => <<k, t>> \in alerted'
    BY <1>2, SweepFailedOutcome
  <2> DEFINE row == RecordCopy(sweep.mine[k][t], status, TRUE, 0, due)
  <2>2. sweep.mine[k][t] \in Row /\ 0 \in 0..Horizon
    BY StorageAssumption DEF TypeOK, SweepJob
  <2>3. row \in Row
    BY <2>2, RecordCopyType DEF Statuses
  <2>4. row.status = status
    BY DEF RecordCopy
  <2>5. Recorded(k, t, row)
    BY <1>2, <2>1, <2>4
  <2> HIDE DEF row, Recorded, Goal
  <2>6. SweepRecord(k, t, row)
    BY <2>1 DEF row
  <2> QED
    BY <1>1, <2>3, <2>5, <2>6
<1>3. ASSUME NEW k \in Keys, NEW t \in Targets, NEW s \in Targets, <<k, t>> \in sweep.todo,
             SweepReadRaised(k, t, s)
      PROVE  Goal
  <2> HIDE DEF Goal
  <2> QED
    BY <1>2, <1>3 DEF SweepReadRaised
<1>4. ASSUME NEW k \in Keys, NEW t \in Targets, SweepNoSource(k, t)
      PROVE  Goal
  <2> DEFINE row == RecordCopy(sweep.mine[k][t], "failed", TRUE, 0, FALSE)
  <2>1. sweep.mine[k][t] \in Row /\ 0 \in 0..Horizon
    BY StorageAssumption DEF TypeOK, SweepJob
  <2>2. row \in Row
    BY <2>1, RecordCopyType DEF Statuses
  <2>3. row.status = "failed"
    BY DEF RecordCopy
  <2>4. SweepRecord(k, t, row) /\ <<k, t>> \in sweep.todo
    BY <1>4 DEF SweepNoSource
  <2>5. Recorded(k, t, row)
    BY <2>3, <2>4
  <2> HIDE DEF row, Recorded, Goal
  <2> QED
    BY <1>1, <2>2, <2>4, <2>5
<1>5. ASSUME SweepWrite PROVE Goal
  <2>1. PICK h \in sweep.held :
          /\ Store(h.key, h.target, h.data)
          /\ SweepRecord(h.key, h.target,
               RecordCopy(sweep.mine[h.key][h.target], "ok", TRUE, h.until, TRUE))
    BY <1>5 DEF SweepWrite
  <2> DEFINE row == RecordCopy(sweep.mine[h.key][h.target], "ok", TRUE, h.until, TRUE)
  <2>2. h.key \in Keys /\ h.target \in Targets /\ h.until \in 0..Horizon
    BY DEF TypeOK, SweepJob, Held
  <2>3. sweep.mine[h.key][h.target] \in Row
    BY <2>2 DEF TypeOK, SweepJob
  <2>4. row \in Row
    BY <2>2, <2>3, RecordCopyType DEF Statuses
  <2>5. row.status = "ok"
    BY DEF RecordCopy
  <2>6. Recorded(h.key, h.target, row)
    BY <2>1, <2>5
  <2> HIDE DEF row, Recorded, Goal
  <2>7. SweepRecord(h.key, h.target, row)
    BY <2>1 DEF row
  <2> QED
    BY <1>1, <2>2, <2>4, <2>6, <2>7
<1>6. ASSUME SweepWriteRaised PROVE Goal
  <2>1. PICK h \in sweep.held : SweepFailed(h.key, h.target)
    BY <1>6 DEF SweepWriteRaised
  <2>2. h.key \in Keys /\ h.target \in Targets
    BY DEF TypeOK, SweepJob, Held
  <2> HIDE DEF Goal
  <2> QED
    BY <1>2, <2>1, <2>2
<1>7. CASE SweepCommit \/ SweepLost
  BY <1>7 DEF SweepCommit, SweepLost
<1>8. \A p \in sweep.todo : p[1] \in Keys /\ p[2] \in Targets /\ p = <<p[1], p[2]>>
  BY DEF TypeOK, SweepJob, Pairs
<1>9. Goal \/ SweepBegin \/ \E p \in sweep.todo, s \in Targets : SweepRead(p[1], p[2], s)
  <2> HIDE DEF Goal
  <2>1. SweepBegin \/ SweepStep \/ SweepLost
    BY SweepChange
  <2>2. CASE SweepStep
    BY <2>2, <1>3, <1>4, <1>5, <1>6, <1>7, <1>8 DEF SweepStep, Goal
  <2>3. SweepLost => Goal
    BY <1>7 DEF Goal, SweepLost
  <2> QED
    BY <2>1, <2>2, <2>3
<1> QED
  BY <1>9

(* A fixity check ends, begins, lists an object, or records one verdict:   *)
(* "ok" only for bytes that match.                                         *)
LEMMA CheckOutcome ==
    ASSUME TypeOK, [Next]_vars, check' # check
    PROVE  \/ check' = NoCheck
           \/ \E ks \in SUBSET Keys : CheckBegin(ks)
           \/ \E k \in check.keys : CheckList(k)
           \/ \E k \in Keys, t \in Targets, row \in Row :
                 /\ check' = [check EXCEPT !.todo = @ \ {<<k, t>>}, !.mine[k][t] = row]
                 /\ <<k, t>> \in check.todo
                 /\ row.status \in {"ok", "failed"}
                 /\ row.status = "ok" => disk[k][t] = check.expect[k]
                 /\ t \notin FlakyReads => row.status = Verdict(k, t)
<1> DEFINE Recorded(k, t) ==
      \E row \in Row :
         /\ check' = [check EXCEPT !.todo = @ \ {<<k, t>>}, !.mine[k][t] = row]
         /\ <<k, t>> \in check.todo
         /\ row.status \in {"ok", "failed"}
         /\ row.status = "ok" => disk[k][t] = check.expect[k]
         /\ t \notin FlakyReads => row.status = Verdict(k, t)
<1>1. ASSUME NEW k \in Keys, NEW t \in Targets, CheckRow(k, t), check' # NoCheck
      PROVE  Recorded(k, t)
  <2>1. PICK status \in {"ok", "failed"} :
          /\ CheckRecord(k, t, status)
          /\ status = "ok" => disk[k][t] = check.expect[k]
          /\ t \notin FlakyReads => status = Verdict(k, t)
    BY <1>1 DEF CheckRow, Verdict
  <2> DEFINE row == RecordCopy(check.mine[k][t], status, FALSE, 0, TRUE)
  <2>2. check.mine[k][t] \in Row /\ 0 \in 0..Horizon
    BY StorageAssumption DEF TypeOK, CheckJob
  <2>3. row \in Row
    BY <2>2, RecordCopyType DEF Statuses
  <2>4. row.status = status
    BY DEF RecordCopy
  <2>5. check' = [check EXCEPT !.todo = @ \ {<<k, t>>}, !.mine[k][t] = row]
    BY <1>1, <2>1 DEF CheckRecord
  <2>6. <<k, t>> \in check.todo
    BY <1>1 DEF CheckRow
  <2> HIDE DEF row
  <2> QED
    BY <2>1, <2>3, <2>4, <2>5, <2>6
<1>2. \A p \in check.todo : p[1] \in Keys /\ p[2] \in Targets /\ p = <<p[1], p[2]>>
  BY DEF TypeOK, CheckJob, Pairs
<1>3. (\E ks \in SUBSET Keys : CheckBegin(ks)) \/ CheckStep \/ CheckLost
  BY CheckChange
<1>4. CheckCommit \/ CheckLost => check' = NoCheck
  BY DEF CheckCommit, CheckLost
<1>5. \/ check' = NoCheck
      \/ \E ks \in SUBSET Keys : CheckBegin(ks)
      \/ \E k \in check.keys : CheckList(k)
      \/ \E k \in Keys, t \in Targets : Recorded(k, t)
  <2> HIDE DEF Recorded
  <2> QED
    BY <1>1, <1>2, <1>3, <1>4 DEF CheckStep
<1> QED
  BY <1>5

-----------------------------------------------------------------------------
(* A copy is never given up on silently.                                   *)

(* Inductive: also what a request in flight is going to commit has been    *)
(* announced.                                                              *)
GivenUp(row) == row.status = "failed_permanent"
AlertInv ==
    \A k \in Keys, t \in Targets :
        GivenUp(copies[k][t]) \/ GivenUp(sweep.mine[k][t]) \/ GivenUp(check.mine[k][t])
            => <<k, t>> \in alerted

(* Only rows that already were can be given up on after a PUT.             *)
LEMMA WrittenRowStatus ==
    ASSUME NEW k \in Keys, NEW t \in Targets
    PROVE  \/ WrittenRow(k, t) = copies[k][t]
           \/ WrittenRow(k, t).status = "ok" /\ t \in upload[k].wrote
           \/ WrittenRow(k, t).status = "failed"
              /\ Quorate(k) /\ t \in Live \ upload[k].wrote
           \/ WrittenRow(k, t).status = "pending"
              /\ t \in Live \ upload[k].wrote /\ ~IsArchive(k) /\ ~Quorate(k)
  BY DEF WrittenRow, RecordCopy

LEMMA AlertStep ==
    ASSUME TypeOK, AlertInv, [Next]_vars
    PROVE  AlertInv'
<1> SUFFICES ASSUME NEW k \in Keys, NEW t \in Targets
             PROVE  /\ GivenUp(copies[k][t])' => <<k, t>> \in alerted'
                    /\ GivenUp(sweep.mine[k][t])' => <<k, t>> \in alerted'
                    /\ GivenUp(check.mine[k][t])' => <<k, t>> \in alerted'
  BY DEF AlertInv
<1> USE DEF GivenUp
<1>1. alerted \subseteq alerted'
  BY HistoryGrows
<1>2. GivenUp(copies[k][t])' => <<k, t>> \in alerted'
  <2>1. CASE copies'[k][t].status = copies[k][t].status
    BY <2>1, <1>1 DEF AlertInv
  <2>2. CASE UploadCommit(k) /\ copies'[k][t] = WrittenRow(k, t)
    BY <2>2, <1>1, WrittenRowStatus DEF AlertInv
  <2>3. CASE copies'[k][t] = NoRow
    BY <2>3 DEF NoRow
  <2>4. CASE copies'[k][t].status \in {sweep.mine[k][t].status, check.mine[k][t].status}
    BY <2>4, <1>1 DEF AlertInv
  <2> QED
    BY <2>1, <2>2, <2>3, <2>4, CopyRowStep
<1>3. GivenUp(sweep.mine[k][t])' => <<k, t>> \in alerted'
  <2>1. CASE sweep' = sweep
    BY <2>1, <1>1 DEF AlertInv
  <2>2. CASE sweep' = NoSweep
    BY <2>2 DEF NoSweep, NoRows, NoRow
  <2>3. CASE SweepBegin
    <3>1. sweep'.mine[k][t] = DueRows[k][t]
      BY <2>3 DEF SweepBegin
    <3>2. DueRows[k][t].status # "failed_permanent"
      BY DEF DueRows, DuePairs, NoRow
    <3> QED
      BY <3>1, <3>2
  <2>4. ASSUME NEW p \in sweep.todo, NEW s \in Targets, SweepRead(p[1], p[2], s)
        PROVE  sweep'.mine = sweep.mine
    BY <2>4 DEF SweepRead, TypeOK, SweepJob
  <2>5. ASSUME NEW x \in Keys, NEW y \in Targets, NEW row \in Row,
               sweep' = [sweep EXCEPT !.todo = @ \ {<<x, y>>}, !.held = {},
                                      !.mine[x][y] = row],
               row.status = "failed_permanent" => <<x, y>> \in alerted'
        PROVE  GivenUp(sweep.mine[k][t])' => <<k, t>> \in alerted'
    <3>1. sweep'.mine[k][t] = IF k = x /\ t = y THEN row ELSE sweep.mine[k][t]
      BY <2>5 DEF TypeOK, SweepJob
    <3> QED
      BY <3>1, <2>5, <1>1 DEF AlertInv
  <2>6. (\E p \in sweep.todo, s \in Targets : SweepRead(p[1], p[2], s))
           => (GivenUp(sweep.mine[k][t])' => <<k, t>> \in alerted')
    BY <2>4, <1>1 DEF AlertInv
  <2> QED
    BY <2>1, <2>2, <2>3, <2>5, <2>6, SweepOutcome
<1>4. GivenUp(check.mine[k][t])' => <<k, t>> \in alerted'
  <2>1. CASE check' = check
    BY <2>1, <1>1 DEF AlertInv
  <2>2. CASE check' = NoCheck
    BY <2>2 DEF NoCheck, NoRows, NoRow
  <2>3. ASSUME NEW ks \in SUBSET Keys, CheckBegin(ks)
        PROVE  check'.mine[k][t].status = "none"
    BY <2>3 DEF CheckBegin, NoRows, NoRow
  <2>4. ASSUME NEW x \in check.keys, CheckList(x)
        PROVE  check'.mine[k][t] \in {check.mine[k][t], copies[k][t]}
    <3>1. x \in Keys /\ check'.mine = [check.mine EXCEPT ![x] = copies[x]]
      BY <2>4 DEF CheckList, TypeOK, CheckJob
    <3> QED
      BY <3>1 DEF TypeOK, CheckJob
  <2>5. ASSUME NEW x \in Keys, NEW y \in Targets, NEW row \in Row,
               check' = [check EXCEPT !.todo = @ \ {<<x, y>>}, !.mine[x][y] = row],
               row.status \in {"ok", "failed"}
        PROVE  GivenUp(check.mine[k][t])' => <<k, t>> \in alerted'
    <3>1. check'.mine[k][t] \in {check.mine[k][t], row}
      BY <2>5 DEF TypeOK, CheckJob
    <3> QED
      BY <3>1, <2>5, <1>1 DEF AlertInv
  <2>6. CASE check'.mine[k][t] \in {check.mine[k][t], copies[k][t]}
    BY <2>6, <1>1 DEF AlertInv
  <2>7. (\E x \in check.keys : CheckList(x))
           => (GivenUp(check.mine[k][t])' => <<k, t>> \in alerted')
    BY <2>4, <2>6
  <2>8. (\E ks \in SUBSET Keys : CheckBegin(ks))
           => (GivenUp(check.mine[k][t])' => <<k, t>> \in alerted')
    BY <2>3
  <2> QED
    BY <2>1, <2>2, <2>5, <2>7, <2>8, CheckOutcome
<1> QED
  BY <1>2, <1>3, <1>4

(* process_pending: a copy is "failed_permanent" only after the event that *)
(* says so was published, whatever the fate of the batch.                  *)
THEOREM NeverGivenUpSilently == Spec => []PermanentIsAlerted
<1>1. Init => AlertInv
  BY DEF Init, AlertInv, GivenUp, NoRows, NoRow, NoSweep, NoCheck
<1>2. TypeOK /\ AlertInv /\ [Next]_vars => AlertInv'
  BY AlertStep
<1>3. AlertInv => PermanentIsAlerted
  BY DEF AlertInv, GivenUp, PermanentIsAlerted
<1> QED
  BY <1>1, <1>2, <1>3, TypeCorrect, PTL DEF Spec

-----------------------------------------------------------------------------
(***************************************************************************)
(* What storage-service keeps of an acknowledged object, for every number  *)
(* of keys, targets, faults, uploads and removals, under the default write *)
(* strategy and with keys that are written with one content only (document *)
(* versions: document-service makes the checksum a part of the key).       *)
(***************************************************************************)

Async == Strategy = "primary_async"
WriteOnce == \A k \in Keys : \A c, d \in Body[k] : c = d

(* Bytes a medium may turn into.                                           *)
Damage == IF MaxRot = 0 THEN {} ELSE {Rotten}

(* Targets that can have a row of k: an archive copy is only ever written  *)
(* to archive targets.                                                     *)
InReach(k, t) == k \in ArchiveKeys => t \in Archive

(* Until a removal is authorised, bytes once written stay.                 *)
Kept(k, t) == k \in erased \/ disk[k][t] # None

-----------------------------------------------------------------------------
(* The inductive invariant, part by part.                                  *)

(* Bytes under a key, stored or in flight, are bytes a caller sent for it. *)
BytesInv ==
    /\ \A k \in Keys : meta[k] \in Body[k] \cup {None}
    /\ \A k \in Keys, t \in Targets : disk[k][t] \in Body[k] \cup {None} \cup Damage
    /\ \A k \in Keys : upload[k].phase # "idle" =>
          upload[k].phase = "writing" /\ upload[k].content \in Body[k]
    /\ \A h \in sweep.held : h.data \in Body[h.key] \cup Damage

(* No request keeps a row out of reach, or works on one.                   *)
ReachInv ==
    /\ \A k \in Keys, t \in Targets : ~InReach(k, t) =>
          /\ copies[k][t].status = "none"
          /\ sweep.mine[k][t].status = "none"
          /\ check.mine[k][t].status = "none"
          /\ t \notin upload[k].todo \cup upload[k].wrote
          /\ <<k, t>> \notin sweep.todo \cup check.todo
    /\ \A h \in sweep.held : <<h.key, h.target>> \in sweep.todo

(* A deletion in flight was authorised, or dehydrates an archive key.      *)
RemovalInv ==
    \A k \in Keys :
        /\ removal[k].todo \subseteq Live
        /\ removal[k].phase = "deleting" =>
              k \in erased \/ (k \in ArchiveKeys /\ removal[k].scope = "live")

(* "ok", in the table or about to be committed, means the bytes are there. *)
KeptInv ==
    /\ \A k \in Keys, t \in Targets :
          (\/ copies[k][t].status = "ok" \/ sweep.mine[k][t].status = "ok"
           \/ check.mine[k][t].status = "ok" \/ t \in upload[k].wrote) => Kept(k, t)
    /\ \A k \in check.keys : check.expect[k] # None
    /\ \A p \in check.todo : check.expect[p[1]] # None

CopyInv == TypeOK /\ BytesInv /\ ReachInv /\ RemovalInv /\ KeptInv

-----------------------------------------------------------------------------
(* Uploads without a quorum: begin, store, and end; no copy is undone.     *)
LEMMA UploadOutcome ==
    ASSUME TypeOK, Async, [Next]_vars, NEW k \in Keys, upload'[k] # upload[k],
           upload[k].phase # "undo"
    PROVE  \/ upload'[k] = NoUpload
           \/ /\ UploadBegin(k)
              /\ upload'[k].phase = "writing" /\ upload'[k].content \in Body[k]
              /\ upload'[k].todo = FirstWrites(k) /\ upload'[k].wrote = {}
              /\ FirstWrites(k) # {}
           \/ \E t \in upload[k].todo :
                 /\ UploadStored(k, t)
                 /\ upload'[k] = [upload[k] EXCEPT !.todo = @ \ {t}, !.wrote = @ \cup {t}]
<1>1. upload \in [Keys -> UploadJob] /\ upload' # upload
  BY DEF TypeOK
<1>2. PICK x \in Keys : UploadNext(x)
  BY <1>1, UploadChange
<1>3. x = k
  BY <1>1, <1>2 DEF UploadNext, UploadBegin, UploadStored, UploadRaised, UploadCommit,
     QuorumMissed, UndoWrite, UploadRollback, UploadLost
<1>4. ~Quorate(k) /\ Confirmed(k)
  BY DEF Async, Quorate, Confirmed
<1>5. CASE UploadBegin(k)
  <2>1. PICK c \in Body[k], u \in 0..Horizon :
          upload' = [upload EXCEPT ![k] =
             [phase |-> "writing", content |-> c, until |-> u,
              todo |-> FirstWrites(k), wrote |-> {}]]
    <3>1. (IF IsArchive(k) THEN {0} ELSE 0..Horizon) \subseteq 0..Horizon
      BY StorageAssumption
    <3> QED
      BY <1>5, <3>1 DEF UploadBegin
  <2>2. FirstWrites(k) # {}
    BY <1>5, StorageAssumption DEF UploadBegin, FirstWrites, Async
  <2> QED
    BY <1>1, <1>5, <2>1, <2>2
<1>6. ASSUME NEW t \in Targets, UploadStored(k, t)
      PROVE  /\ t \in upload[k].todo
             /\ upload'[k] = [upload[k] EXCEPT !.todo = @ \ {t}, !.wrote = @ \cup {t}]
  <2>1. t \in upload[k].todo
    BY <1>6 DEF UploadStored, NextWrites, FirstOf
  <2> QED
    BY <1>1, <1>6, <2>1 DEF UploadStored
<1>7. ASSUME NEW t \in Targets, UploadRaised(k, t) PROVE upload'[k] = NoUpload
  BY <1>1, <1>4, <1>7 DEF UploadRaised, AfterRaise
<1>8. CASE UploadCommit(k) \/ UploadRollback(k) \/ UploadLost(k)
  BY <1>1, <1>8 DEF UploadCommit, UploadRollback, UploadLost
<1>9. ~QuorumMissed(k) /\ \A t \in Targets : ~UndoWrite(k, t)
  BY <1>4 DEF QuorumMissed, UndoWrite
<1> QED
  BY <1>2, <1>3, <1>5, <1>6, <1>7, <1>8, <1>9 DEF UploadNext

(* A backend's bytes change by a write of a PUT or of the sweep, when a    *)
(* PUT is undone, by a deletion, or by damage.                             *)
LEMMA DiskOutcome ==
    ASSUME TypeOK, [Next]_vars, NEW k \in Keys, NEW t \in Targets,
           disk'[k][t] # disk[k][t]
    PROVE  \/ upload[k].phase = "writing" /\ disk'[k][t] = upload[k].content
           \/ upload[k].phase = "undo" /\ disk'[k][t] = None
           \/ \E h \in sweep.held : h.key = k /\ h.target = t /\ disk'[k][t] = h.data
           \/ RemovalDelete(k, t) /\ disk'[k][t] = None
           \/ MediaRots(k, t) /\ disk'[k][t] = Rotten
<1>1. disk \in [Keys -> [Targets -> Bytes]] /\ disk' # disk
  BY DEF TypeOK
<1>2. \A x \in Keys, y \in Targets : \A bytes :
          Store(x, y, bytes) => x = k /\ y = t /\ disk'[k][t] = bytes
  BY <1>1 DEF Store
<1>3. ASSUME NEW x \in Keys, NEW y \in Targets, UploadStored(x, y) \/ UploadRaised(x, y)
      PROVE  upload[k].phase = "writing" /\ disk'[k][t] = upload[k].content
  BY <1>1, <1>2, <1>3 DEF UploadStored, UploadRaised, MayStore
<1>4. ASSUME NEW x \in Keys, NEW y \in Targets, UndoWrite(x, y)
      PROVE  upload[k].phase = "undo" /\ disk'[k][t] = None
  BY <1>1, <1>2, <1>4 DEF UndoWrite
<1>5. ASSUME NEW x \in Keys, NEW y \in Targets, RemovalDelete(x, y)
      PROVE  RemovalDelete(k, t) /\ disk'[k][t] = None
  <2>1. x = k /\ y = t /\ disk'[k][t] = None
    BY <1>1, <1>2, <1>5 DEF RemovalDelete
  <2> QED
    BY <2>1, <1>5
<1>6. ASSUME NEW x \in Keys, NEW y \in Targets, MediaRots(x, y)
      PROVE  MediaRots(k, t) /\ disk'[k][t] = Rotten
  <2>1. x = k /\ y = t /\ disk'[k][t] = Rotten
    BY <1>1, <1>2, <1>6 DEF MediaRots
  <2> QED
    BY <2>1, <1>6
<1>7. ASSUME SweepWrite \/ SweepWriteRaised
      PROVE  \E h \in sweep.held : h.key = k /\ h.target = t /\ disk'[k][t] = h.data
  <2>1. PICK h \in sweep.held : MayStore(h.key, h.target, h.data)
    BY <1>7 DEF SweepWrite, SweepWriteRaised, MayStore
  <2>2. h.key \in Keys /\ h.target \in Targets
    BY DEF TypeOK, SweepJob, Held
  <2> QED
    BY <1>1, <1>2, <2>1, <2>2 DEF MayStore
<1>8. CASE SweepWrite \/ SweepWriteRaised
  BY <1>7, <1>8
<1>9. ASSUME NEW x \in Keys, NEW y \in Targets,
             \/ UploadStored(x, y) \/ UploadRaised(x, y) \/ UndoWrite(x, y)
             \/ RemovalDelete(x, y) \/ MediaRots(x, y)
      PROVE  \/ upload[k].phase = "writing" /\ disk'[k][t] = upload[k].content
             \/ upload[k].phase = "undo" /\ disk'[k][t] = None
             \/ RemovalDelete(k, t) /\ disk'[k][t] = None
             \/ MediaRots(k, t) /\ disk'[k][t] = Rotten
  BY <1>3, <1>4, <1>5, <1>6, <1>9
<1> QED
  BY <1>1, <1>8, <1>9, DiskChange

(* A sweep holds bytes only after reading them from a source.              *)
LEMMA SweepHeld ==
    ASSUME TypeOK, [Next]_vars, sweep' # sweep
    PROVE  \/ sweep'.held = {}
           \/ \E p \in sweep.todo, s \in Targets : SweepRead(p[1], p[2], s)
<1>1. ASSUME NEW k \in Keys, NEW t \in Targets, NEW row \in Row,
             sweep' = [sweep EXCEPT !.todo = @ \ {<<k, t>>}, !.held = {}, !.mine[k][t] = row]
      PROVE  sweep'.held = {}
  BY <1>1 DEF TypeOK, SweepJob
<1>2. CASE sweep' = NoSweep
  BY <1>2 DEF NoSweep
<1>3. CASE SweepBegin
  BY <1>3 DEF SweepBegin
<1>4. ASSUME NEW k \in Keys, NEW t \in Targets, NEW row \in Row,
             /\ sweep' = [sweep EXCEPT !.todo = @ \ {<<k, t>>}, !.held = {}, !.mine[k][t] = row]
             /\ <<k, t>> \in sweep.todo \/ \E h \in sweep.held : h.key = k /\ h.target = t
      PROVE  sweep'.held = {}
  BY <1>1, <1>4
<1> QED
  BY <1>2, <1>3, <1>4, SweepOutcome

-----------------------------------------------------------------------------
(* Bytes.                                                                  *)

LEMMA BytesStep ==
    ASSUME TypeOK, Async, BytesInv, [Next]_vars
    PROVE  BytesInv'
<1>1. ASSUME NEW k \in Keys
      PROVE  upload[k].phase # "undo" /\ None \notin Body[k] /\ Rotten \notin Body[k]
             /\ Body[k] \subseteq Contents
  BY StorageAssumption DEF BytesInv
<1>2. ASSUME NEW k \in Keys PROVE meta'[k] \in Body[k] \cup {None}
  <2>1. CASE meta' = meta
    BY <2>1 DEF BytesInv
  <2>2. ASSUME NEW x \in Keys, UploadCommit(x) PROVE meta'[k] \in Body[k] \cup {None}
    BY <2>2 DEF UploadCommit, BytesInv, TypeOK
  <2>3. ASSUME NEW x \in Keys, RemovalCommit(x) PROVE meta'[k] \in Body[k] \cup {None}
    BY <2>3 DEF RemovalCommit, BytesInv, TypeOK
  <2> QED
    BY <2>1, <2>2, <2>3, MetaChange
<1>3. ASSUME NEW k \in Keys, NEW t \in Targets
      PROVE  disk'[k][t] \in Body[k] \cup {None} \cup Damage
  <2>1. CASE disk'[k][t] = disk[k][t]
    BY <2>1 DEF BytesInv
  <2>2. CASE upload[k].phase = "writing" /\ disk'[k][t] = upload[k].content
    BY <2>2 DEF BytesInv
  <2>3. CASE \E h \in sweep.held : h.key = k /\ h.target = t /\ disk'[k][t] = h.data
    BY <2>3 DEF BytesInv
  <2>4. CASE MediaRots(k, t) /\ disk'[k][t] = Rotten
    BY <2>4, StorageAssumption DEF MediaRots, Damage, TypeOK
  <2> QED
    BY <1>1, <2>1, <2>2, <2>3, <2>4, DiskOutcome
<1>4. ASSUME NEW k \in Keys, upload'[k].phase # "idle"
      PROVE  upload'[k].phase = "writing" /\ upload'[k].content \in Body[k]
  <2>1. CASE upload'[k] = upload[k]
    BY <1>4, <2>1 DEF BytesInv
  <2>2. ASSUME NEW t \in upload[k].todo,
               upload'[k] = [upload[k] EXCEPT !.todo = @ \ {t}, !.wrote = @ \cup {t}]
        PROVE  upload'[k].phase = "writing" /\ upload'[k].content \in Body[k]
    BY <1>4, <2>2 DEF BytesInv, TypeOK, UploadJob
  <2>3. upload'[k] # NoUpload
    BY <1>4 DEF NoUpload
  <2> HIDE DEF NoUpload
  <2> QED
    BY <1>1, <2>1, <2>2, <2>3, UploadOutcome
<1>5. ASSUME NEW h \in sweep'.held PROVE h.data \in Body[h.key] \cup Damage
  <2>1. CASE sweep' = sweep
    BY <2>1, <1>5 DEF BytesInv
  <2>2. ASSUME NEW p \in sweep.todo, NEW s \in Targets, SweepRead(p[1], p[2], s)
        PROVE  h.data \in Body[h.key] \cup Damage
    <3>1. p[1] \in Keys
      BY DEF TypeOK, SweepJob, Pairs
    <3>2. h.key = p[1] /\ h.data = disk[p[1]][s] /\ h.data # None
      BY <1>5, <2>2 DEF SweepRead, TypeOK, SweepJob
    <3> QED
      BY <3>1, <3>2 DEF BytesInv
  <2>3. CASE \E p \in sweep.todo, s \in Targets : SweepRead(p[1], p[2], s)
    BY <2>2, <2>3
  <2> QED
    BY <1>5, <2>1, <2>3, SweepHeld
<1> QED
  BY <1>2, <1>3, <1>4, <1>5 DEF BytesInv

-----------------------------------------------------------------------------
(* Rows out of reach.                                                      *)

LEMMA ReachStep ==
    ASSUME TypeOK, Async, BytesInv, ReachInv, [Next]_vars
    PROVE  ReachInv'
<1>1. ASSUME NEW k \in Keys, NEW t \in Targets, ~InReach(k, t)
      PROVE  copies'[k][t].status = "none"
  <2>1. copies[k][t].status = "none" /\ t \notin upload[k].wrote
    BY <1>1 DEF ReachInv
  <2>2. WrittenRow(k, t) = copies[k][t]
    BY <1>1, <2>1 DEF WrittenRow, Quorate, IsArchive, InReach, Async
  <2> QED
    BY <2>1, <2>2, CopyRowStep DEF NoRow
<1>2. ASSUME NEW k \in Keys, NEW t \in Targets, ~InReach(k, t)
      PROVE  sweep'.mine[k][t].status = "none" /\ <<k, t>> \notin sweep'.todo
  <2>1. sweep.mine[k][t].status = "none" /\ <<k, t>> \notin sweep.todo
    BY <1>2 DEF ReachInv
  <2>2. CASE sweep' = NoSweep
    BY <2>2 DEF NoSweep, NoRows, NoRow
  <2>3. CASE SweepBegin
    <3>1. <<k, t>> \notin DuePairs
      BY <1>2 DEF ReachInv, DuePairs
    <3> QED
      BY <2>3, <3>1 DEF SweepBegin, DueRows, NoRow
  <2>4. CASE \E p \in sweep.todo, s \in Targets : SweepRead(p[1], p[2], s)
    BY <2>1, <2>4 DEF SweepRead, TypeOK, SweepJob
  <2>5. ASSUME NEW x \in Keys, NEW y \in Targets, NEW row \in Row,
               sweep' = [sweep EXCEPT !.todo = @ \ {<<x, y>>}, !.held = {},
                                      !.mine[x][y] = row],
               <<x, y>> \in sweep.todo \/ \E h \in sweep.held : h.key = x /\ h.target = y
        PROVE  sweep'.mine[k][t].status = "none" /\ <<k, t>> \notin sweep'.todo
    <3>1. <<x, y>> \in sweep.todo
      BY <2>5 DEF ReachInv
    <3>2. ~(k = x /\ t = y)
      BY <2>1, <3>1
    <3> QED
      BY <2>1, <2>5, <3>2 DEF TypeOK, SweepJob
  <2>6. CASE sweep' = sweep
    BY <2>1, <2>6
  <2> QED
    BY <2>2, <2>3, <2>4, <2>5, <2>6, SweepOutcome
<1>3. ASSUME NEW k \in Keys, NEW t \in Targets, ~InReach(k, t)
      PROVE  check'.mine[k][t].status = "none" /\ <<k, t>> \notin check'.todo
  <2>1. check.mine[k][t].status = "none" /\ <<k, t>> \notin check.todo
        /\ copies[k][t].status = "none"
    BY <1>3 DEF ReachInv
  <2>2. CASE check' = NoCheck
    BY <2>2 DEF NoCheck, NoRows, NoRow
  <2>3. CASE \E ks \in SUBSET Keys : CheckBegin(ks)
    BY <2>3 DEF CheckBegin, NoRows, NoRow
  <2>4. ASSUME NEW x \in check.keys, CheckList(x)
        PROVE  check'.mine[k][t].status = "none" /\ <<k, t>> \notin check'.todo
    <3>1. x \in Keys /\ check'.mine = [check.mine EXCEPT ![x] = copies[x]]
      BY <2>4 DEF CheckList, TypeOK, CheckJob
    <3>2. check'.mine[k][t].status = "none"
      BY <2>1, <3>1 DEF TypeOK, CheckJob
    <3>3. <<k, t>> \notin check'.todo
      BY <2>1, <2>4 DEF CheckList
    <3> QED
      BY <3>2, <3>3
  <2>5. ASSUME NEW x \in Keys, NEW y \in Targets, NEW row \in Row,
               check' = [check EXCEPT !.todo = @ \ {<<x, y>>}, !.mine[x][y] = row],
               <<x, y>> \in check.todo
        PROVE  check'.mine[k][t].status = "none" /\ <<k, t>> \notin check'.todo
    <3>1. ~(k = x /\ t = y)
      BY <2>1, <2>5
    <3> QED
      BY <2>1, <2>5, <3>1 DEF TypeOK, CheckJob
  <2>6. CASE check' = check
    BY <2>1, <2>6
  <2>7. CASE \E x \in check.keys : CheckList(x)
    BY <2>4, <2>7
  <2> QED
    BY <2>2, <2>3, <2>5, <2>6, <2>7, CheckOutcome
<1>4. ASSUME NEW k \in Keys, NEW t \in Targets, ~InReach(k, t)
      PROVE  t \notin upload'[k].todo \cup upload'[k].wrote
  <2>1. t \notin upload[k].todo \cup upload[k].wrote /\ upload[k].phase # "undo"
    BY <1>4 DEF ReachInv, BytesInv
  <2>2. t \notin FirstWrites(k)
    BY <1>4 DEF FirstWrites, IsArchive, InReach
  <2>3. ASSUME NEW u \in upload[k].todo,
               upload'[k] = [upload[k] EXCEPT !.todo = @ \ {u}, !.wrote = @ \cup {u}]
        PROVE  t \notin upload'[k].todo \cup upload'[k].wrote
    BY <2>1, <2>3 DEF TypeOK, UploadJob
  <2>4. t \notin NoUpload.todo \cup NoUpload.wrote
    BY DEF NoUpload
  <2>5. CASE upload'[k] = upload[k]
    BY <2>1, <2>5
  <2> QED
    BY <2>1, <2>2, <2>3, <2>4, <2>5, UploadOutcome
<1>5. ASSUME NEW h \in sweep'.held PROVE <<h.key, h.target>> \in sweep'.todo
  <2>1. CASE sweep' = sweep
    BY <1>5, <2>1 DEF ReachInv
  <2>2. CASE \E p \in sweep.todo, s \in Targets : SweepRead(p[1], p[2], s)
    <3>1. PICK p \in sweep.todo, s \in Targets : SweepRead(p[1], p[2], s)
      BY <2>2
    <3>2. p = <<p[1], p[2]>>
      BY DEF TypeOK, SweepJob, Pairs
    <3>3. h.key = p[1] /\ h.target = p[2] /\ sweep'.todo = sweep.todo
      BY <1>5, <3>1 DEF SweepRead, TypeOK, SweepJob
    <3> QED
      BY <3>2, <3>3
  <2> QED
    BY <1>5, <2>1, <2>2, SweepHeld
<1> QED
  BY <1>1, <1>2, <1>3, <1>4, <1>5 DEF ReachInv

-----------------------------------------------------------------------------
(* Removals.                                                               *)

LEMMA RemovalStep ==
    ASSUME TypeOK, RemovalInv, [Next]_vars
    PROVE  RemovalInv'
<1> SUFFICES ASSUME NEW k \in Keys
             PROVE  /\ removal'[k].todo \subseteq Live
                    /\ removal'[k].phase = "deleting" =>
                         k \in erased' \/ (k \in ArchiveKeys /\ removal'[k].scope = "live")
  BY DEF RemovalInv
<1>1. erased \subseteq erased' /\ removal \in [Keys -> RemovalJob]
  BY HistoryGrows DEF TypeOK
<1>2. CASE removal'[k] = removal[k]
  BY <1>1, <1>2 DEF RemovalInv
<1>3. CASE removal'[k] # removal[k]
  <2>1. PICK x \in Keys : RemovalNext(x)
    BY <1>3, RemovalChange
  <2>2. x = k
    BY <1>1, <1>3, <2>1 DEF RemovalNext, RemovalBegin, RemovalDelete, RemovalCommit, RemovalLost
  <2>3. ASSUME NEW scope \in {"all", "live"}, NEW bypass \in BOOLEAN,
               RemovalBegin(k, scope, bypass)
        PROVE  /\ removal'[k].todo = Live
               /\ removal'[k].scope = scope
               /\ k \in erased' \/ (scope = "live" /\ IsArchive(k))
    BY <1>1, <2>3 DEF RemovalBegin
  <2>4. ASSUME NEW t \in Targets, RemovalDelete(k, t)
        PROVE  /\ removal'[k].todo \subseteq Live
               /\ removal'[k].phase = "deleting" =>
                    k \in erased' \/ (k \in ArchiveKeys /\ removal'[k].scope = "live")
    <3>1. removal' = [removal EXCEPT ![k].todo = @ \ {t}]
      BY <2>4 DEF RemovalDelete
    <3>2. /\ removal'[k].todo = removal[k].todo \ {t}
          /\ removal'[k].phase = removal[k].phase /\ removal'[k].scope = removal[k].scope
      BY <1>1, <3>1 DEF RemovalJob
    <3> QED
      BY <1>1, <3>2 DEF RemovalInv
  <2>5. CASE RemovalCommit(k) \/ RemovalLost(k)
    BY <1>1, <2>5 DEF RemovalCommit, RemovalLost, NoRemoval
  <2>6. CASE \E t \in Targets : RemovalDelete(k, t)
    BY <2>4, <2>6
  <2>7. CASE \E scope \in {"all", "live"}, bypass \in BOOLEAN : RemovalBegin(k, scope, bypass)
    BY <2>3, <2>7 DEF IsArchive
  <2>8. RemovalNext(k)
    BY <2>1, <2>2
  <2> QED
    BY <2>5, <2>6, <2>7, <2>8 DEF RemovalNext
<1> QED
  BY <1>2, <1>3

-----------------------------------------------------------------------------
(* Bytes behind "ok".                                                      *)

LEMMA NoBytes ==
    ASSUME NEW k \in Keys
    PROVE  None \notin Body[k] \cup Damage
  BY StorageAssumption DEF Damage

(* Only an authorised removal takes bytes from a target in reach.          *)
LEMMA KeptStays ==
    ASSUME TypeOK, BytesInv, RemovalInv, [Next]_vars, NEW k \in Keys, NEW t \in Targets,
           InReach(k, t), Kept(k, t)
    PROVE  Kept(k, t)'
<1>1. erased \subseteq erased'
  BY HistoryGrows
<1>2. CASE k \in erased
  BY <1>1, <1>2 DEF Kept
<1>3. CASE k \notin erased /\ disk'[k][t] = disk[k][t]
  BY <1>3 DEF Kept
<1>4. CASE k \notin erased /\ disk'[k][t] # disk[k][t]
  <2>1. upload[k].phase # "undo"
    BY DEF BytesInv
  <2>2. CASE upload[k].phase = "writing" /\ disk'[k][t] = upload[k].content
    BY <2>2, NoBytes DEF BytesInv, Kept
  <2>3. CASE \E h \in sweep.held : h.key = k /\ h.target = t /\ disk'[k][t] = h.data
    BY <2>3, NoBytes DEF BytesInv, Kept
  <2>4. ~RemovalDelete(k, t)
    BY <1>4, StorageAssumption DEF RemovalDelete, FirstOf, RemovalInv, InReach
  <2>5. CASE disk'[k][t] = Rotten
    BY <2>5, StorageAssumption DEF Kept
  <2> QED
    BY <1>4, <2>1, <2>2, <2>3, <2>4, <2>5, DiskOutcome
<1> QED
  BY <1>2, <1>3, <1>4

LEMMA KeptStep ==
    ASSUME CopyInv, Async, ReachInv', [Next]_vars
    PROVE  KeptInv'
<1> USE DEF CopyInv
<1>1. ASSUME NEW k \in Keys, NEW t \in Targets, copies'[k][t].status = "ok"
      PROVE  Kept(k, t)'
  <2>1. InReach(k, t)
    BY <1>1 DEF ReachInv, InReach
  <2>2. Kept(k, t)
    <3>1. CASE copies'[k][t].status = copies[k][t].status
      BY <1>1, <3>1 DEF KeptInv
    <3>2. CASE copies'[k][t] = WrittenRow(k, t) /\ copies[k][t].status # "ok"
      BY <1>1, <3>2 DEF KeptInv, WrittenRow, RecordCopy
    <3>3. CASE sweep.mine[k][t].status = "ok" \/ check.mine[k][t].status = "ok"
      BY <3>3 DEF KeptInv
    <3>4. NoRow.status # "ok"
      BY DEF NoRow
    <3> QED
      BY <1>1, <3>1, <3>2, <3>3, <3>4, CopyRowStep
  <2> QED
    BY <2>1, <2>2, KeptStays
<1>2. ASSUME NEW k \in Keys, NEW t \in Targets, sweep'.mine[k][t].status = "ok"
      PROVE  Kept(k, t)'
  <2>1. InReach(k, t)
    BY <1>2 DEF ReachInv, InReach
  <2>2. CASE sweep.mine[k][t].status = "ok"
    BY <2>1, <2>2, KeptStays DEF KeptInv
  <2>3. CASE sweep.mine[k][t].status # "ok"
    <3>1. ASSUME NEW x \in Keys, NEW y \in Targets, NEW row \in Row,
                 sweep' = [sweep EXCEPT !.todo = @ \ {<<x, y>>}, !.held = {},
                                        !.mine[x][y] = row],
                 row.status = "ok" =>
                    \E h \in sweep.held : h.key = x /\ h.target = y /\ Store(x, y, h.data)
          PROVE  Kept(k, t)'
      <4>1. x = k /\ y = t /\ row.status = "ok"
        BY <1>2, <2>3, <3>1 DEF TypeOK, SweepJob
      <4>2. PICK h \in sweep.held : h.key = k /\ h.target = t /\ Store(k, t, h.data)
        BY <3>1, <4>1
      <4>3. disk'[k][t] = h.data
        BY <4>2 DEF TypeOK, Store
      <4> QED
        BY <4>2, <4>3, NoBytes DEF BytesInv, Kept
    <3>2. CASE sweep' = NoSweep
      BY <1>2, <3>2 DEF NoSweep, NoRows, NoRow
    <3>3. CASE SweepBegin
      BY <1>2, <3>3 DEF SweepBegin, DueRows, DuePairs, NoRow
    <3>4. CASE \E p \in sweep.todo, s \in Targets : SweepRead(p[1], p[2], s)
      BY <1>2, <2>3, <3>4 DEF SweepRead, TypeOK, SweepJob
    <3>5. CASE sweep' = sweep
      BY <1>2, <2>3, <3>5
    <3> QED
      BY <3>1, <3>2, <3>3, <3>4, <3>5, SweepOutcome
  <2> QED
    BY <2>2, <2>3
<1>3. ASSUME NEW k \in Keys, NEW t \in Targets, check'.mine[k][t].status = "ok"
      PROVE  Kept(k, t)'
  <2>1. InReach(k, t)
    BY <1>3 DEF ReachInv, InReach
  <2>2. Kept(k, t)
    <3>1. ASSUME NEW x \in Keys, NEW y \in Targets, NEW row \in Row,
                 check' = [check EXCEPT !.todo = @ \ {<<x, y>>}, !.mine[x][y] = row],
                 <<x, y>> \in check.todo,
                 row.status = "ok" => disk[x][y] = check.expect[x]
          PROVE  Kept(k, t)
      <4>1. CASE x = k /\ y = t
        <5>1. row.status = "ok"
          BY <1>3, <3>1, <4>1 DEF TypeOK, CheckJob
        <5>2. check.expect[k] # None
          BY <3>1, <4>1 DEF KeptInv
        <5> QED
          BY <3>1, <4>1, <5>1, <5>2 DEF Kept
      <4>2. CASE ~(x = k /\ y = t)
        <5>1. check.mine[k][t].status = "ok"
          BY <1>3, <3>1, <4>2 DEF TypeOK, CheckJob
        <5> QED
          BY <5>1 DEF KeptInv
      <4> QED
        BY <4>1, <4>2
    <3>2. CASE check' = NoCheck
      BY <1>3, <3>2 DEF NoCheck, NoRows, NoRow
    <3>3. CASE \E ks \in SUBSET Keys : CheckBegin(ks)
      BY <1>3, <3>3 DEF CheckBegin, NoRows, NoRow
    <3>4. ASSUME NEW x \in check.keys, CheckList(x) PROVE Kept(k, t)
      <4>1. x \in Keys /\ check'.mine = [check.mine EXCEPT ![x] = copies[x]]
        BY <3>4 DEF CheckList, TypeOK, CheckJob
      <4>2. copies[k][t].status = "ok" \/ check.mine[k][t].status = "ok"
        BY <1>3, <4>1 DEF TypeOK, CheckJob
      <4> QED
        BY <4>2 DEF KeptInv
    <3>5. CASE check' = check
      BY <1>3, <3>5 DEF KeptInv
    <3>6. CASE \E x \in check.keys : CheckList(x)
      BY <3>4, <3>6
    <3> QED
      BY <3>1, <3>2, <3>3, <3>5, <3>6, CheckOutcome
  <2> QED
    BY <2>1, <2>2, KeptStays
<1>4. ASSUME NEW k \in Keys, NEW t \in Targets, t \in upload'[k].wrote
      PROVE  Kept(k, t)'
  <2>1. InReach(k, t)
    BY <1>4 DEF ReachInv, InReach
  <2>2. CASE t \in upload[k].wrote
    BY <2>1, <2>2, KeptStays DEF KeptInv
  <2>3. CASE t \notin upload[k].wrote
    <3>1. ASSUME NEW u \in upload[k].todo, UploadStored(k, u),
                 upload'[k] = [upload[k] EXCEPT !.todo = @ \ {u}, !.wrote = @ \cup {u}]
          PROVE  Kept(k, t)'
      <4>1. u = t
        BY <1>4, <2>3, <3>1 DEF TypeOK, UploadJob
      <4>2. disk'[k][t] = upload[k].content /\ upload[k].content \in Body[k]
        BY <3>1, <4>1 DEF UploadStored, Store, TypeOK, BytesInv
      <4> QED
        BY <4>2, NoBytes DEF Kept
    <3>2. upload[k].phase # "undo" /\ t \notin NoUpload.wrote
      BY DEF BytesInv, NoUpload
    <3> HIDE DEF NoUpload
    <3> QED
      BY <1>4, <2>3, <3>1, <3>2, UploadOutcome
  <2> QED
    BY <2>2, <2>3
<1>5. /\ \A k \in check'.keys : check'.expect[k] # None
      /\ \A p \in check'.todo : check'.expect[p[1]] # None
  <2> DEFINE Expected == /\ \A k \in check'.keys : check'.expect[k] # None
                         /\ \A p \in check'.todo : check'.expect[p[1]] # None
  <2>1. check' = NoCheck => Expected
    BY DEF NoCheck
  <2>2. ASSUME NEW ks \in SUBSET Keys, CheckBegin(ks) PROVE Expected
    BY <2>2 DEF CheckBegin
  <2>3. ASSUME NEW x \in check.keys, CheckList(x)
        PROVE  Expected
    <3>1. /\ check'.expect = check.expect /\ check'.keys \subseteq check.keys
          /\ \A p \in check'.todo : p[1] = x
      BY <2>3 DEF CheckList, TypeOK, CheckJob
    <3> QED
      BY <3>1 DEF KeptInv
  <2>4. ASSUME NEW x \in Keys, NEW y \in Targets, NEW row \in Row,
               check' = [check EXCEPT !.todo = @ \ {<<x, y>>}, !.mine[x][y] = row]
        PROVE  Expected
    <3>1. /\ check'.expect = check.expect /\ check'.keys = check.keys
          /\ check'.todo \subseteq check.todo
      BY <2>4 DEF TypeOK, CheckJob
    <3> QED
      BY <3>1 DEF KeptInv
  <2>5. check' = check => Expected
    BY DEF KeptInv
  <2> HIDE DEF Expected
  <2>6. ASSUME check' # check PROVE Expected
    BY <2>1, <2>2, <2>3, <2>4, <2>6, CheckOutcome
  <2> QED
    BY <2>5, <2>6 DEF Expected
<1> QED
  BY <1>1, <1>2, <1>3, <1>4, <1>5 DEF KeptInv

-----------------------------------------------------------------------------
LEMMA CopyInit == Init => CopyInv
<1> SUFFICES ASSUME Init PROVE CopyInv
  OBVIOUS
<1>1. TypeOK
  BY TypeInit
<1>2. BytesInv
  BY StorageAssumption DEF Init, BytesInv, NoUpload, NoSweep
<1>3. ReachInv
  <2>1. /\ copies = NoRows /\ sweep = NoSweep /\ check = NoCheck
        /\ \A k \in Keys : upload[k] = NoUpload
    BY DEF Init
  <2>2. \A k \in Keys, t \in Targets : NoRows[k][t].status = "none"
    BY DEF NoRows, NoRow
  <2> QED
    BY <2>1, <2>2 DEF ReachInv, NoUpload, NoSweep, NoCheck
<1>4. RemovalInv
  BY DEF Init, RemovalInv, NoRemoval
<1>5. KeptInv
  BY DEF Init, KeptInv, NoUpload, NoSweep, NoCheck, NoRows, NoRow
<1> QED
  BY <1>1, <1>2, <1>3, <1>4, <1>5 DEF CopyInv

LEMMA CopyStep ==
    ASSUME Async, CopyInv, [Next]_vars
    PROVE  CopyInv'
  BY TypeStep, BytesStep, ReachStep, RemovalStep, KeptStep DEF CopyInv

(* Under "primary_async" a copy the database calls "ok" holds the bytes    *)
(* the PUT acknowledged, or was damaged on its medium: however uploads,    *)
(* deletions, the sweep, fixity checks, faults and crashes interleave.     *)
THEOREM AsyncCopiesFaithful ==
    ASSUME Async, WriteOnce
    PROVE  Spec => []ConfirmedCopiesFaithful
<1>1. Init => CopyInv
  BY CopyInit
<1>2. CopyInv /\ [Next]_vars => CopyInv'
  BY CopyStep
<1>3. CopyInv => ConfirmedCopiesFaithful
  <2> SUFFICES ASSUME CopyInv, NEW k \in Keys, NEW t \in Targets,
                      Acknowledged(k), copies[k][t].status = "ok"
               PROVE  disk[k][t] \in {meta[k], Rotten}
    BY DEF ConfirmedCopiesFaithful
  <2>1. meta[k] \in Body[k]
    BY DEF Acknowledged, CopyInv, BytesInv
  <2>2. disk[k][t] # None
    BY DEF Acknowledged, CopyInv, KeptInv, Kept
  <2>3. disk[k][t] \in Body[k] \/ disk[k][t] = Rotten
    BY <2>2 DEF CopyInv, BytesInv, Damage
  <2> QED
    BY <2>1, <2>3 DEF WriteOnce
<1> QED
  BY <1>1, <1>2, <1>3, PTL DEF Spec

-----------------------------------------------------------------------------
(* The targets a PUT writes before it answers keep a row and the bytes.    *)
FirstInv ==
    /\ \A k \in Keys : upload[k].phase = "writing" =>
          FirstWrites(k) # {} /\ FirstWrites(k) \subseteq upload[k].todo \cup upload[k].wrote
    /\ \A k \in Keys : meta[k] # None => FirstWrites(k) # {}
    /\ \A k \in Keys, t \in Targets :
          /\ sweep.mine[k][t].status = "none" => sweep.loaded[k][t].status = "none"
          /\ check.mine[k][t].status = "none" => check.loaded[k][t].status = "none"
    /\ \A k \in Keys : Acknowledged(k) => \A t \in FirstWrites(k) :
          copies[k][t].status # "none" /\ disk[k][t] # None

LEMMA FirstWritesReach ==
    ASSUME NEW k \in Keys, NEW t \in FirstWrites(k), Async
    PROVE  InReach(k, t) /\ t \in Targets /\ (IsArchive(k) => t \notin Live)
  BY StorageAssumption DEF FirstWrites, InReach, IsArchive, Targets, Async

(* A target that confirms a PUT has a row of it until a removal is         *)
(* authorised.                                                             *)
LEMMA FirstRowStep ==
    ASSUME CopyInv, FirstInv, Async, [Next]_vars, NEW k \in Keys, NEW t \in FirstWrites(k),
           Acknowledged(k)'
    PROVE  (copies[k][t].status # "none" /\ disk[k][t] # None)'
<1> USE DEF CopyInv
<1>1. t \in Targets /\ InReach(k, t) /\ (IsArchive(k) => t \notin Live) /\ k \notin erased
  BY FirstWritesReach, HistoryGrows DEF Acknowledged
<1>2. CASE UploadCommit(k)
  <2>1. t \in upload[k].wrote
    BY <1>2 DEF UploadCommit, FirstInv
  <2>2. copies'[k][t] = WrittenRow(k, t) /\ disk' = disk
    BY <1>1, <1>2 DEF UploadCommit, TypeOK
  <2>3. WrittenRow(k, t).status # "none"
    BY <2>1 DEF WrittenRow, RecordCopy
  <2>4. disk[k][t] # None
    BY <1>1, <2>1 DEF KeptInv, Kept
  <2> QED
    BY <2>2, <2>3, <2>4
<1>3. CASE ~UploadCommit(k)
  <2>1. meta[k] # None
    <3>1. CASE meta' = meta
      BY <3>1 DEF Acknowledged
    <3>2. ASSUME NEW x \in Keys, UploadCommit(x) PROVE meta[k] # None
      <4>1. x # k
        BY <1>3, <3>2
      <4> QED
        BY <3>2, <4>1 DEF UploadCommit, TypeOK, Acknowledged
    <3>3. ASSUME NEW x \in Keys, RemovalCommit(x) PROVE meta[k] # None
      BY <3>3 DEF RemovalCommit, TypeOK, Acknowledged
    <3> QED
      BY <3>1, <3>2, <3>3, MetaChange
  <2>2. copies[k][t].status # "none" /\ disk[k][t] # None
    BY <1>1, <2>1 DEF FirstInv, Acknowledged
  <2>3. disk'[k][t] # None
    BY <1>1, <2>2, KeptStays DEF Kept, Acknowledged
  <2>4. ~(RemovalCommit(k) /\ (removal[k].scope = "all" \/ t \in Live))
    BY <1>1 DEF RemovalCommit, RemovalInv, IsArchive
  <2>5. copies'[k][t].status # "none"
    BY <1>1, <1>3, <2>2, <2>4, CopyRowStep DEF FirstInv
  <2> QED
    BY <2>3, <2>5
<1> QED
  BY <1>2, <1>3

LEMMA FirstStep ==
    ASSUME CopyInv, FirstInv, Async, [Next]_vars
    PROVE  FirstInv'
<1> USE DEF CopyInv
<1>1. ASSUME NEW k \in Keys, upload'[k].phase = "writing"
      PROVE  /\ FirstWrites(k) # {}
             /\ FirstWrites(k) \subseteq upload'[k].todo \cup upload'[k].wrote
  <2>1. CASE upload'[k] = upload[k]
    BY <1>1, <2>1 DEF FirstInv
  <2>2. ASSUME NEW t \in upload[k].todo,
               upload'[k] = [upload[k] EXCEPT !.todo = @ \ {t}, !.wrote = @ \cup {t}]
        PROVE  /\ FirstWrites(k) # {}
               /\ FirstWrites(k) \subseteq upload'[k].todo \cup upload'[k].wrote
    <3>1. /\ upload'[k].todo = upload[k].todo \ {t}
          /\ upload'[k].wrote = upload[k].wrote \cup {t}
          /\ upload[k].phase = "writing"
      BY <1>1, <2>2 DEF TypeOK, UploadJob
    <3> QED
      BY <3>1 DEF FirstInv
  <2>3. upload[k].phase # "undo" /\ upload'[k] # NoUpload
    BY <1>1 DEF BytesInv, NoUpload
  <2> HIDE DEF NoUpload
  <2> QED
    BY <2>1, <2>2, <2>3, UploadOutcome
<1>2. ASSUME NEW k \in Keys, meta'[k] # None PROVE FirstWrites(k) # {}
  <2>1. CASE meta[k] # None
    BY <2>1 DEF FirstInv
  <2>2. ASSUME NEW x \in Keys, UploadCommit(x), meta[k] = None PROVE FirstWrites(k) # {}
    BY <1>2, <2>2 DEF UploadCommit, TypeOK, FirstInv
  <2>3. ASSUME NEW x \in Keys, RemovalCommit(x), meta[k] = None PROVE FALSE
    BY <1>2, <2>3 DEF RemovalCommit, TypeOK
  <2> QED
    BY <1>2, <2>1, <2>2, <2>3, MetaChange
<1>3. ASSUME NEW k \in Keys, NEW t \in Targets, sweep'.mine[k][t].status = "none"
      PROVE  sweep'.loaded[k][t].status = "none"
  <2>1. CASE sweep' = sweep
    BY <1>3, <2>1 DEF FirstInv
  <2>2. CASE sweep' = NoSweep
    BY <2>2 DEF NoSweep, NoRows, NoRow
  <2>3. CASE SweepBegin
    BY <1>3, <2>3 DEF SweepBegin
  <2>4. CASE \E p \in sweep.todo, s \in Targets : SweepRead(p[1], p[2], s)
    BY <1>3, <2>4 DEF SweepRead, TypeOK, SweepJob, FirstInv
  <2>5. ASSUME NEW x \in Keys, NEW y \in Targets, NEW row \in Row,
               sweep' = [sweep EXCEPT !.todo = @ \ {<<x, y>>}, !.held = {},
                                      !.mine[x][y] = row],
               row.status \in {"ok", "failed", "failed_permanent"}
        PROVE  sweep'.loaded[k][t].status = "none"
    <3>1. sweep'.loaded = sweep.loaded /\ sweep.mine[k][t].status = "none"
      BY <1>3, <2>5 DEF TypeOK, SweepJob
    <3> QED
      BY <3>1 DEF FirstInv
  <2> QED
    BY <2>1, <2>2, <2>3, <2>4, <2>5, SweepOutcome
<1>4. ASSUME NEW k \in Keys, NEW t \in Targets, check'.mine[k][t].status = "none"
      PROVE  check'.loaded[k][t].status = "none"
  <2>1. CASE check' = check
    BY <1>4, <2>1 DEF FirstInv
  <2>2. CASE check' = NoCheck
    BY <2>2 DEF NoCheck, NoRows, NoRow
  <2>3. CASE \E ks \in SUBSET Keys : CheckBegin(ks)
    BY <2>3 DEF CheckBegin, NoRows, NoRow
  <2>4. ASSUME NEW x \in check.keys, CheckList(x)
        PROVE  check'.loaded[k][t].status = "none"
    <3>1. /\ x \in Keys /\ check'.mine = [check.mine EXCEPT ![x] = copies[x]]
          /\ check'.loaded = [check.loaded EXCEPT ![x] = copies[x]]
      BY <2>4 DEF CheckList, TypeOK, CheckJob
    <3> QED
      BY <1>4, <3>1 DEF TypeOK, CheckJob, FirstInv
  <2>5. ASSUME NEW x \in Keys, NEW y \in Targets, NEW row \in Row,
               check' = [check EXCEPT !.todo = @ \ {<<x, y>>}, !.mine[x][y] = row],
               row.status \in {"ok", "failed"}
        PROVE  check'.loaded[k][t].status = "none"
    <3>1. check'.loaded = check.loaded /\ check.mine[k][t].status = "none"
      BY <1>4, <2>5 DEF TypeOK, CheckJob
    <3> QED
      BY <3>1 DEF FirstInv
  <2>6. CASE \E x \in check.keys : CheckList(x)
    BY <2>4, <2>6
  <2> QED
    BY <2>1, <2>2, <2>3, <2>5, <2>6, CheckOutcome
<1>5. ASSUME NEW k \in Keys, NEW t \in FirstWrites(k), Acknowledged(k)'
      PROVE  (copies[k][t].status # "none" /\ disk[k][t] # None)'
  BY <1>5, FirstRowStep
<1> QED
  BY <1>1, <1>2, <1>3, <1>4, <1>5 DEF FirstInv, FirstWrites, IsArchive

(* Without damage on the media, the bytes of an acknowledged object are    *)
(* never out of reach, however often requests fail or crash midway.        *)
THEOREM AsyncAlwaysRecoverable ==
    ASSUME Async, WriteOnce, MaxRot = 0
    PROVE  Spec => []AlwaysRecoverable
<1>1. Init => CopyInv /\ FirstInv
  BY CopyInit DEF Init, FirstInv, NoUpload, NoSweep, NoCheck, NoRows, NoRow, Acknowledged
<1>2. CopyInv /\ FirstInv /\ [Next]_vars => CopyInv' /\ FirstInv'
  BY CopyStep, FirstStep
<1>3. CopyInv /\ FirstInv => AlwaysRecoverable
  <2> SUFFICES ASSUME CopyInv, FirstInv, NEW k \in Keys, Acknowledged(k)
               PROVE  \E t \in Targets : copies[k][t].status # "none" /\ disk[k][t] = meta[k]
    BY DEF AlwaysRecoverable
  <2>1. PICK t \in FirstWrites(k) : copies[k][t].status # "none" /\ disk[k][t] # None
    BY DEF FirstInv, Acknowledged
  <2>2. t \in Targets
    BY FirstWritesReach
  <2>3. disk[k][t] \in Body[k] /\ meta[k] \in Body[k]
    BY <2>1, <2>2 DEF CopyInv, BytesInv, Damage, Acknowledged
  <2> QED
    BY <2>1, <2>2, <2>3 DEF WriteOnce
<1> QED
  BY <1>1, <1>2, <1>3, PTL DEF Spec

-----------------------------------------------------------------------------
(* The rows a PUT confirms before it answers, and what GET finds there.    *)

(* Targets that confirm a PUT and report errors as errors.                 *)
Steadfast(k) == FirstWrites(k) \ FlakyReads

(* While no removal is authorised, the row of such a target is "ok" or not *)
(* there yet, the sweep leaves it alone, and a fixity check expects        *)
(* exactly what was stored.                                                *)
OkInv ==
    /\ \A k \in Keys : check.expect[k] \in Body[k] \cup {None}
    /\ \A k \in Keys \ erased :
          /\ check.expect[k] # None => meta[k] # None
          /\ \A t \in Steadfast(k) :
                /\ copies[k][t].status \in {"none", "ok"}
                /\ check.mine[k][t].status \in {"none", "ok"}
                /\ sweep.mine[k][t].status = "none"
                /\ <<k, t>> \notin sweep.todo

ReadInv == CopyInv /\ FirstInv /\ OkInv

LEMMA SteadfastReach ==
    ASSUME NEW k \in Keys, NEW t \in Steadfast(k), Async
    PROVE  t \in Targets /\ t \in FirstWrites(k) /\ t \notin FlakyReads
  BY FirstWritesReach DEF Steadfast

(* An object that nobody was authorised to remove keeps its metadata.      *)
LEMMA MetaStays ==
    ASSUME CopyInv, [Next]_vars, NEW k \in Keys, k \notin erased', meta[k] # None
    PROVE  meta'[k] # None
<1> USE DEF CopyInv
<1>1. k \notin erased
  BY HistoryGrows
<1>2. ASSUME NEW x \in Keys, UploadCommit(x) PROVE meta'[k] # None
  <2>1. upload[x].content \in Body[x]
    BY <1>2 DEF UploadCommit, BytesInv
  <2> QED
    BY <1>2, <2>1, NoBytes DEF UploadCommit, TypeOK
<1>3. ASSUME NEW x \in Keys, RemovalCommit(x) PROVE meta'[k] # None
  <2>1. CASE x = k
    BY <1>1, <1>3, <2>1 DEF RemovalCommit, RemovalInv
  <2>2. CASE x # k
    BY <1>3, <2>2 DEF RemovalCommit, TypeOK
  <2> QED
    BY <2>1, <2>2
<1> QED
  BY <1>2, <1>3, MetaChange

(* A fixity check under way finds a steadfast copy as it should be.        *)
LEMMA VerdictIsOk ==
    ASSUME ReadInv, Async, WriteOnce, MaxRot = 0,
           NEW k \in Keys, NEW t \in Steadfast(k), k \notin erased, <<k, t>> \in check.todo
    PROVE  Verdict(k, t) = "ok"
<1> USE DEF ReadInv
<1>1. check.expect[k] \in Body[k] /\ meta[k] # None
  BY DEF CopyInv, KeptInv, OkInv
<1>2. t \in Targets /\ t \in FirstWrites(k)
  BY SteadfastReach
<1>3. disk[k][t] # None
  BY <1>1, <1>2 DEF FirstInv, Acknowledged
<1>4. disk[k][t] \in Body[k]
  BY <1>2, <1>3 DEF CopyInv, BytesInv, Damage
<1> QED
  BY <1>1, <1>4 DEF Verdict, WriteOnce

LEMMA OkStep ==
    ASSUME ReadInv, Async, WriteOnce, MaxRot = 0, [Next]_vars
    PROVE  OkInv'
<1> USE DEF ReadInv
<1>0. TypeOK /\ erased \subseteq erased'
  BY HistoryGrows DEF CopyInv
<1>1. ASSUME NEW k \in Keys
      PROVE  /\ check'.expect[k] \in Body[k] \cup {None}
             /\ check'.expect[k] # None => check'.expect[k] = check.expect[k] \/ meta[k] # None
  <2>1. CASE check' = check
    BY <2>1 DEF OkInv
  <2>2. CASE check' = NoCheck
    BY <2>2 DEF NoCheck
  <2>3. ASSUME NEW ks \in SUBSET Keys, CheckBegin(ks)
        PROVE  check'.expect[k] = IF k \in ks THEN meta[k] ELSE None
    BY <2>3 DEF CheckBegin
  <2>4. ASSUME NEW x \in check.keys, CheckList(x)
        PROVE  check'.expect = check.expect
    BY <1>0, <2>4 DEF CheckList, TypeOK, CheckJob
  <2>5. ASSUME NEW x \in Keys, NEW y \in Targets, NEW row \in Row,
               check' = [check EXCEPT !.todo = @ \ {<<x, y>>}, !.mine[x][y] = row]
        PROVE  check'.expect = check.expect
    BY <1>0, <2>5 DEF TypeOK, CheckJob
  <2>6. meta[k] \in Body[k] \cup {None}
    BY DEF CopyInv, BytesInv
  <2>7. CASE check'.expect = check.expect
    BY <2>7 DEF OkInv
  <2>8. CASE \E ks \in SUBSET Keys : CheckBegin(ks)
    BY <2>3, <2>6, <2>8
  <2> QED
    BY <1>0, <2>1, <2>2, <2>4, <2>5, <2>7, <2>8, CheckOutcome
<1>2. ASSUME NEW k \in Keys \ erased', check'.expect[k] # None PROVE meta'[k] # None
  <2>1. meta[k] # None
    BY <1>0, <1>1, <1>2 DEF OkInv
  <2> QED
    BY <2>1, MetaStays
<1>3. ASSUME NEW k \in Keys \ erased', NEW t \in Steadfast(k)
      PROVE  copies'[k][t].status \in {"none", "ok"}
  <2>1. /\ t \in Targets /\ t \in FirstWrites(k) /\ k \notin erased
        /\ copies[k][t].status \in {"none", "ok"} /\ check.mine[k][t].status \in {"none", "ok"}
        /\ sweep.mine[k][t].status = "none"
    BY <1>0, SteadfastReach DEF OkInv
  <2>2. CASE UploadCommit(k) /\ copies'[k][t] = WrittenRow(k, t)
    <3>1. t \in upload[k].wrote
      BY <2>1, <2>2 DEF UploadCommit, FirstInv
    <3> QED
      BY <2>2, <3>1 DEF WrittenRow, RecordCopy
  <2>3. sweep.loaded[k][t].status = "none"
    BY <2>1 DEF FirstInv
  <2>4. NoRow.status = "none"
    BY DEF NoRow
  <2>5. copies[k][t].status = copies'[k][t].status => copies'[k][t].status \in {"none", "ok"}
    BY <2>1
  <2> QED
    BY <1>0, <2>1, <2>2, <2>3, <2>4, <2>5, CopyRowStep
<1>4. ASSUME NEW k \in Keys \ erased', NEW t \in Steadfast(k)
      PROVE  check'.mine[k][t].status \in {"none", "ok"}
  <2>1. /\ t \in Targets /\ k \notin erased /\ t \notin FlakyReads
        /\ copies[k][t].status \in {"none", "ok"} /\ check.mine[k][t].status \in {"none", "ok"}
    BY <1>0, SteadfastReach DEF OkInv
  <2>2. CASE check' = check
    BY <2>1, <2>2
  <2>3. CASE check' = NoCheck
    BY <2>1, <2>3 DEF NoCheck, NoRows, NoRow
  <2>4. ASSUME NEW ks \in SUBSET Keys, CheckBegin(ks)
        PROVE  check'.mine[k][t].status = "none"
    BY <2>1, <2>4 DEF CheckBegin, NoRows, NoRow
  <2>5. ASSUME NEW x \in check.keys, CheckList(x)
        PROVE  check'.mine[k][t] \in {check.mine[k][t], copies[k][t]}
    <3>1. x \in Keys /\ check'.mine = [check.mine EXCEPT ![x] = copies[x]]
      BY <1>0, <2>5 DEF CheckList, TypeOK, CheckJob
    <3> QED
      BY <1>0, <2>1, <3>1 DEF TypeOK, CheckJob
  <2>6. ASSUME NEW x \in Keys, NEW y \in Targets, NEW row \in Row,
               check' = [check EXCEPT !.todo = @ \ {<<x, y>>}, !.mine[x][y] = row],
               <<x, y>> \in check.todo, y \notin FlakyReads => row.status = Verdict(x, y)
        PROVE  check'.mine[k][t].status \in {"none", "ok"}
    <3>1. check'.mine[k][t] = IF x = k /\ y = t THEN row ELSE check.mine[k][t]
      BY <1>0, <2>1, <2>6 DEF TypeOK, CheckJob
    <3>2. CASE x = k /\ y = t
      BY <2>1, <2>6, <3>1, <3>2, VerdictIsOk
    <3> QED
      BY <2>1, <3>1, <3>2
  <2>7. CASE \E ks \in SUBSET Keys : CheckBegin(ks)
    BY <2>4, <2>7
  <2>8. CASE \E x \in check.keys : CheckList(x)
    BY <2>1, <2>5, <2>8
  <2> QED
    BY <1>0, <2>2, <2>3, <2>6, <2>7, <2>8, CheckOutcome
<1>5. ASSUME NEW k \in Keys \ erased', NEW t \in Steadfast(k)
      PROVE  sweep'.mine[k][t].status = "none" /\ <<k, t>> \notin sweep'.todo
  <2>1. /\ t \in Targets /\ k \notin erased
        /\ copies[k][t].status \in {"none", "ok"}
        /\ sweep.mine[k][t].status = "none" /\ <<k, t>> \notin sweep.todo
    BY <1>0, SteadfastReach DEF OkInv
  <2>2. CASE sweep' = sweep
    BY <2>1, <2>2
  <2>3. CASE sweep' = NoSweep
    BY <2>1, <2>3 DEF NoSweep, NoRows, NoRow
  <2>4. CASE SweepBegin
    <3>1. <<k, t>> \notin DuePairs
      BY <2>1 DEF DuePairs
    <3> QED
      BY <2>1, <2>4, <3>1 DEF SweepBegin, DueRows, NoRow
  <2>5. CASE \E p \in sweep.todo, s \in Targets : SweepRead(p[1], p[2], s)
    BY <1>0, <2>1, <2>5 DEF SweepRead, TypeOK, SweepJob
  <2>6. ASSUME NEW x \in Keys, NEW y \in Targets, NEW row \in Row,
               sweep' = [sweep EXCEPT !.todo = @ \ {<<x, y>>}, !.held = {},
                                      !.mine[x][y] = row],
               <<x, y>> \in sweep.todo \/ \E h \in sweep.held : h.key = x /\ h.target = y
        PROVE  sweep'.mine[k][t].status = "none" /\ <<k, t>> \notin sweep'.todo
    <3>1. <<x, y>> \in sweep.todo
      BY <2>6 DEF CopyInv, ReachInv
    <3>2. ~(x = k /\ y = t)
      BY <2>1, <3>1
    <3> QED
      BY <1>0, <2>1, <2>6, <3>2 DEF TypeOK, SweepJob
  <2> QED
    BY <1>0, <2>2, <2>3, <2>4, <2>5, <2>6, SweepOutcome
<1> QED
  BY <1>1, <1>2, <1>3, <1>4, <1>5 DEF OkInv, Steadfast, FirstWrites, IsArchive

(* Of any targets, some come first.                                        *)
LEMMA LeastNumber ==
    ASSUME NEW T, T \subseteq Nat, T # {}
    PROVE  \E x \in T : \A y \in T : x <= y
<1>1. PICK x \in T : \A y \in T : <<y, x>> \notin OpToRel(<, Nat)
  BY WFMin, NatLessThanWellFounded, ZenonT(30)
<1>2. ASSUME NEW y \in T PROVE ~(y < x)
  BY <1>1, Zenon DEF OpToRel
<1> HIDE <1>1
<1> QED
  BY <1>2

LEMMA SomeComeFirst ==
    ASSUME NEW ts \in SUBSET Targets, ts # {}
    PROVE  FirstOf(ts) # {}
<1> DEFINE T == {Rank[t] : t \in ts}
<1>1. T \subseteq Nat /\ T # {}
  BY StorageAssumption
<1> HIDE DEF T
<1>2. PICK x \in T : \A y \in T : x <= y
  BY <1>1, LeastNumber
<1> QED
  BY <1>2 DEF T, FirstOf

(* GET returns exactly the bytes the PUT acknowledged until a removal is   *)
(* authorised, however requests interleave, fail or crash, as long as no   *)
(* medium decays and one target that confirms PUTs reports its errors.     *)
THEOREM AsyncReadsAcknowledged ==
    ASSUME Async, WriteOnce, MaxRot = 0,
           \A k \in Keys : FirstWrites(k) # {} => Steadfast(k) # {}
    PROVE  Spec => []ReadsAcknowledged
<1>1. Init => ReadInv
  <2>1. Init => CopyInv
    BY CopyInit
  <2>2. Init => FirstInv
    BY DEF Init, FirstInv, NoUpload, NoSweep, NoCheck, NoRows, NoRow, Acknowledged
  <2>3. Init => OkInv
    <3> SUFFICES ASSUME Init PROVE OkInv
      OBVIOUS
    <3>1. \A k \in Keys, t \in Targets : NoRows[k][t].status = "none"
      BY DEF NoRows, NoRow
    <3>2. copies = NoRows /\ sweep = NoSweep /\ check = NoCheck
      BY DEF Init
    <3> QED
      BY <3>1, <3>2, SteadfastReach DEF OkInv, NoSweep, NoCheck
  <2> QED
    BY <2>1, <2>2, <2>3 DEF ReadInv
<1>2. ReadInv /\ [Next]_vars => ReadInv'
  BY CopyStep, FirstStep, OkStep DEF ReadInv
<1>3. ReadInv => ReadsAcknowledged
  <2> SUFFICES ASSUME ReadInv, NEW k \in Keys, Acknowledged(k)
               PROVE  ReadWithFallback(k) = {meta[k]}
    BY DEF ReadsAcknowledged
  <2>1. PICK t \in Steadfast(k) : TRUE
    BY DEF ReadInv, FirstInv, Acknowledged
  <2>2. t \in Targets /\ t \in FirstWrites(k)
    BY SteadfastReach
  <2>3. copies[k][t].status = "ok" /\ disk[k][t] # None
    <3>1. meta[k] # None /\ k \notin erased
      BY DEF Acknowledged
    <3>2. copies[k][t].status \in {"none", "ok"}
      BY <2>1, <3>1 DEF ReadInv, OkInv
    <3>3. copies[k][t].status # "none" /\ disk[k][t] # None
      BY <2>2, <3>1 DEF ReadInv, FirstInv, Acknowledged
    <3> QED
      BY <3>2, <3>3
  <2>4. t \in ReadTargets(k)
    BY <2>2, StorageAssumption DEF ReadTargets, FirstWrites, Async
  <2>5. Readable(k) \subseteq Targets /\ Readable(k) # {}
    BY <2>3, <2>4 DEF Readable, ReadTargets, Targets
  <2>6. FirstOf(Readable(k)) # {} /\ FirstOf(Readable(k)) \subseteq Readable(k)
    BY <2>5, SomeComeFirst DEF FirstOf
  <2>7. ASSUME NEW u \in Readable(k) PROVE disk[k][u] = meta[k]
    <3>1. disk[k][u] \in Body[k] /\ meta[k] \in Body[k]
      BY <2>5, <2>7 DEF Readable, ReadInv, CopyInv, BytesInv, Damage, Acknowledged
    <3> QED
      BY <3>1 DEF WriteOnce
  <2> QED
    BY <2>6, <2>7 DEF ReadWithFallback
<1> QED
  BY <1>1, <1>2, <1>3, PTL DEF Spec

-----------------------------------------------------------------------------
(***************************************************************************)
(* What a PUT can rely on, for both write strategies.                      *)
(***************************************************************************)

(* An upload in flight finds what it has written where it wrote it.        *)
HasWritten(k) ==
    upload[k].phase = "writing" =>
        /\ upload[k].todo \cup upload[k].wrote \subseteq FirstWrites(k)
        /\ \A t \in upload[k].wrote : disk[k][t] = upload[k].content

(* A PUT of a key that storage-service has no object of and was never      *)
(* asked to remove one of: the first PUT of a content of a document, and   *)
(* its repetition after a failure.  A check-in of a content the document   *)
(* had before, and the retrieval of a dehydrated one, are none.            *)
PutsAreFresh == \A k \in Keys : UploadBegin(k) => meta[k] = None /\ k \notin erased

(* No row of k exists, no removal of k is under way and no sweep works on  *)
(* it.                                                                     *)
Untouched(k) ==
    /\ meta[k] = None /\ k \notin erased /\ removal[k].phase = "idle"
    /\ \A t \in Targets : /\ copies[k][t].status = "none"
                          /\ sweep.mine[k][t].status = "none"
                          /\ <<k, t>> \notin sweep.todo
    /\ \A h \in sweep.held : h.key # k

(* Inductive: an upload in flight has its key to itself, and finds what it *)
(* has written.                                                            *)
FreshInv ==
    \A k \in Keys :
        /\ upload[k].phase # "idle" \/ (meta[k] = None /\ k \notin erased) => Untouched(k)
        /\ removal[k].phase = "deleting" /\ removal[k].scope = "all" => k \in erased
        /\ upload[k].phase # "idle" => upload[k].content # None
        /\ HasWritten(k)

(* What a step makes of a PUT, whatever the write strategy.                *)
LEMMA UploadMoves ==
    ASSUME TypeOK, [Next]_vars, NEW k \in Keys, upload'[k] # upload[k]
    PROVE  \/ upload'[k] = NoUpload
           \/ \E c \in Body[k], u \in 0..Horizon :
                 /\ UploadBegin(k)
                 /\ IsArchive(k) => u = 0
                 /\ upload'[k] = [phase |-> "writing", content |-> c, until |-> u,
                                  todo |-> FirstWrites(k), wrote |-> {}]
           \/ \E t \in upload[k].todo :
                 /\ upload[k].phase = "writing" /\ upload'[k].phase = "writing"
                 /\ upload'[k].content = upload[k].content
                 /\ upload'[k].until = upload[k].until
                 /\ upload'[k].todo \subseteq upload[k].todo
                 /\ \/ upload'[k].wrote = upload[k].wrote
                    \/ UploadStored(k, t) /\ upload'[k].wrote = upload[k].wrote \cup {t}
           \/ /\ upload[k].phase # "idle"
              /\ upload'[k].phase = "undo" /\ upload'[k].content = upload[k].content
              /\ upload'[k].until = upload[k].until
<1>1. upload \in [Keys -> UploadJob] /\ upload' # upload
  BY DEF TypeOK
<1> DEFINE Same == upload'[k].content = upload[k].content /\ upload'[k].until = upload[k].until
<1> DEFINE Written == /\ upload[k].phase = "writing" /\ upload'[k].phase = "writing"
                      /\ Same /\ upload'[k].todo \subseteq upload[k].todo
<1>0. ASSUME NEW t \in Targets
      PROVE  /\ upload'[k] = [upload[k] EXCEPT !.todo = @ \ {t}, !.wrote = @ \cup {t}]
                  => /\ Same /\ upload'[k].phase = upload[k].phase
                     /\ upload'[k].todo = upload[k].todo \ {t}
                     /\ upload'[k].wrote = upload[k].wrote \cup {t}
             /\ upload'[k] = [upload[k] EXCEPT !.todo = @ \ {t}]
                  => /\ Same /\ upload'[k].phase = upload[k].phase
                     /\ upload'[k].todo = upload[k].todo \ {t}
                     /\ upload'[k].wrote = upload[k].wrote
             /\ upload'[k] = [upload[k] EXCEPT !.phase = "undo", !.todo = upload[k].wrote]
                  => Same /\ upload'[k].phase = "undo"
  <2>1. upload[k] \in UploadJob
    BY <1>1
  <2> QED
    BY <2>1 DEF UploadJob
<1>2. PICK x \in Keys : UploadNext(x)
  BY <1>1, UploadChange
<1>3. x = k
  BY <1>1, <1>2 DEF UploadNext, UploadBegin, UploadStored, UploadRaised, UploadCommit,
     QuorumMissed, UndoWrite, UploadRollback, UploadLost
<1>4. CASE UploadBegin(k)
  <2>1. PICK c \in Body[k], u \in (IF IsArchive(k) THEN {0} ELSE 0..Horizon) :
          upload' = [upload EXCEPT ![k] =
             [phase |-> "writing", content |-> c, until |-> u,
              todo |-> FirstWrites(k), wrote |-> {}]]
    BY <1>4 DEF UploadBegin
  <2>2. u \in 0..Horizon /\ (IsArchive(k) => u = 0)
    BY StorageAssumption
  <2>3. upload'[k] = [phase |-> "writing", content |-> c, until |-> u,
                      todo |-> FirstWrites(k), wrote |-> {}]
    BY <1>1, <2>1
  <2> QED
    BY <1>4, <2>2, <2>3
<1>5. ASSUME NEW t \in Targets, UploadStored(k, t)
      PROVE  /\ t \in upload[k].todo /\ Written
             /\ upload'[k].wrote = upload[k].wrote \cup {t}
  <2>1. t \in upload[k].todo
    BY <1>5 DEF UploadStored, NextWrites, FirstOf
  <2>2. upload'[k] = [upload[k] EXCEPT !.todo = @ \ {t}, !.wrote = @ \cup {t}]
    BY <1>1, <1>5 DEF UploadStored
  <2> QED
    BY <1>0, <1>5, <2>1, <2>2 DEF UploadStored
<1>6. ASSUME NEW t \in Targets, UploadRaised(k, t)
      PROVE  /\ t \in upload[k].todo
             /\ upload'[k] = NoUpload \/ (Written /\ upload'[k].wrote = upload[k].wrote)
  <2>1. t \in upload[k].todo /\ upload[k].phase = "writing"
    BY <1>6 DEF UploadRaised, NextWrites, FirstOf
  <2>2. upload'[k] = NoUpload \/ upload'[k] = [upload[k] EXCEPT !.todo = @ \ {t}]
    BY <1>1, <1>6 DEF UploadRaised, AfterRaise
  <2> QED
    BY <1>0, <2>1, <2>2
<1>7. CASE UploadCommit(k) \/ UploadRollback(k) \/ UploadLost(k)
  BY <1>1, <1>7 DEF UploadCommit, UploadRollback, UploadLost
<1>8. ASSUME QuorumMissed(k) \/ \E t \in Targets : UndoWrite(k, t)
      PROVE  /\ upload[k].phase # "idle"
             /\ upload'[k].phase = "undo" /\ upload'[k].content = upload[k].content
             /\ upload'[k].until = upload[k].until
  <2>1. upload[k] \in UploadJob /\ Primary \in Targets
    BY <1>1, StorageAssumption DEF Targets
  <2>2. CASE QuorumMissed(k)
    <3>1. upload'[k] = [upload[k] EXCEPT !.phase = "undo", !.todo = upload[k].wrote]
      BY <1>1, <2>2 DEF QuorumMissed
    <3> QED
      BY <1>0, <2>1, <2>2, <3>1 DEF QuorumMissed
  <2>3. ASSUME NEW t \in Targets, UndoWrite(k, t)
        PROVE  /\ upload[k].phase = "undo"
               /\ upload'[k].phase = "undo" /\ upload'[k].content = upload[k].content
               /\ upload'[k].until = upload[k].until
    <3>1. upload[k].phase = "undo" /\ upload'[k] = [upload[k] EXCEPT !.todo = @ \ {t}]
      BY <1>1, <2>3 DEF UndoWrite
    <3> QED
      BY <1>0, <2>1, <3>1
  <2> QED
    BY <1>8, <2>2, <2>3
<1> QED
  BY <1>2, <1>3, <1>4, <1>5, <1>6, <1>7, <1>8 DEF UploadNext

(* A step that leaves alone what an upload has written.                    *)
LEMMA HasWrittenStep ==
    ASSUME TypeOK, [Next]_vars, NEW k \in Keys, HasWritten(k),
           \A t \in Targets : upload[k].phase = "writing" /\ disk[k][t] = upload[k].content
                                 => disk'[k][t] = upload[k].content
    PROVE  HasWritten(k)'
<1> DEFINE Goal == /\ upload'[k].todo \cup upload'[k].wrote \subseteq FirstWrites(k)
                   /\ \A t \in upload'[k].wrote : disk'[k][t] = upload'[k].content
<1> SUFFICES ASSUME upload'[k].phase = "writing" PROVE Goal
  BY DEF HasWritten, FirstWrites, IsArchive, Quorate
<1>1. FirstWrites(k) \subseteq Targets
  BY StorageAssumption DEF FirstWrites, Targets
<1>2. CASE upload'[k] = upload[k]
  BY <1>1, <1>2 DEF HasWritten
<1>3. ASSUME NEW t \in upload[k].todo, upload[k].phase = "writing",
             upload'[k].content = upload[k].content,
             upload'[k].todo \subseteq upload[k].todo,
             \/ upload'[k].wrote = upload[k].wrote
             \/ UploadStored(k, t) /\ upload'[k].wrote = upload[k].wrote \cup {t}
      PROVE  Goal
  <2>1. UploadStored(k, t) => disk'[k][t] = upload[k].content
    BY <1>1, <1>3 DEF HasWritten, UploadStored, Store, TypeOK
  <2> QED
    BY <1>1, <1>3, <2>1 DEF HasWritten
<1>4. ASSUME NEW c, NEW u,
             upload'[k] = [phase |-> "writing", content |-> c, until |-> u,
                           todo |-> FirstWrites(k), wrote |-> {}]
      PROVE  Goal
  BY <1>4
<1>5. upload'[k] # NoUpload
  BY DEF NoUpload
<1> QED
  BY <1>2, <1>3, <1>4, <1>5, UploadMoves

(* Whose removal is authorised has an object.                              *)
LEMMA ErasedHadObject ==
    ASSUME [Next]_vars, NEW k \in Keys, k \in erased', k \notin erased
    PROVE  meta[k] # None
<1>1. PICK x \in Keys : RemovalNext(x)
  BY StepKinds, UploadFrame, SweepFrame, CheckFrame, WorldFrame DEF vars
<1>2. PICK scope \in {"all", "live"}, bypass \in BOOLEAN : RemovalBegin(x, scope, bypass)
  BY <1>1 DEF RemovalNext, RemovalDelete, RemovalCommit, RemovalLost
<1> QED
  BY <1>2 DEF RemovalBegin

(* An untouched key stays so until its PUT commits.                        *)
LEMMA UntouchedStays ==
    ASSUME TypeOK, [Next]_vars, NEW k \in Keys, Untouched(k), ~UploadCommit(k)
    PROVE  Untouched(k)'
<1> USE DEF Untouched
<1>1. meta'[k] = None
  <2>1. ASSUME NEW x \in Keys, UploadCommit(x) PROVE meta'[k] = None
    BY <2>1 DEF UploadCommit, TypeOK
  <2>2. ASSUME NEW x \in Keys, RemovalCommit(x) PROVE meta'[k] = None
    BY <2>2 DEF RemovalCommit, TypeOK
  <2> QED
    BY <2>1, <2>2, MetaChange
<1>2. k \notin erased'
  BY ErasedHadObject
<1>3. removal'[k].phase = "idle"
  <2>1. ASSUME NEW x \in Keys, RemovalNext(x) PROVE removal'[k].phase = "idle"
    <3>1. CASE x = k
      <4>1. \A scope \in {"all", "live"}, bypass \in BOOLEAN : ~RemovalBegin(k, scope, bypass)
        BY DEF RemovalBegin
      <4>2. ~RemovalCommit(k) /\ ~RemovalLost(k) /\ \A t \in Targets : ~RemovalDelete(k, t)
        BY DEF RemovalDelete, RemovalCommit, RemovalLost
      <4> QED
        BY <2>1, <3>1, <4>1, <4>2 DEF RemovalNext
    <3>2. CASE x # k
      BY <2>1, <3>2 DEF RemovalNext, RemovalBegin, RemovalDelete, RemovalCommit, RemovalLost, TypeOK
    <3> QED
      BY <3>1, <3>2
  <2> QED
    BY <2>1, RemovalChange
<1>4. ASSUME NEW t \in Targets PROVE copies'[k][t].status = "none"
  <2>1. copies[k][t].status = "none"
    OBVIOUS
  <2> HIDE DEF Untouched
  <2> QED
    BY <2>1, CopyRowStep DEF NoRow
<1>5. /\ \A t \in Targets : sweep'.mine[k][t].status = "none" /\ <<k, t>> \notin sweep'.todo
      /\ \A h \in sweep'.held : h.key # k
  <2>1. CASE sweep' = sweep
    BY <2>1
  <2>2. CASE sweep' = NoSweep
    BY <2>2 DEF NoSweep, NoRows, NoRow
  <2>3. CASE SweepBegin
    <3>1. \A t \in Targets : <<k, t>> \notin DuePairs /\ DueRows[k][t] = NoRow
      BY DEF DuePairs, DueRows
    <3> QED
      BY <2>3, <3>1 DEF SweepBegin, NoRow
  <2>4. ASSUME NEW p \in sweep.todo, NEW s \in Targets, SweepRead(p[1], p[2], s)
        PROVE  /\ sweep'.mine = sweep.mine /\ sweep'.todo = sweep.todo
               /\ \A h \in sweep'.held : h.key # k
    <3>1. p[1] # k
      BY DEF TypeOK, SweepJob, Pairs
    <3> QED
      BY <2>4, <3>1 DEF SweepRead, TypeOK, SweepJob
  <2>5. ASSUME NEW x \in Keys, NEW y \in Targets, NEW row \in Row,
               sweep' = [sweep EXCEPT !.todo = @ \ {<<x, y>>}, !.held = {}, !.mine[x][y] = row],
               <<x, y>> \in sweep.todo \/ \E h \in sweep.held : h.key = x /\ h.target = y
        PROVE  /\ \A t \in Targets : sweep'.mine[k][t].status = "none" /\ <<k, t>> \notin sweep'.todo
               /\ \A h \in sweep'.held : h.key # k
    <3>1. x # k
      BY <2>5
    <3> QED
      BY <2>5, <3>1 DEF TypeOK, SweepJob
  <2>6. CASE \E p \in sweep.todo, s \in Targets : SweepRead(p[1], p[2], s)
    BY <2>4, <2>6
  <2> QED
    BY <2>1, <2>2, <2>3, <2>5, <2>6, SweepOutcome
<1> QED
  BY <1>1, <1>2, <1>3, <1>4, <1>5

LEMMA FreshStep ==
    ASSUME TypeOK, FreshInv, [Next]_vars, [PutsAreFresh]_vars
    PROVE  FreshInv'
<1> SUFFICES ASSUME NEW k \in Keys
             PROVE  /\ upload'[k].phase # "idle" \/ (meta'[k] = None /\ k \notin erased')
                          => Untouched(k)'
                    /\ removal'[k].phase = "deleting" /\ removal'[k].scope = "all" => k \in erased'
                    /\ upload'[k].phase # "idle" => upload'[k].content # None
                    /\ HasWritten(k)'
  BY DEF FreshInv
<1>1. /\ upload[k].phase # "idle" \/ (meta[k] = None /\ k \notin erased) => Untouched(k)
      /\ removal[k].phase = "deleting" /\ removal[k].scope = "all" => k \in erased
      /\ upload[k].phase # "idle" => upload[k].content # None
      /\ HasWritten(k)
  BY DEF FreshInv
<1>2. erased \subseteq erased'
  BY HistoryGrows
<1>3. None \notin Body[k] /\ upload[k] \in UploadJob
  BY StorageAssumption DEF TypeOK
<1>4. UploadCommit(k) => upload'[k].phase = "idle" /\ meta'[k] # None
  BY <1>1 DEF UploadCommit, TypeOK, NoUpload
<1>5. upload'[k].phase # "idle" => upload[k].phase # "idle" \/ (meta[k] = None /\ k \notin erased)
  <2> SUFFICES ASSUME upload'[k].phase # "idle", upload[k].phase = "idle"
               PROVE  UploadBegin(k)
    BY DEF PutsAreFresh, vars
  <2>1. upload'[k] # upload[k] /\ upload'[k] # NoUpload
    BY DEF NoUpload
  <2> QED
    BY <2>1, UploadMoves
<1>6. meta'[k] = None /\ k \notin erased' => meta[k] = None /\ k \notin erased
  <2> SUFFICES ASSUME meta'[k] = None, k \notin erased', meta[k] # None PROVE FALSE
    BY <1>2
  <2>1. ASSUME NEW x \in Keys, UploadCommit(x) PROVE FALSE
    BY <1>4, <2>1 DEF UploadCommit, TypeOK
  <2>2. ASSUME NEW x \in Keys, RemovalCommit(x) PROVE FALSE
    BY <1>1, <1>2, <2>2 DEF RemovalCommit, TypeOK
  <2> QED
    BY <2>1, <2>2, MetaChange
<1>7. upload'[k].phase # "idle" \/ (meta'[k] = None /\ k \notin erased') => Untouched(k)'
  BY <1>1, <1>4, <1>5, <1>6, UntouchedStays
<1>8. removal'[k].phase = "deleting" /\ removal'[k].scope = "all" => k \in erased'
  <2>1. CASE removal'[k] = removal[k]
    BY <1>1, <1>2, <2>1
  <2>2. CASE removal'[k] # removal[k]
    <3>1. PICK x \in Keys : RemovalNext(x)
      BY <2>2, RemovalChange
    <3>2. x = k
      BY <2>2, <3>1 DEF RemovalNext, RemovalBegin, RemovalDelete, RemovalCommit, RemovalLost, TypeOK
    <3>3. ASSUME NEW scope \in {"all", "live"}, NEW bypass \in BOOLEAN,
                 RemovalBegin(k, scope, bypass), removal'[k].scope = "all"
          PROVE  k \in erased'
      <4>1. scope = "all"
        BY <3>3 DEF RemovalBegin, TypeOK
      <4> QED
        BY <3>3, <4>1 DEF RemovalBegin
    <3>4. ASSUME NEW t \in Targets, RemovalDelete(k, t)
          PROVE  removal'[k].phase = removal[k].phase /\ removal'[k].scope = removal[k].scope
      BY <3>4 DEF RemovalDelete, TypeOK, RemovalJob
    <3>5. RemovalCommit(k) \/ RemovalLost(k) => removal'[k].phase = "idle"
      BY DEF RemovalCommit, RemovalLost, TypeOK, NoRemoval
    <3> QED
      BY <1>1, <1>2, <3>1, <3>2, <3>3, <3>4, <3>5 DEF RemovalNext
  <2> QED
    BY <2>1, <2>2
<1>9. upload'[k].phase # "idle" => upload'[k].content # None
  <2>1. CASE upload'[k] = upload[k]
    BY <1>1, <2>1
  <2>2. CASE upload'[k] # upload[k]
    <3>1. upload'[k] = NoUpload => upload'[k].phase = "idle"
      BY DEF NoUpload
    <3>2. \A c \in Body[k] : \A u : upload'[k] = [phase |-> "writing", content |-> c, until |-> u,
                                  todo |-> FirstWrites(k), wrote |-> {}]
             => upload'[k].content # None
      BY <1>3
    <3> QED
      BY <1>1, <2>2, <3>1, <3>2, UploadMoves
  <2> QED
    BY <2>1, <2>2
<1>10. HasWritten(k)'
  <2> SUFFICES ASSUME NEW t \in Targets, upload[k].phase = "writing",
                      disk[k][t] = upload[k].content
               PROVE  disk'[k][t] = upload[k].content
    BY <1>1, HasWrittenStep
  <2>1. Untouched(k)
    BY <1>1
  <2>2. ~RemovalDelete(k, t)
    BY <2>1 DEF Untouched, RemovalDelete
  <2>3. ~MediaRots(k, t)
    BY <2>1 DEF Untouched, MediaRots
  <2> QED
    BY <2>1, <2>2, <2>3, DiskOutcome DEF Untouched
<1> QED
  BY <1>7, <1>8, <1>9, <1>10

LEMMA FreshInit == Init => FreshInv
<1> SUFFICES ASSUME Init, NEW k \in Keys
             PROVE  upload[k] = NoUpload /\ removal[k] = NoRemoval /\ Untouched(k)
  BY DEF FreshInv, HasWritten, NoUpload, NoRemoval
<1>1. upload[k] = NoUpload /\ removal[k] = NoRemoval
  BY DEF Init
<1>2. meta[k] = None /\ erased = {} /\ copies = NoRows /\ sweep = NoSweep
  BY DEF Init
<1>3. \A t \in Targets : NoRows[k][t].status = "none"
  BY DEF NoRows, NoRow
<1> QED
  BY <1>1, <1>2, <1>3 DEF Untouched, NoRemoval, NoSweep

(* A PUT whose upload finds what it has written ends with a quorum.        *)
ByQuorum(k) ==
    (Quorate(k) /\ upload[k].phase = "writing" /\ upload'[k].phase = "idle"
        /\ faults' = faults)
          => Cardinality({t \in Live : /\ copies'[k][t].status = "ok"
                                       /\ disk'[k][t] = meta'[k]}) >= QuorumCount

LEMMA EndsByQuorum ==
    ASSUME TypeOK, [Next]_vars, NEW k \in Keys, HasWritten(k)
    PROVE  ByQuorum(k)
<1> SUFFICES ASSUME Quorate(k), upload[k].phase = "writing", upload'[k].phase = "idle",
                    faults' = faults
             PROVE  Cardinality({t \in Live : /\ copies'[k][t].status = "ok"
                                              /\ disk'[k][t] = meta'[k]}) >= QuorumCount
  BY DEF ByQuorum
<1>1. faults \in Nat /\ upload \in [Keys -> UploadJob] /\ upload' # upload
  BY DEF TypeOK
<1>2. ~Fault
  BY <1>1 DEF Fault
<1>3. UploadCommit(k)
  <2>1. PICK x \in Keys : UploadNext(x)
    BY <1>1, UploadChange
  <2>2. x = k
    BY <1>1, <2>1 DEF UploadNext, UploadBegin, UploadStored, UploadRaised, UploadCommit,
       QuorumMissed, UndoWrite, UploadRollback, UploadLost
  <2>3. ~UploadBegin(k) /\ ~UploadRollback(k) /\ ~UploadLost(k) /\ ~QuorumMissed(k)
    BY <1>1, <1>2 DEF UploadBegin, UploadRollback, UploadLost, QuorumMissed, UploadJob
  <2>4. ASSUME NEW t \in Targets
        PROVE  ~UploadStored(k, t) /\ ~UploadRaised(k, t) /\ ~UndoWrite(k, t)
    <3>1. [upload[k] EXCEPT !.todo = @ \ {t}, !.wrote = @ \cup {t}].phase = "writing"
      BY <1>1 DEF UploadJob
    <3>2. UploadStored(k, t) => upload'[k].phase = "writing"
      BY <1>1, <3>1 DEF UploadStored
    <3> QED
      BY <1>2, <3>2 DEF UploadRaised, UndoWrite
  <2> QED
    BY <2>1, <2>2, <2>3, <2>4 DEF UploadNext
<1>4. /\ upload[k].wrote \subseteq FirstWrites(k)
      /\ \A t \in upload[k].wrote : disk[k][t] = upload[k].content
  BY DEF HasWritten
<1>5. upload[k].wrote \subseteq Live
  BY <1>4 DEF FirstWrites, Quorate
<1>6. ASSUME NEW t \in Live
      PROVE  (copies'[k][t].status = "ok" /\ disk'[k][t] = meta'[k]) <=> t \in upload[k].wrote
  <2>0. copies \in [Keys -> [Targets -> Row]] /\ meta \in [Keys -> Contents \cup {None}]
        /\ t \in Targets
    BY DEF TypeOK, Targets
  <2>1. copies'[k][t] = WrittenRow(k, t) /\ meta'[k] = upload[k].content /\ disk' = disk
    BY <1>3, <2>0 DEF UploadCommit
  <2>2. t \in upload[k].wrote => WrittenRow(k, t).status = "ok" /\ disk[k][t] = upload[k].content
    BY <1>4 DEF WrittenRow, RecordCopy
  <2>3. t \notin upload[k].wrote => WrittenRow(k, t).status = "failed"
    BY DEF WrittenRow, RecordCopy
  <2> QED
    BY <2>1, <2>2, <2>3
<1>7. {t \in Live : copies'[k][t].status = "ok" /\ disk'[k][t] = meta'[k]} = upload[k].wrote
  BY <1>6, <1>5
<1>8. Cardinality(upload[k].wrote) >= QuorumCount
  BY <1>3 DEF UploadCommit, Confirmed
<1> QED
  BY <1>7, <1>8

(* write_with_redundancy under "quorum": when the PUT of a new key is      *)
(* answered, quorum_count targets hold its bytes under an "ok" row,        *)
(* whatever failed, crashed or was undone before.                          *)
THEOREM FreshPutsReachQuorum == Spec /\ [][PutsAreFresh]_vars => QuorumHolds
<1>1. Init => FreshInv
  BY FreshInit
<1>2. TypeOK /\ FreshInv /\ [Next]_vars /\ [PutsAreFresh]_vars => FreshInv'
  BY FreshStep
<1>3. TypeOK /\ FreshInv /\ [Next]_vars => [\A k \in Keys : ByQuorum(k)]_vars
  BY EndsByQuorum DEF FreshInv
<1> QED
  BY <1>1, <1>2, <1>3, TypeCorrect, PTL DEF Spec, QuorumHolds, ByQuorum

(* No object is PUT while it is being removed, nor removed while it is     *)
(* being PUT; a PUT that was answered may be repeated as often as one      *)
(* likes.                                                                  *)
PutsApart ==
    \A k \in Keys :
        /\ UploadBegin(k) => removal[k].phase = "idle"
        /\ (\E scope \in {"all", "live"}, bypass \in BOOLEAN : RemovalBegin(k, scope, bypass))
              => upload[k].phase = "idle"

(* Inductive: whatever is written under a key, by whomever, is what a      *)
(* caller sent for it.                                                     *)
ApartInv ==
    /\ \A k \in Keys : upload[k].phase # "idle" =>
          removal[k].phase = "idle" /\ upload[k].content \in Body[k]
    /\ \A k \in Keys, t \in Targets : disk[k][t] \in Body[k] \cup {None}
    /\ \A h \in sweep.held : h.data \in Body[h.key]
    /\ \A k \in Keys : HasWritten(k)

LEMMA ApartStep ==
    ASSUME WriteOnce, MaxRot = 0, TypeOK, ApartInv, [Next]_vars, [PutsApart]_vars
    PROVE  ApartInv'
<1>1. ASSUME NEW k \in Keys, upload'[k].phase # "idle"
      PROVE  removal'[k].phase = "idle" /\ upload'[k].content \in Body[k]
  <2>1. upload'[k] # NoUpload
    BY <1>1 DEF NoUpload
  <2>2. upload[k].phase = "idle" => UploadBegin(k) /\ upload'[k].content \in Body[k]
    <3>1. ASSUME NEW c \in Body[k], NEW u,
                 upload'[k] = [phase |-> "writing", content |-> c, until |-> u,
                               todo |-> FirstWrites(k), wrote |-> {}]
          PROVE  upload'[k].content \in Body[k]
      BY <3>1
    <3> QED
      BY <1>1, <2>1, <3>1, UploadMoves
  <2>3. upload[k].phase # "idle" => upload'[k].content \in Body[k]
    <3>1. ASSUME NEW c \in Body[k], NEW u,
                 upload'[k] = [phase |-> "writing", content |-> c, until |-> u,
                               todo |-> FirstWrites(k), wrote |-> {}]
          PROVE  upload'[k].content \in Body[k]
      BY <3>1
    <3> QED
      BY <2>1, <3>1, UploadMoves DEF ApartInv
  <2>4. removal[k].phase = "idle"
    <3>1. CASE upload[k].phase = "idle"
      <4>1. upload' # upload
        BY <1>1, <3>1
      <4> QED
        BY <2>2, <3>1, <4>1 DEF PutsApart, vars
    <3>2. CASE upload[k].phase # "idle"
      BY <3>2 DEF ApartInv
    <3> QED
      BY <3>1, <3>2
  <2>5. CASE removal' = removal
    BY <2>2, <2>3, <2>4, <2>5
  <2>6. ASSUME NEW x \in Keys, RemovalNext(x) PROVE removal'[k].phase = "idle"
    <3>1. upload' = upload
      BY <2>6, RemovalFrame
    <3>2. \A scope \in {"all", "live"}, bypass \in BOOLEAN : ~RemovalBegin(k, scope, bypass)
      <4>1. ASSUME NEW scope \in {"all", "live"}, NEW bypass \in BOOLEAN,
                   RemovalBegin(k, scope, bypass)
            PROVE  vars' # vars
        <5>1. removals \in Nat /\ removals' = removals + 1
          BY <4>1 DEF TypeOK, RemovalBegin
        <5> QED
          BY <5>1 DEF vars
      <4>2. upload[k].phase # "idle"
        BY <1>1, <3>1
      <4> QED
        BY <4>1, <4>2 DEF PutsApart
    <3>3. ~RemovalCommit(k) /\ ~RemovalLost(k) /\ \A t \in Targets : ~RemovalDelete(k, t)
      BY <2>4 DEF RemovalDelete, RemovalCommit, RemovalLost
    <3>4. x # k
      BY <2>6, <3>2, <3>3 DEF RemovalNext
    <3> QED
      BY <2>4, <2>6, <3>4 DEF RemovalNext, RemovalBegin, RemovalDelete, RemovalCommit,
         RemovalLost, TypeOK
  <2> QED
    BY <2>2, <2>3, <2>5, <2>6, RemovalChange
<1>2. ASSUME NEW k \in Keys, NEW t \in Targets PROVE ~MediaRots(k, t)
  BY DEF MediaRots, TypeOK
<1>3. ASSUME NEW k \in Keys, NEW t \in Targets PROVE disk'[k][t] \in Body[k] \cup {None}
  BY <1>2, DiskOutcome DEF ApartInv
<1>4. ASSUME NEW h \in sweep'.held PROVE h.data \in Body[h.key]
  <2>1. CASE sweep' = sweep
    BY <2>1, <1>4 DEF ApartInv
  <2>2. ASSUME NEW p \in sweep.todo, NEW s \in Targets, SweepRead(p[1], p[2], s)
        PROVE  h.data \in Body[h.key]
    <3>1. p[1] \in Keys
      BY DEF TypeOK, SweepJob, Pairs
    <3>2. h.key = p[1] /\ h.data = disk[p[1]][s] /\ h.data # None
      BY <1>4, <2>2 DEF SweepRead, TypeOK, SweepJob
    <3> QED
      BY <3>1, <3>2 DEF ApartInv
  <2>3. CASE \E p \in sweep.todo, s \in Targets : SweepRead(p[1], p[2], s)
    BY <2>2, <2>3
  <2> QED
    BY <1>4, <2>1, <2>3, SweepHeld
<1>5. ASSUME NEW k \in Keys PROVE HasWritten(k)'
  <2> SUFFICES ASSUME NEW t \in Targets, upload[k].phase = "writing",
                      disk[k][t] = upload[k].content
               PROVE  disk'[k][t] = upload[k].content
    BY HasWrittenStep DEF ApartInv
  <2>1. ~RemovalDelete(k, t) /\ upload[k].content \in Body[k]
    BY DEF ApartInv, RemovalDelete
  <2>2. \A h \in sweep.held : h.key = k => h.data = upload[k].content
    BY <2>1 DEF ApartInv, WriteOnce
  <2> QED
    BY <1>2, <2>1, <2>2, DiskOutcome
<1> QED
  BY <1>1, <1>3, <1>4, <1>5 DEF ApartInv

(* The same for a PUT that is repeated, after a failure or after success   *)
(* (a check-in of a content the document had before, the retrieval of a    *)
(* dehydrated document): it sends the same bytes, so that neither a copy   *)
(* that is undone nor one that the sweep writes is in its way.             *)
THEOREM RepeatedPutsReachQuorum ==
    ASSUME WriteOnce, MaxRot = 0
    PROVE  Spec /\ [][PutsApart]_vars => QuorumHolds
<1>1. Init => ApartInv
  BY DEF Init, ApartInv, HasWritten, NoUpload, NoRemoval, NoSweep
<1>2. TypeOK /\ ApartInv /\ [Next]_vars /\ [PutsApart]_vars => ApartInv'
  BY ApartStep
<1>3. TypeOK /\ ApartInv /\ [Next]_vars => [\A k \in Keys : ByQuorum(k)]_vars
  BY EndsByQuorum DEF ApartInv
<1> QED
  BY <1>1, <1>2, <1>3, TypeCorrect, PTL DEF Spec, QuorumHolds, ByQuorum

(* A key that is PUT at most once is new when it is PUT: so it is in the   *)
(* instance that TLC checks.                                               *)
OnceInv == \A k \in Keys : uploads[k] = 0 =>
               upload[k].phase = "idle" /\ meta[k] = None /\ k \notin erased

LEMMA OnceStep == ASSUME TypeOK, OnceInv, [Next]_vars PROVE OnceInv'
<1> SUFFICES ASSUME NEW k \in Keys, uploads'[k] = 0
             PROVE  upload'[k].phase = "idle" /\ meta'[k] = None /\ k \notin erased'
  BY DEF OnceInv
<1>1. uploads \in [Keys -> Nat] /\ upload \in [Keys -> UploadJob]
  BY DEF TypeOK
<1>2. ASSUME NEW x \in Keys, UploadBegin(x)
      PROVE  uploads'[x] # 0 /\ (x # k => uploads'[k] = uploads[k])
  BY <1>1, <1>2 DEF UploadBegin
<1>3. ASSUME NEW x \in Keys, UploadNext(x), ~UploadBegin(x) PROVE uploads' = uploads
  BY <1>3 DEF UploadNext, UploadStored, UploadRaised, UploadCommit, QuorumMissed, UndoWrite,
     UploadRollback, UploadLost
<1>4. ASSUME ~\E x \in Keys : UploadNext(x) PROVE uploads' = uploads
  BY <1>4 DEF Next, RemovalNext, RemovalBegin, RemovalDelete, RemovalCommit, RemovalLost,
     SweepBegin, SweepStep, SweepNoSource, SweepRead, SweepReadRaised, SweepWrite,
     SweepWriteRaised, SweepCommit, SweepLost, CheckBegin, CheckStep, CheckList, CheckRow,
     CheckCommit, CheckLost, BackoffElapses, MediaRots, TimePasses, vars
<1>5. uploads[k] = 0 /\ ~UploadBegin(k)
  BY <1>2, <1>3, <1>4
<1>6. upload[k].phase = "idle" /\ meta[k] = None /\ k \notin erased
  BY <1>5 DEF OnceInv
<1>7. upload'[k].phase = "idle"
  <2> SUFFICES ASSUME upload'[k].phase # "idle" PROVE UploadBegin(k)
    BY <1>5
  <2>1. upload'[k] # upload[k] /\ upload'[k] # NoUpload
    BY <1>6 DEF NoUpload
  <2> QED
    BY <1>6, <2>1, UploadMoves
<1>8. ASSUME NEW x \in Keys, UploadCommit(x) PROVE meta'[k] = meta[k]
  BY <1>6, <1>8 DEF UploadCommit, TypeOK
<1>9. ASSUME NEW x \in Keys, RemovalCommit(x) PROVE meta'[k] = None
  BY <1>6, <1>9 DEF RemovalCommit, TypeOK
<1>10. meta'[k] = None
  BY <1>6, <1>8, <1>9, MetaChange
<1> QED
  BY <1>6, <1>7, <1>10, ErasedHadObject

THEOREM PutOnceIsFresh == ASSUME MaxUploads <= 1 PROVE Spec => [][PutsAreFresh]_vars
<1>1. Init => OnceInv
  BY DEF Init, OnceInv, NoUpload
<1>2. TypeOK /\ OnceInv /\ [Next]_vars => OnceInv'
  BY OnceStep
<1>3. TypeOK /\ OnceInv => PutsAreFresh
  <2> SUFFICES ASSUME TypeOK, OnceInv, NEW k \in Keys, UploadBegin(k)
               PROVE  meta[k] = None /\ k \notin erased
    BY DEF PutsAreFresh
  <2>1. uploads[k] = 0
    <3>1. uploads[k] \in Nat /\ MaxUploads \in Nat
      BY StorageAssumption DEF TypeOK
    <3> QED
      BY <3>1 DEF UploadBegin
  <2> QED
    BY <2>1 DEF OnceInv
<1> QED
  BY <1>1, <1>2, <1>3, TypeCorrect, PTL DEF Spec
-----------------------------------------------------------------------------
(***************************************************************************)
(* Retention dates.  All rows of a key get the date of its PUT, provided   *)
(* that the quorum is of all targets: a copy that missed a smaller quorum  *)
(* has no date until a sweep hands it that of its source, and a DELETE may *)
(* have asked for locks before that.                                       *)
(***************************************************************************)

QuorumOfAll == Strategy = "quorum" => IsFiniteSet(Live) /\ QuorumCount >= Cardinality(Live)

Agree(r, s) == r.status # "none" /\ s.status # "none" => r.until = s.until

(* A session leaves the dates it loaded as they are, and loses no row.     *)
KeepsDates(job) ==
    \A k \in Keys, t \in Targets :
        /\ job.mine[k][t].until = job.loaded[k][t].until
        /\ job.mine[k][t].status = "none" => job.loaded[k][t].status = "none"

(* All that is known of a key's retention date is one date.                *)
DatesInv ==
    /\ \A k \in Keys, t \in Targets :
          /\ copies[k][t].status = "none" => copies[k][t].until = 0
          /\ <<k, t>> \in sweep.todo => sweep.mine[k][t].status # "none"
    /\ KeepsDates(sweep) /\ KeepsDates(check)
    /\ \A k \in Keys : \A t, u \in Targets :
          Agree(copies[k][t], copies[k][u]) /\ Agree(sweep.mine[k][t], copies[k][u])
    /\ \A h \in sweep.held : /\ <<h.key, h.target>> \in sweep.todo
                             /\ h.until = sweep.mine[h.key][h.target].until

(* A removal in flight that bypasses no lock meets none.                   *)
NoLockInv ==
    \A k \in Keys : removal[k].phase = "deleting" /\ ~removal[k].bypass =>
        \A t \in Governed : copies[k][t].until <= now

LockInv == TypeOK /\ FreshInv /\ DatesInv /\ NoLockInv

LEMMA TimeGrows == ASSUME TypeOK, [Next]_vars PROVE now \in Nat /\ now' \in Nat /\ now <= now'
<1>1. now \in Nat
  BY StorageAssumption DEF TypeOK
<1>2. now' = now \/ now' = now + 1
  BY DEF Next, UploadNext, UploadBegin, UploadStored, UploadRaised, UploadCommit, QuorumMissed,
     UndoWrite, UploadRollback, UploadLost, RemovalNext, RemovalBegin, RemovalDelete,
     RemovalCommit, RemovalLost, SweepBegin, SweepStep, SweepNoSource, SweepRead,
     SweepReadRaised, SweepWrite, SweepWriteRaised, SweepCommit, SweepLost, CheckBegin,
     CheckStep, CheckList, CheckRow, CheckCommit, CheckLost, BackoffElapses, MediaRots,
     TimePasses, vars
<1> QED
  BY <1>1, <1>2

(* Only a PUT gives a row a date.                                          *)
LEMMA DateStep ==
    ASSUME TypeOK, DatesInv, [Next]_vars, NEW k \in Keys, NEW t \in Targets
    PROVE  \/ UploadCommit(k) /\ copies'[k][t] = WrittenRow(k, t)
           \/ copies'[k][t] = NoRow
           \/ /\ copies'[k][t].until = copies[k][t].until
              /\ copies'[k][t].status = "none" <=> copies[k][t].status = "none"
<1>1. copies \in [Keys -> [Targets -> Row]]
  BY DEF TypeOK
<1>2. CASE copies' = copies
  BY <1>2
<1>3. ASSUME NEW x \in Keys, UploadCommit(x)
      PROVE  \/ UploadCommit(k) /\ copies'[k][t] = WrittenRow(k, t)
             \/ copies'[k][t] = copies[k][t]
  BY <1>1, <1>3 DEF UploadCommit
<1>4. ASSUME NEW x \in Keys, RemovalCommit(x)
      PROVE  copies'[k][t] \in {NoRow, copies[k][t]}
  BY <1>1, <1>4 DEF RemovalCommit, RowsAfterRemoval
<1>5. ASSUME NEW job, KeepsDates(job), copies' = FlushAll(job)
      PROVE  \/ copies'[k][t] = NoRow
             \/ /\ copies'[k][t].until = copies[k][t].until
                /\ copies'[k][t].status = "none" <=> copies[k][t].status = "none"
  <2>1. copies'[k][t] = Flushed(copies[k][t], job.loaded[k][t], job.mine[k][t])
    BY <1>5 DEF FlushAll
  <2>2. /\ job.mine[k][t].until = job.loaded[k][t].until
        /\ job.mine[k][t].status = "none" => job.loaded[k][t].status = "none"
    BY <1>5 DEF KeepsDates
  <2> QED
    BY <2>1, <2>2 DEF Flushed
<1>6. ASSUME NEW x \in Keys, NEW y \in Targets, BackoffElapses(x, y)
      PROVE  /\ copies'[k][t].until = copies[k][t].until
             /\ copies'[k][t].status = copies[k][t].status
  <2>1. copies' = [copies EXCEPT ![x][y].due = TRUE]
    BY <1>6 DEF BackoffElapses
  <2>2. \A r \in Row : /\ [r EXCEPT !.due = TRUE].status = r.status
                       /\ [r EXCEPT !.due = TRUE].until = r.until
    BY DEF Row
  <2> QED
    BY <1>1, <2>1, <2>2
<1>7. SweepCommit \/ CheckCommit =>
         \/ copies'[k][t] = NoRow
         \/ /\ copies'[k][t].until = copies[k][t].until
            /\ copies'[k][t].status = "none" <=> copies[k][t].status = "none"
  BY <1>5 DEF SweepCommit, CheckCommit, DatesInv
<1> QED
  BY <1>2, <1>3, <1>4, <1>6, <1>7, CopiesChange

(* The PUT of a new key gives all its rows its own date.                   *)
LEMMA OneDate ==
    ASSUME LockInv, QuorumOfAll, NEW k \in Keys, NEW t \in Targets, UploadCommit(k)
    PROVE  WrittenRow(k, t).status # "none" => WrittenRow(k, t).until = upload[k].until
<1>1. copies[k][t].status = "none" /\ copies[k][t].until = 0
  <2>1. upload[k].phase # "idle"
    BY DEF UploadCommit
  <2>2. Untouched(k)
    BY <2>1 DEF LockInv, FreshInv
  <2> QED
    BY <2>2 DEF Untouched, LockInv, DatesInv
<1>2. CASE Quorate(k) /\ t \in Live
  <2>1. upload[k].wrote \subseteq Live
    BY <1>2 DEF LockInv, FreshInv, HasWritten, UploadCommit, FirstWrites, Quorate
  <2>2. IsFiniteSet(Live) /\ QuorumCount >= Cardinality(Live)
    BY <1>2 DEF Quorate, QuorumOfAll
  <2>3. Cardinality(upload[k].wrote) >= QuorumCount
    BY <1>2 DEF UploadCommit, Confirmed
  <2>4. QuorumCount \in Nat /\ Cardinality(Live) \in Nat /\ Cardinality(upload[k].wrote) \in Nat
    BY <2>1, <2>2, FS_Subset, FS_CardinalityType, StorageAssumption
  <2>5. upload[k].wrote = Live
    BY <2>1, <2>2, <2>3, <2>4, FS_Subset
  <2> QED
    BY <1>1, <1>2, <2>5 DEF WrittenRow, RecordCopy
<1>3. CASE ~(Quorate(k) /\ t \in Live)
  BY <1>1, <1>3 DEF WrittenRow, RecordCopy
<1> QED
  BY <1>2, <1>3

(* A sweep under way keeps its rows and their dates.                       *)
LEMMA SweepDates ==
    ASSUME TypeOK, DatesInv, [Next]_vars
    PROVE  \/ sweep' = NoSweep
           \/ SweepBegin
           \/ /\ sweep'.loaded = sweep.loaded /\ sweep'.todo \subseteq sweep.todo
              /\ \A k \in Keys, t \in Targets :
                    /\ sweep'.mine[k][t].until = sweep.mine[k][t].until
                    /\ sweep'.mine[k][t].status = "none" <=> sweep.mine[k][t].status = "none"
<1> DEFINE Dated ==
      /\ sweep'.loaded = sweep.loaded /\ sweep'.todo \subseteq sweep.todo
      /\ \A k \in Keys, t \in Targets :
            /\ sweep'.mine[k][t].until = sweep.mine[k][t].until
            /\ sweep'.mine[k][t].status = "none" <=> sweep.mine[k][t].status = "none"
<1>1. sweep \in SweepJob
  BY DEF TypeOK
<1>2. ASSUME NEW k \in Keys, NEW t \in Targets, <<k, t>> \in sweep.todo, NEW row,
             SweepRecord(k, t, row), row.status # "none", row.until = sweep.mine[k][t].until
      PROVE  sweep' = NoSweep \/ Dated
  <2>1. CASE copies[k][t].status = "none"
    BY <1>2, <2>1 DEF SweepRecord
  <2>2. CASE copies[k][t].status # "none"
    <3>1. sweep' = [sweep EXCEPT !.todo = @ \ {<<k, t>>}, !.held = {}, !.mine[k][t] = row]
      BY <1>2, <2>2 DEF SweepRecord
    <3>2. sweep'.loaded = sweep.loaded /\ sweep'.todo \subseteq sweep.todo
      BY <1>1, <3>1 DEF SweepJob
    <3>3. \A x \in Keys, y \in Targets :
             sweep'.mine[x][y] = IF x = k /\ y = t THEN row ELSE sweep.mine[x][y]
      BY <1>1, <3>1 DEF SweepJob
    <3>4. sweep.mine[k][t].status # "none"
      BY <1>2 DEF DatesInv
    <3> QED
      BY <1>2, <3>2, <3>3, <3>4
  <2> QED
    BY <2>1, <2>2
<1> HIDE DEF Dated
<1>3. ASSUME NEW k \in Keys, NEW t \in Targets, <<k, t>> \in sweep.todo, SweepFailed(k, t)
      PROVE  sweep' = NoSweep \/ Dated
  <2>1. PICK status \in {"failed", "failed_permanent"}, due \in BOOLEAN :
          SweepRecord(k, t, RecordCopy(sweep.mine[k][t], status, TRUE, 0, due))
    BY <1>3, SweepFailedOutcome
  <2> DEFINE row == RecordCopy(sweep.mine[k][t], status, TRUE, 0, due)
  <2>2. row.status # "none" /\ row.until = sweep.mine[k][t].until
    BY DEF RecordCopy
  <2>3. SweepRecord(k, t, row)
    BY <2>1
  <2> HIDE DEF row
  <2> QED
    BY <1>2, <1>3, <2>2, <2>3
<1>4. ASSUME NEW k \in Keys, NEW t \in Targets, SweepNoSource(k, t)
      PROVE  sweep' = NoSweep \/ Dated
  <2> DEFINE row == RecordCopy(sweep.mine[k][t], "failed", TRUE, 0, FALSE)
  <2>1. SweepRecord(k, t, row) /\ <<k, t>> \in sweep.todo
    BY <1>4 DEF SweepNoSource
  <2>2. row.status # "none" /\ row.until = sweep.mine[k][t].until
    BY DEF RecordCopy
  <2> HIDE DEF row
  <2> QED
    BY <1>2, <2>1, <2>2
<1>5. ASSUME NEW k \in Keys, NEW t \in Targets, NEW s \in Targets, SweepRead(k, t, s)
      PROVE  Dated
  BY <1>1, <1>5 DEF SweepRead, SweepJob, Dated
<1>6. ASSUME NEW k \in Keys, NEW t \in Targets, NEW s \in Targets, SweepReadRaised(k, t, s)
      PROVE  sweep' = NoSweep \/ Dated
  BY <1>3, <1>6 DEF SweepReadRaised
<1>7. ASSUME NEW h \in sweep.held
      PROVE  /\ h.key \in Keys /\ h.target \in Targets /\ <<h.key, h.target>> \in sweep.todo
             /\ h.until = sweep.mine[h.key][h.target].until
  BY <1>1, <1>7 DEF SweepJob, Held, DatesInv
<1>8. ASSUME SweepWrite PROVE sweep' = NoSweep \/ Dated
  <2>1. PICK h \in sweep.held :
          SweepRecord(h.key, h.target,
               RecordCopy(sweep.mine[h.key][h.target], "ok", TRUE, h.until, TRUE))
    BY <1>8 DEF SweepWrite
  <2> DEFINE row == RecordCopy(sweep.mine[h.key][h.target], "ok", TRUE, h.until, TRUE)
  <2>2. row.status # "none" /\ row.until = sweep.mine[h.key][h.target].until
    BY <1>7 DEF RecordCopy
  <2>3. SweepRecord(h.key, h.target, row)
    BY <2>1
  <2> HIDE DEF row
  <2> QED
    BY <1>2, <1>7, <2>2, <2>3
<1>9. ASSUME SweepWriteRaised PROVE sweep' = NoSweep \/ Dated
  BY <1>3, <1>7, <1>9 DEF SweepWriteRaised
<1>10. sweep' = sweep => Dated
  BY DEF Dated
<1>11. SweepCommit \/ SweepLost => sweep' = NoSweep
  BY DEF SweepCommit, SweepLost
<1>12. \A p \in sweep.todo : p[1] \in Keys /\ p[2] \in Targets
  BY <1>1 DEF SweepJob, Pairs
<1>13. sweep' = NoSweep \/ SweepBegin \/ Dated
  <2>1. CASE SweepStep
    BY <2>1, <1>4, <1>5, <1>6, <1>8, <1>9, <1>11, <1>12 DEF SweepStep
  <2> QED
    BY <1>10, <1>11, <2>1, SweepChange
<1> QED
  BY <1>13 DEF Dated

(* A fixity check never touches a date.                                    *)
LEMMA CheckDates ==
    ASSUME TypeOK, KeepsDates(check), [Next]_vars
    PROVE  KeepsDates(check')
<1>0. check \in CheckJob
  BY DEF TypeOK
<1>1. CASE check' = check
  BY <1>1
<1>2. ASSUME NEW job, job.mine = job.loaded PROVE KeepsDates(job)
  BY <1>2 DEF KeepsDates
<1>3. NoCheck.mine = NoCheck.loaded
  BY DEF NoCheck
<1>4. ASSUME NEW ks \in SUBSET Keys, CheckBegin(ks) PROVE check'.mine = check'.loaded
  BY <1>4 DEF CheckBegin
<1>5. ASSUME NEW x \in check.keys, CheckList(x) PROVE KeepsDates(check')
  <2>1. x \in Keys
    BY <1>0 DEF CheckJob
  <2>2. /\ check'.mine = [check.mine EXCEPT ![x] = copies[x]]
        /\ check'.loaded = [check.loaded EXCEPT ![x] = copies[x]]
    BY <1>0, <1>5 DEF CheckList, CheckJob
  <2> QED
    BY <1>0, <2>1, <2>2 DEF KeepsDates, CheckJob
<1>6. ASSUME NEW x \in Keys, NEW y \in Targets, CheckRow(x, y), check' # NoCheck
      PROVE  KeepsDates(check')
  <2>1. PICK status \in {"ok", "failed"} : CheckRecord(x, y, status)
    BY <1>6 DEF CheckRow, Verdict
  <2> DEFINE row == RecordCopy(check.mine[x][y], status, FALSE, 0, TRUE)
  <2>2. row.status # "none" /\ row.until = check.mine[x][y].until
    BY DEF RecordCopy
  <2>3. check' = [check EXCEPT !.todo = @ \ {<<x, y>>}, !.mine[x][y] = row]
    BY <1>6, <2>1 DEF CheckRecord
  <2> HIDE DEF row
  <2>4. /\ check'.loaded = check.loaded
        /\ \A k \in Keys, t \in Targets :
             check'.mine[k][t] = IF k = x /\ t = y THEN row ELSE check.mine[k][t]
    BY <1>0, <2>3 DEF CheckJob
  <2> QED
    BY <2>2, <2>4 DEF KeepsDates
<1>7. CheckCommit \/ CheckLost => check' = NoCheck
  BY DEF CheckCommit, CheckLost
<1>8. \A p \in check.todo : p[1] \in Keys /\ p[2] \in Targets
  BY <1>0 DEF CheckJob, Pairs
<1>9. CASE check' = NoCheck
  BY <1>2, <1>3, <1>9
<1>10. CASE \E ks \in SUBSET Keys : CheckBegin(ks)
  BY <1>2, <1>4, <1>10
<1>11. CASE CheckStep
  BY <1>5, <1>6, <1>7, <1>8, <1>9, <1>11 DEF CheckStep
<1> QED
  BY <1>1, <1>7, <1>9, <1>10, <1>11, CheckChange

LEMMA DatesStep ==
    ASSUME LockInv, QuorumOfAll, [Next]_vars
    PROVE  DatesInv'
<1> USE DEF LockInv
<1>1. ASSUME NEW k \in Keys, NEW t \in Targets, copies'[k][t].status = "none"
      PROVE  copies'[k][t].until = 0
  <2>1. copies[k][t].status = "none" => copies[k][t].until = 0
    BY DEF DatesInv
  <2>2. CASE copies'[k][t] = WrittenRow(k, t)
    BY <1>1, <2>1, <2>2, WrittenRowStatus
  <2>3. CASE copies'[k][t] = NoRow
    BY <2>3 DEF NoRow
  <2> QED
    BY <1>1, <2>1, <2>2, <2>3, DateStep
<1>2. ASSUME NEW k \in Keys, NEW t \in Targets, <<k, t>> \in sweep'.todo
      PROVE  sweep'.mine[k][t].status # "none"
  <2>1. CASE sweep' = NoSweep
    BY <1>2, <2>1 DEF NoSweep
  <2>2. CASE SweepBegin
    <3>1. sweep'.mine[k][t] = DueRows[k][t] /\ <<k, t>> \in DuePairs
      BY <1>2, <2>2 DEF SweepBegin
    <3> QED
      BY <3>1 DEF DueRows, DuePairs
  <2> QED
    BY <1>2, <2>1, <2>2, SweepDates DEF DatesInv
<1>3. KeepsDates(sweep')
  <2>1. CASE sweep' = NoSweep \/ SweepBegin
    <3>1. sweep'.mine = sweep'.loaded
      BY <2>1 DEF NoSweep, SweepBegin
    <3> QED
      BY <3>1 DEF KeepsDates
  <2> QED
    BY <2>1, SweepDates DEF DatesInv, KeepsDates
<1>4. KeepsDates(check')
  BY CheckDates DEF DatesInv
<1>5. ASSUME NEW k \in Keys, NEW t \in Targets, NEW u \in Targets
      PROVE  Agree(copies'[k][t], copies'[k][u])
  <2>1. Agree(copies[k][t], copies[k][u])
    BY DEF DatesInv
  <2>2. CASE UploadCommit(k)
    <3>1. copies'[k][t] = WrittenRow(k, t) /\ copies'[k][u] = WrittenRow(k, u)
      BY <2>2 DEF UploadCommit, TypeOK
    <3> QED
      BY <2>2, <3>1, OneDate DEF Agree
  <2>3. CASE ~UploadCommit(k)
    <3>1. /\ \/ copies'[k][t].status = "none"
             \/ /\ copies'[k][t].until = copies[k][t].until
                /\ copies[k][t].status # "none"
          /\ \/ copies'[k][u].status = "none"
             \/ /\ copies'[k][u].until = copies[k][u].until
                /\ copies[k][u].status # "none"
      BY <2>3, DateStep DEF NoRow
    <3> QED
      BY <2>1, <3>1 DEF Agree
  <2> QED
    BY <2>2, <2>3
<1>6. ASSUME NEW k \in Keys, NEW t \in Targets, NEW u \in Targets
      PROVE  Agree(sweep'.mine[k][t], copies'[k][u])
  <2>1. Agree(sweep.mine[k][t], copies[k][u]) /\ Agree(copies[k][t], copies[k][u])
    BY DEF DatesInv
  <2>2. CASE sweep' = NoSweep
    BY <2>2 DEF NoSweep, NoRows, NoRow, Agree
  <2>3. CASE SweepBegin
    <3>1. sweep'.mine[k][t] \in {copies[k][t], NoRow} /\ copies' = copies
      BY <2>3 DEF SweepBegin, DueRows
    <3> QED
      BY <2>1, <3>1 DEF Agree, NoRow
  <2>4. CASE UploadCommit(k)
    <3>1. Untouched(k) /\ sweep' = sweep
      BY <2>4 DEF FreshInv, UploadCommit
    <3> QED
      BY <3>1 DEF Untouched, Agree
  <2>5. CASE ~UploadCommit(k) /\ sweep'.mine[k][t].until = sweep.mine[k][t].until
             /\ (sweep'.mine[k][t].status = "none" <=> sweep.mine[k][t].status = "none")
    <3>1. \/ copies'[k][u].status = "none"
          \/ copies'[k][u].until = copies[k][u].until /\ copies[k][u].status # "none"
      BY <2>5, DateStep DEF NoRow
    <3> QED
      BY <2>1, <2>5, <3>1 DEF Agree
  <2> QED
    BY <2>2, <2>3, <2>4, <2>5, SweepDates
<1>7. ASSUME NEW h \in sweep'.held
      PROVE  /\ <<h.key, h.target>> \in sweep'.todo
             /\ h.until = sweep'.mine[h.key][h.target].until
  <2>1. CASE sweep' = sweep
    BY <1>7, <2>1 DEF DatesInv
  <2>2. ASSUME NEW p \in sweep.todo, NEW s \in Targets, SweepRead(p[1], p[2], s)
        PROVE  /\ <<h.key, h.target>> \in sweep'.todo
               /\ h.until = sweep'.mine[h.key][h.target].until
    <3>1. p[1] \in Keys /\ p[2] \in Targets /\ p = <<p[1], p[2]>>
      BY DEF TypeOK, SweepJob, Pairs
    <3>2. /\ sweep'.held = {[key |-> p[1], target |-> p[2], data |-> disk[p[1]][s],
                             until |-> Seen(p[1], s).until]}
          /\ sweep'.mine = sweep.mine /\ sweep'.todo = sweep.todo
      BY <2>2 DEF SweepRead, TypeOK, SweepJob
    <3>3. h.key = p[1] /\ h.target = p[2] /\ h.until = Seen(p[1], s).until
      BY <1>7, <3>2
    <3>4. Seen(p[1], s).status = "ok"
      BY <2>2 DEF SweepRead, OkSources
    <3>5. copies[p[1]][s].status # "none" /\ Seen(p[1], s).until = copies[p[1]][s].until
      BY <3>1, <3>4 DEF Seen, Flushed, NoRow, DatesInv, KeepsDates
    <3>6. sweep.mine[p[1]][p[2]].status # "none"
      BY <3>1 DEF DatesInv
    <3>7. Agree(sweep.mine[p[1]][p[2]], copies[p[1]][s])
      BY <3>1 DEF DatesInv
    <3> QED
      BY <3>1, <3>2, <3>3, <3>5, <3>6, <3>7 DEF Agree
  <2> QED
    BY <1>7, <2>1, <2>2, SweepHeld
<1> QED
  BY <1>1, <1>2, <1>3, <1>4, <1>5, <1>6, <1>7 DEF DatesInv

LEMMA NoLockStep ==
    ASSUME LockInv, [Next]_vars
    PROVE  NoLockInv'
<1> USE DEF LockInv
<1> SUFFICES ASSUME NEW k \in Keys, removal'[k].phase = "deleting", ~removal'[k].bypass,
                    NEW t \in Governed
             PROVE  copies'[k][t].until <= now'
  BY DEF NoLockInv
<1>1. now \in Nat /\ now' \in Nat /\ now <= now'
  BY TimeGrows
<1>2. t \in Targets /\ copies[k][t].until \in Nat
  BY StorageAssumption DEF TypeOK, Row
<1>3. CASE removal[k].phase = "deleting" /\ ~removal[k].bypass
  <2>1. copies[k][t].until <= now
    BY <1>3 DEF NoLockInv
  <2>2. ~UploadCommit(k)
    BY <1>3 DEF FreshInv, HasWritten, UploadCommit, Untouched
  <2> QED
    BY <1>1, <1>2, <2>1, <2>2, DateStep DEF NoRow
<1>4. ASSUME NEW scope \in {"all", "live"}, NEW bypass \in BOOLEAN, RemovalBegin(k, scope, bypass)
      PROVE  copies'[k][t].until <= now'
  <2>1. removal'[k].bypass = (bypass /\ LockedTargets(k) # {}) /\ copies' = copies
    BY <1>4 DEF RemovalBegin, TypeOK
  <2>2. LockedTargets(k) = {}
    BY <1>4, <2>1 DEF RemovalBegin
  <2>3. ~(copies[k][t].until > now)
    BY <2>2 DEF LockedTargets
  <2> QED
    BY <1>1, <1>2, <2>1, <2>3
<1>5. CASE removal'[k] # removal[k]
  <2>1. PICK x \in Keys : RemovalNext(x)
    BY <1>5, RemovalChange
  <2>2. x = k
    BY <1>5, <2>1 DEF RemovalNext, RemovalBegin, RemovalDelete, RemovalCommit, RemovalLost, TypeOK
  <2>3. ASSUME NEW u \in Targets, RemovalDelete(k, u)
        PROVE  removal'[k].phase = removal[k].phase /\ removal'[k].bypass = removal[k].bypass
    BY <2>3 DEF RemovalDelete, TypeOK, RemovalJob
  <2>4. ~RemovalCommit(k) /\ ~RemovalLost(k)
    BY DEF RemovalCommit, RemovalLost, TypeOK, NoRemoval
  <2> QED
    BY <1>3, <1>4, <2>1, <2>2, <2>3, <2>4 DEF RemovalNext
<1> QED
  BY <1>3, <1>5

(* DELETE and dehydration: a copy whose lock runs goes only with an        *)
(* authorised bypass, whatever sweeps, checks, failures and the clock do   *)
(* meanwhile, as long as keys are new and the quorum is of all targets.    *)
THEOREM FreshLocksHonoured == ASSUME QuorumOfAll PROVE Spec /\ [][PutsAreFresh]_vars => LockHonoured
<1> DEFINE Locked(k, t) ==
      (copies[k][t].until > now /\ copies'[k][t].status = "none") => removal[k].bypass
<1>1. Init => DatesInv /\ NoLockInv
  <2> SUFFICES ASSUME Init PROVE DatesInv /\ NoLockInv
    OBVIOUS
  <2>1. \A k \in Keys, t \in Targets : NoRows[k][t] = NoRow
    BY DEF NoRows
  <2>2. copies = NoRows /\ sweep = NoSweep /\ check = NoCheck /\ \A k \in Keys : removal[k] = NoRemoval
    BY DEF Init
  <2> QED
    BY <2>1, <2>2 DEF DatesInv, NoLockInv, KeepsDates, Agree, NoRow, NoSweep, NoCheck, NoRemoval
<1>2. Init => LockInv
  BY <1>1, TypeInit, FreshInit DEF LockInv
<1>3. LockInv /\ [Next]_vars /\ [PutsAreFresh]_vars => LockInv'
  BY TypeStep, FreshStep, DatesStep, NoLockStep DEF LockInv
<1>4. ASSUME LockInv, [Next]_vars, NEW k \in Keys, NEW t \in Governed PROVE Locked(k, t)
  <2> USE <1>4 DEF LockInv
  <2> SUFFICES ASSUME copies[k][t].until > now, copies'[k][t].status = "none"
               PROVE  removal[k].bypass
    OBVIOUS
  <2>1. t \in Targets /\ now \in Nat /\ copies[k][t].until \in Nat
    BY StorageAssumption DEF TypeOK, Row
  <2>2. copies[k][t].status # "none"
    <3>1. copies[k][t].status = "none" => copies[k][t].until = 0
      BY <2>1 DEF DatesInv
    <3> QED
      BY <2>1, <3>1
  <2>3. ~(UploadCommit(k) /\ copies'[k][t] = WrittenRow(k, t))
    BY <2>1, <2>2, WrittenRowStatus
  <2>4. \A job \in {sweep, check} :
           ~(/\ job.mine[k][t].status # job.loaded[k][t].status
             /\ copies'[k][t].status = job.mine[k][t].status)
    BY <2>1 DEF DatesInv, KeepsDates
  <2>5. RemovalCommit(k)
    BY <2>1, <2>2, <2>3, <2>4, CopyRowStep
  <2> QED
    BY <2>1, <2>5 DEF RemovalCommit, NoLockInv
<1>5. LockInv /\ [Next]_vars => [\A k \in Keys, t \in Governed : Locked(k, t)]_vars
  <2> HIDE DEF Locked
  <2> QED
    BY <1>4
<1> QED
  BY <1>2, <1>3, <1>5, PTL DEF Spec, LockHonoured

-----------------------------------------------------------------------------
(* The admin plane: StorageTargets.                                        *)

(* What an admin request in flight can be, and what it then carries.       *)
LEMMA RequestForms ==
    /\ NoRequest \in Request /\ [pc |-> "committed"] \in Request
    /\ \A t \in TargetIds, s \in Override, w \in BOOLEAN :
          [pc |-> "checked", kind |-> "target", target |-> t, set |-> s, was |-> w] \in Request
    /\ \A g \in Config : [pc |-> "checked", kind |-> "config", cfg |-> g] \in Request
    /\ \A o \in [TargetIds -> Override] : [pc |-> "reloaded", seen |-> o] \in Request
BY DEF NoRequest, Request

LEMMA RequestFields ==
    ASSUME NEW r \in Request
    PROVE  /\ r.pc \in {"idle", "checked", "committed", "reloaded"}
           /\ r.pc = "checked" => r.kind \in {"target", "config"}
           /\ r.pc = "checked" /\ r.kind = "target" =>
                 r.target \in TargetIds /\ r.set \in Override /\ r.was \in BOOLEAN
           /\ r.pc = "checked" /\ r.kind = "config" => r.cfg \in Config
           /\ r.pc = "reloaded" => r.seen \in [TargetIds -> Override]
BY DEF NoRequest, Request

(* A request in flight moves on: the others stay where they are.           *)
LEMMA AdminMoves ==
    ASSUME TargetsTypeOK, NEW x \in Admins, NEW r \in Request,
           admin' = [admin EXCEPT ![x] = r]
    PROVE  /\ admin' \in [Admins -> Request]
           /\ admin'[x] = r
           /\ \A p \in Admins : p # x => admin'[p] = admin[p]
BY DEF TargetsTypeOK

(* Rows of all objects, and what the helpers on them do to one row.        *)
RowTable == [Objects -> [TargetIds -> Status]]

LEMMA Seeded ==
    ASSUME NEW rs \in RowTable, NEW ts
    PROVE  /\ SeedPending(rs, ts) \in RowTable
           /\ \A k \in Objects, u \in TargetIds : SeedPending(rs, ts)[k][u] =
                 IF u \in ts /\ k \in objects /\ rs[k][u] = "none" THEN "pending" ELSE rs[k][u]
BY DEF SeedPending, RowTable, Status

LEMMA Reset ==
    ASSUME NEW rs \in RowTable, NEW ts
    PROVE  /\ ResetCopies(rs, ts) \in RowTable
           /\ \A k \in Objects, u \in TargetIds : ResetCopies(rs, ts)[k][u] =
                 IF u \in ts /\ rs[k][u] # "none" THEN "pending" ELSE rs[k][u]
BY DEF ResetCopies, RowTable, Status

LEMMA Removed ==
    ASSUME NEW rs \in RowTable, NEW t \in TargetIds
    PROVE  /\ RemoveCopies(rs, t) \in RowTable
           /\ \A k \in Objects, u \in TargetIds : RemoveCopies(rs, t)[k][u] =
                 IF u = t THEN "none" ELSE rs[k][u]
BY DEF RemoveCopies, RowTable, Status

LEMMA Counted == \A S \in SUBSET TargetIds : IsFiniteSet(S) /\ Cardinality(S) \in Nat
BY TargetsAssumption, FS_Subset, FS_CardinalityType

(* What the two resolvers return.                                          *)
LEMMA Resolved ==
    ASSUME present \subseteq TargetIds, NEW o \in [TargetIds -> Override]
    PROVE  /\ ResolveTargets(o) \subseteq TargetIds
           /\ ResolveTargets(o) \subseteq present
           /\ ResolveArchiveTargets(o) \subseteq TargetIds
           /\ ResolveArchiveTargets(o) \subseteq present
           /\ \A t \in TargetIds : t \in ResolveTargets(o) <=>
                 t \in present /\ o[t].role = "regular" /\ o[t].retired = FALSE
           /\ \A t \in ResolveArchiveTargets(o) : o[t].role = "archive" /\ o[t].retired = FALSE
BY DEF ResolveTargets, ResolveArchiveTargets, Override

LEMMA TargetsInitially == ASSUME TargetsInit PROVE TargetsTypeOK
<1>1. override \in [TargetIds -> Override]
  BY TargetsAssumption DEF TargetsInit, Override
<1>2. cfg \in Config
  BY DEF TargetsInit, Config
<1>3. admin \in [Admins -> Request]
  BY RequestForms DEF TargetsInit
<1> QED  BY <1>1, <1>2, <1>3, TargetsAssumption DEF TargetsInit, TargetsTypeOK, Status

(* Data-plane requests change rows and bytes only.                         *)
DataStep ==
    \/ \E k \in Objects : Upload(k) \/ ArchiveUpload(k) \/ Delete(k) \/ Verify(k)
    \/ \E k \in Objects, t \in TargetIds : Replicate(k, t)

LEMMA StoreTyped ==
    ASSUME TargetsTypeOK, NEW k \in Objects, NEW ts, StoreOn(k, ts)
    PROVE  stored' \in [TargetIds -> SUBSET Objects]
BY DEF TargetsTypeOK, StoreOn

LEMMA DataTyped == ASSUME TargetsTypeOK, DataStep PROVE TargetsTypeOK'
<1> USE DEF TargetsTypeOK
<1>1. ASSUME rows' \in [Objects -> [TargetIds -> Status]],
             stored' \in [TargetIds -> SUBSET Objects], objects' \subseteq Objects,
             UNCHANGED <<control, marker, known, stamps, swaps>>
      PROVE  TargetsTypeOK'
  BY <1>1 DEF control
<1>2. ASSUME NEW k \in Objects, Upload(k) PROVE TargetsTypeOK'
  <2>1. PICK s \in Confirming :
          /\ StoreOn(k, s)
          /\ rows' = [rows EXCEPT ![k] = [t \in TargetIds |->
                CASE t \in s -> "ok"
                  [] t \in live \ s ->
                        IF cfg.strategy = "quorum" THEN "failed" ELSE "pending"
                  [] OTHER -> @[t]]]
    BY <1>2 DEF Upload
  <2>2. rows' \in [Objects -> [TargetIds -> Status]]
    BY <2>1 DEF Status
  <2> QED  BY <1>1, <1>2, <2>1, <2>2, StoreTyped DEF Upload
<1>3. ASSUME NEW k \in Objects, ArchiveUpload(k) PROVE TargetsTypeOK'
  <2>1. rows' \in [Objects -> [TargetIds -> Status]]
    BY <1>3 DEF ArchiveUpload, Status
  <2> QED  BY <1>1, <1>3, <2>1, StoreTyped DEF ArchiveUpload
<1>4. ASSUME NEW k \in Objects, Delete(k) PROVE TargetsTypeOK'
  <2>1. rows' \in [Objects -> [TargetIds -> Status]]
    BY <1>4 DEF Delete, Status
  <2>2. stored' \in [TargetIds -> SUBSET Objects]
    BY <1>4 DEF Delete
  <2> QED  BY <1>1, <1>4, <2>1, <2>2 DEF Delete
<1>5. ASSUME NEW k \in Objects, Verify(k) PROVE TargetsTypeOK'
  <2>1. rows' \in [Objects -> [TargetIds -> Status]]
    BY <1>5 DEF Verify, Status
  <2> QED  BY <1>1, <1>5, <2>1 DEF Verify, devices
<1>6. ASSUME NEW k \in Objects, NEW t \in TargetIds, Replicate(k, t) PROVE TargetsTypeOK'
  <2>1. rows' \in [Objects -> [TargetIds -> Status]]
    <3>1. \A v \in Status : [rows EXCEPT ![k][t] = v] \in [Objects -> [TargetIds -> Status]]
      OBVIOUS
    <3>2. "ok" \in Status /\ "failed" \in Status
      BY DEF Status
    <3>3. rows' = [rows EXCEPT ![k][t] = "ok"] \/ rows' = [rows EXCEPT ![k][t] = "failed"]
      BY <1>6 DEF Replicate
    <3> QED  BY <3>1, <3>2, <3>3
  <2>2. stored' \in [TargetIds -> SUBSET Objects]
    BY <1>6, StoreTyped DEF Replicate
  <2> QED  BY <1>1, <1>6, <2>1, <2>2 DEF Replicate
<1> QED  BY <1>2, <1>3, <1>4, <1>5, <1>6 DEF DataStep

LEMMA StartTyped ==
    ASSUME TargetsTypeOK, NEW reachable \in SUBSET TargetIds, Start(reachable)
    PROVE  TargetsTypeOK'
<1> USE DEF TargetsTypeOK
<1>1. \A t \in TargetIds : Stamp(reachable, t) \in Nat
  <2> SUFFICES ASSUME NEW t \in TargetIds PROVE Stamp(reachable, t) \in Nat
    OBVIOUS
  <2>1. Cardinality({u \in Blank(reachable) : Position[u] <= Position[t]}) \in Nat
    <3>1. {u \in Blank(reachable) : Position[u] <= Position[t]} \subseteq TargetIds
      BY Resolved DEF Blank, Fresh
    <3> QED  BY <3>1, Counted
  <2> QED  BY <2>1 DEF Stamp
<1>2. Cardinality(Blank(reachable)) \in Nat
  <2>1. Blank(reachable) \subseteq TargetIds
    BY Resolved DEF Blank, Fresh
  <2> QED  BY <2>1, Counted
<1>3. rows' \in RowTable
  <2>1. SeedPending(rows, Fresh(reachable)) \in RowTable
    BY Seeded DEF RowTable
  <2>2. ResetCopies(SeedPending(rows, Fresh(reachable)),
                    ResolveTargets(override) \ Verified(reachable)) \in RowTable
    BY <2>1, Reset
  <2> QED  BY <2>1, <2>2 DEF Start
<1>4. /\ marker' \in [TargetIds -> Nat] /\ known' \in [TargetIds -> Nat]
      /\ stamps' \in Nat /\ starts' \in Nat
  BY <1>1, <1>2 DEF Start
<1>5. live' \subseteq TargetIds /\ archive' \subseteq TargetIds
  BY Resolved DEF Start
<1>6. running' \in BOOLEAN
  BY DEF Start
<1> QED  BY <1>3, <1>4, <1>5, <1>6 DEF Start, RowTable

LEMMA AdminTyped ==
    ASSUME TargetsTypeOK, NEW x \in Admins, AdminNext(x)
    PROVE  TargetsTypeOK'
<1> USE DEF TargetsTypeOK
<1>1. admin[x] \in Request
  OBVIOUS
<1>2. ASSUME NEW t \in TargetIds, NEW retired \in BOOLEAN, NEW role \in Roles[t],
             TargetCheck(x, t, [role |-> role, retired |-> retired])
      PROVE  TargetsTypeOK'
  <2>1. [role |-> role, retired |-> retired] \in Override
    BY TargetsAssumption DEF Override
  <2>2. override[t].retired \in BOOLEAN
    BY DEF Override
  <2>3. admin' \in [Admins -> Request]
    BY <1>2, <2>1, <2>2, RequestForms DEF TargetCheck
  <2> QED  BY <1>2, <2>3 DEF TargetCheck, devices
<1>3. CASE TargetCommit(x)
  <2>1. admin[x].target \in TargetIds /\ admin[x].set \in Override
    BY <1>1, <1>3, RequestFields DEF TargetCommit
  <2>2. override' \in [TargetIds -> Override]
    BY <1>3, <2>1 DEF TargetCommit
  <2>3. rows' \in RowTable
    <3>1. rows \in RowTable
      BY DEF RowTable
    <3> QED  BY <1>3, <2>1, <3>1, Seeded, Removed DEF TargetCommit
  <2>4. admin' \in [Admins -> Request]
    BY <1>3, RequestForms DEF TargetCommit
  <2> QED  BY <1>3, <2>2, <2>3, <2>4 DEF TargetCommit, RowTable, devices
<1>4. CASE TargetReload(x)
  <2>1. admin' \in [Admins -> Request]
    BY <1>4, RequestForms DEF TargetReload
  <2> QED  BY <1>4, <2>1 DEF TargetReload, devices
<1>5. CASE TargetApply(x)
  <2>1. admin[x].seen \in [TargetIds -> Override]
    BY <1>1, <1>5, RequestFields DEF TargetApply
  <2>2. live' \subseteq TargetIds /\ archive' \subseteq TargetIds
    BY <1>5, <2>1, Resolved DEF TargetApply
  <2>3. admin' \in [Admins -> Request]
    BY <1>5, RequestForms DEF TargetApply
  <2> QED  BY <1>5, <2>2, <2>3 DEF TargetApply, devices
<1>6. ASSUME NEW g \in [strategy : {"quorum", "primary_async"}, quorum : Quorums],
             ConfigCheck(x, g)
      PROVE  TargetsTypeOK'
  <2>1. g \in Config
    BY TargetsAssumption DEF Config
  <2>2. admin' \in [Admins -> Request]
    BY <1>6, <2>1, RequestForms DEF ConfigCheck
  <2> QED  BY <1>6, <2>2 DEF ConfigCheck, devices
<1>7. CASE ConfigCommit(x)
  <2>1. cfg' \in Config
    BY <1>1, <1>7, RequestFields DEF ConfigCommit
  <2>2. admin' \in [Admins -> Request]
    BY <1>7, RequestForms DEF ConfigCommit
  <2> QED  BY <1>7, <2>1, <2>2 DEF ConfigCommit, devices
<1>8. ASSUME NEW allow \in Policies, PutGuardConfig(x, allow) PROVE TargetsTypeOK'
  BY <1>8, TargetsAssumption DEF PutGuardConfig, devices
<1>9. ASSUME NEW t \in TargetIds, Reidentify(x, t) PROVE TargetsTypeOK'
  <2>1. rows' \in RowTable
    BY <1>9, Reset DEF Reidentify, RowTable
  <2>2. /\ marker' \in [TargetIds -> Nat] /\ known' \in [TargetIds -> Nat]
        /\ stamps' \in Nat /\ changes' \in Nat
    BY <1>9 DEF Reidentify
  <2> QED  BY <1>9, <2>1, <2>2 DEF Reidentify, RowTable
<1> QED  BY <1>2, <1>3, <1>4, <1>5, <1>6, <1>7, <1>8, <1>9 DEF AdminNext

LEMMA TargetsTyped == ASSUME TargetsTypeOK, [TargetsNext]_targetVars PROVE TargetsTypeOK'
<1>1. CASE UNCHANGED targetVars
  BY <1>1 DEF TargetsTypeOK, targetVars
<1>2. CASE Stop
  BY <1>2, RequestForms DEF TargetsTypeOK, Stop, devices
<1>3. ASSUME NEW t \in TargetIds, AddTarget(t) PROVE TargetsTypeOK'
  BY <1>3 DEF TargetsTypeOK, AddTarget, devices
<1>4. ASSUME NEW t \in TargetIds, SwapDevice(t) PROVE TargetsTypeOK'
  BY <1>4 DEF TargetsTypeOK, SwapDevice, control
<1> QED
  BY <1>1, <1>2, <1>3, <1>4, DataTyped, StartTyped, AdminTyped DEF TargetsNext, DataStep

(* The admin plane is well typed: what admins set, what requests carry,    *)
(* what the process serves and what the database and the devices record.   *)
THEOREM TargetsTypeCorrect == TargetsSpec => []TargetsTypeOK
<1>1. TargetsInit => TargetsTypeOK
  BY TargetsInitially
<1>2. TargetsTypeOK /\ [TargetsNext]_targetVars => TargetsTypeOK'
  BY TargetsTyped
<1> QED  BY <1>1, <1>2, PTL DEF TargetsSpec

-----------------------------------------------------------------------------
(* One admin at a time.                                                    *)

OneAdmin == \A p, q \in Admins : p = q

(* With overrides o and configuration g a PUT can be answered.             *)
Valid(o, g) == ResolveTargets(o) # {} /\ QuorumSatisfiable(g, ResolveTargets(o))

Retargets(x) == admin[x].pc = "checked" /\ admin[x].kind = "target"
Reconfigures(x) == admin[x].pc = "checked" /\ admin[x].kind = "config"
WouldBe(x) == [override EXCEPT ![admin[x].target] = admin[x].set]

(* Nothing is committed that the process does not serve yet.               *)
Settled == \A x \in Admins : admin[x].pc \in {"idle", "checked"}

(* What the database says can always be served, and so can what the        *)
(* request in flight has checked and is about to write.                    *)
ServingInv ==
    /\ ~running => Idle
    /\ Valid(override, cfg)
    /\ running => live # {}
    /\ running /\ Settled =>
          live = ResolveTargets(override) /\ archive = ResolveArchiveTargets(override)
    /\ \A x \in Admins :
          /\ Retargets(x) =>
                /\ admin[x].target \in present
                /\ admin[x].was = override[admin[x].target].retired
                /\ Valid(WouldBe(x), cfg)
          /\ Reconfigures(x) => Valid(override, admin[x].cfg)
          /\ admin[x].pc = "reloaded" => admin[x].seen = override

LEMMA ServingStart == ASSUME TargetsInit PROVE ServingInv
<1>1. PICK t \in FirstTargets : EnvRole[t] = "regular"
  BY TargetsAssumption
<1>2. t \in ResolveTargets(override)
  BY <1>1, TargetsAssumption DEF TargetsInit, ResolveTargets
<1> QED
  BY <1>2 DEF TargetsInit, ServingInv, Valid, QuorumSatisfiable, Idle, NoRequest, Settled,
              Retargets, Reconfigures

LEMMA ServingFrame ==
    ASSUME ServingInv, UNCHANGED <<present, override, live, archive, cfg, running, admin>>
    PROVE  ServingInv'
<1>1. /\ ResolveTargets(override)' = ResolveTargets(override)
      /\ ResolveArchiveTargets(override)' = ResolveArchiveTargets(override)
  BY DEF ResolveTargets, ResolveArchiveTargets
<1>2. /\ Valid(override, cfg)' <=> Valid(override, cfg)
      /\ Idle' <=> Idle
      /\ Settled' <=> Settled
  BY <1>1 DEF Valid, Idle, Settled
<1>3. \A x \in Admins :
         /\ Retargets(x)' <=> Retargets(x)
         /\ Reconfigures(x)' <=> Reconfigures(x)
         /\ Valid(WouldBe(x), cfg)' <=> Valid(WouldBe(x), cfg)
         /\ Valid(override, admin[x].cfg)' <=> Valid(override, admin[x].cfg)
  BY DEF Retargets, Reconfigures, WouldBe, Valid, ResolveTargets
<1> QED  BY <1>1, <1>2, <1>3 DEF ServingInv

(* More targets only make a quorum easier to meet.                         *)
LEMMA QuorumGrows ==
    ASSUME NEW g \in Config, NEW S \in SUBSET TargetIds, NEW T \in SUBSET TargetIds,
           S \subseteq T, QuorumSatisfiable(g, S)
    PROVE  QuorumSatisfiable(g, T)
<1>1. Cardinality(S) <= Cardinality(T)
  BY Counted, FS_Subset
<1> QED  BY <1>1, Counted DEF QuorumSatisfiable, Config

LEMMA ServingAdmin ==
    ASSUME TargetsTypeOK, ServingInv, OneAdmin, NEW x \in Admins, AdminNext(x)
    PROVE  ServingInv'
<1>1. \A p \in Admins : p = x
  BY DEF OneAdmin
<1>2. admin[x] \in Request /\ present \subseteq TargetIds /\ override \in [TargetIds -> Override]
  BY DEF TargetsTypeOK
<1>3. ASSUME running, running', Valid(override, cfg)', live' # {}, admin' \in [Admins -> Request],
             Retargets(x)' =>
                /\ admin'[x].target \in present'
                /\ admin'[x].was = override'[admin'[x].target].retired
                /\ Valid(WouldBe(x), cfg)',
             Reconfigures(x)' => Valid(override, admin[x].cfg)',
             admin'[x].pc = "reloaded" => admin'[x].seen = override',
             admin'[x].pc \in {"idle", "checked"} =>
                live' = ResolveTargets(override)' /\ archive' = ResolveArchiveTargets(override)'
      PROVE  ServingInv'
  <2> HIDE DEF Retargets, Reconfigures, Valid, ResolveTargets, ResolveArchiveTargets, WouldBe
  <2> QED  BY <1>1, <1>3 DEF ServingInv, Settled
<1>4. ASSUME NEW t \in TargetIds, NEW retired \in BOOLEAN, NEW role \in Roles[t],
             TargetCheck(x, t, [role |-> role, retired |-> retired])
      PROVE  ServingInv'
  <2> DEFINE set == [role |-> role, retired |-> retired]
             r == [pc |-> "checked", kind |-> "target", target |-> t, set |-> set,
                   was |-> override[t].retired]
  <2>1. set \in Override /\ override[t].retired \in BOOLEAN
    BY <1>2, TargetsAssumption DEF Override
  <2>2. r \in Request
    BY <2>1, RequestForms
  <2>3. admin' \in [Admins -> Request] /\ admin'[x] = r
    BY <1>4, <2>2, AdminMoves DEF TargetCheck
  <2>4. UNCHANGED <<present, override, live, archive, cfg, running>> /\ running /\ t \in present
    BY <1>4 DEF TargetCheck
  <2>5. Valid([override EXCEPT ![t] = set], cfg) /\ admin[x].pc = "idle"
    BY <1>4 DEF TargetCheck, Valid
  <2>6. WouldBe(x)' = [override EXCEPT ![t] = set]
    BY <2>3, <2>4 DEF WouldBe
  <2>7. Valid(WouldBe(x), cfg)'
    BY <2>4, <2>5, <2>6 DEF Valid, ResolveTargets
  <2>8. Settled
    BY <1>1, <2>5 DEF Settled
  <2>9. /\ live' = ResolveTargets(override)' /\ archive' = ResolveArchiveTargets(override)'
        /\ live' # {}
    BY <2>4, <2>8 DEF ServingInv, ResolveTargets, ResolveArchiveTargets
  <2>10. Valid(override, cfg)'
    BY <2>4 DEF ServingInv, Valid, ResolveTargets
  <2> QED  BY <1>3, <2>3, <2>4, <2>7, <2>9, <2>10 DEF Retargets, Reconfigures
<1>5. CASE TargetCommit(x)
  <2>1. Retargets(x)
    BY <1>5 DEF TargetCommit, Retargets
  <2>2. running /\ live # {}
    BY <2>1 DEF ServingInv, Retargets, Idle
  <2>3. admin' \in [Admins -> Request] /\ admin'[x] = [pc |-> "committed"]
    BY <1>5, RequestForms, AdminMoves DEF TargetCommit
  <2>4. UNCHANGED <<present, live, archive, cfg, running>> /\ override' = WouldBe(x)
    BY <1>5 DEF TargetCommit, WouldBe
  <2>5. Valid(WouldBe(x), cfg)
    BY <2>1 DEF ServingInv
  <2>6. Valid(override, cfg)'
    BY <2>4, <2>5 DEF Valid, ResolveTargets
  <2> QED  BY <1>3, <2>2, <2>3, <2>4, <2>6 DEF Retargets, Reconfigures
<1>6. CASE TargetReload(x)
  <2>1. running /\ live # {}
    BY <1>6 DEF ServingInv, TargetReload, Idle
  <2>2. admin' \in [Admins -> Request] /\ admin'[x] = [pc |-> "reloaded", seen |-> override]
    BY <1>2, <1>6, RequestForms, AdminMoves DEF TargetReload
  <2>3. UNCHANGED <<present, override, live, archive, cfg, running>>
    BY <1>6 DEF TargetReload
  <2>4. Valid(override, cfg)'
    BY <2>3 DEF ServingInv, Valid, ResolveTargets
  <2> QED  BY <1>3, <2>1, <2>2, <2>3, <2>4 DEF Retargets, Reconfigures
<1>7. CASE TargetApply(x)
  <2>1. running /\ admin[x].seen = override /\ Valid(override, cfg)
    BY <1>7 DEF ServingInv, TargetApply, Idle
  <2>2. admin' \in [Admins -> Request] /\ admin'[x] = NoRequest
    BY <1>7, RequestForms, AdminMoves DEF TargetApply
  <2>3. /\ UNCHANGED <<present, override, cfg, running>>
        /\ live' = ResolveTargets(override) /\ archive' = ResolveArchiveTargets(override)
    BY <1>7, <2>1 DEF TargetApply
  <2>4. ResolveTargets(override)' = ResolveTargets(override)
        /\ ResolveArchiveTargets(override)' = ResolveArchiveTargets(override)
    BY <2>3 DEF ResolveTargets, ResolveArchiveTargets
  <2>5. Valid(override, cfg)' /\ live' # {}
    BY <2>1, <2>3, <2>4 DEF Valid
  <2> QED  BY <1>3, <2>1, <2>2, <2>3, <2>4, <2>5 DEF Retargets, Reconfigures, NoRequest
<1>8. ASSUME NEW g \in [strategy : {"quorum", "primary_async"}, quorum : Quorums],
             ConfigCheck(x, g)
      PROVE  ServingInv'
  <2> DEFINE r == [pc |-> "checked", kind |-> "config", cfg |-> g]
  <2>1. g \in Config
    BY TargetsAssumption DEF Config
  <2>2. admin' \in [Admins -> Request] /\ admin'[x] = r
    BY <1>8, <2>1, RequestForms, AdminMoves DEF ConfigCheck
  <2>3. UNCHANGED <<present, override, live, archive, cfg, running>> /\ running
        /\ admin[x].pc = "idle" /\ QuorumSatisfiable(g, live)
    BY <1>8 DEF ConfigCheck
  <2>4. Settled
    BY <1>1, <2>3 DEF Settled
  <2>5. live = ResolveTargets(override) /\ archive = ResolveArchiveTargets(override) /\ live # {}
        /\ Valid(override, cfg)
    BY <2>3, <2>4 DEF ServingInv
  <2>6. ResolveTargets(override)' = ResolveTargets(override)
        /\ ResolveArchiveTargets(override)' = ResolveArchiveTargets(override)
    BY <2>3 DEF ResolveTargets, ResolveArchiveTargets
  <2>7. Valid(override, cfg)' /\ Valid(override, admin[x].cfg)'
    BY <2>2, <2>3, <2>5, <2>6 DEF Valid
  <2> QED  BY <1>3, <2>2, <2>3, <2>5, <2>6, <2>7 DEF Retargets, Reconfigures
<1>9. CASE ConfigCommit(x)
  <2>1. Reconfigures(x)
    BY <1>9 DEF ConfigCommit, Reconfigures
  <2>2. running /\ Settled
    BY <1>1, <2>1 DEF ServingInv, Reconfigures, Idle, Settled
  <2>3. live = ResolveTargets(override) /\ archive = ResolveArchiveTargets(override) /\ live # {}
        /\ Valid(override, admin[x].cfg)
    BY <2>1, <2>2 DEF ServingInv
  <2>4. admin' \in [Admins -> Request] /\ admin'[x] = NoRequest
    BY <1>9, RequestForms, AdminMoves DEF ConfigCommit
  <2>5. UNCHANGED <<present, override, live, archive, running>> /\ cfg' = admin[x].cfg
    BY <1>9 DEF ConfigCommit
  <2>6. ResolveTargets(override)' = ResolveTargets(override)
        /\ ResolveArchiveTargets(override)' = ResolveArchiveTargets(override)
    BY <2>5 DEF ResolveTargets, ResolveArchiveTargets
  <2>7. Valid(override, cfg)'
    BY <2>3, <2>5, <2>6 DEF Valid
  <2> QED  BY <1>3, <2>2, <2>3, <2>4, <2>5, <2>6, <2>7 DEF Retargets, Reconfigures, NoRequest
<1>10. ASSUME NEW allow \in Policies, PutGuardConfig(x, allow) PROVE ServingInv'
  BY <1>10, ServingFrame DEF PutGuardConfig
<1>11. ASSUME NEW t \in TargetIds, Reidentify(x, t) PROVE ServingInv'
  BY <1>11, ServingFrame DEF Reidentify
<1> QED
  BY <1>4, <1>5, <1>6, <1>7, <1>8, <1>9, <1>10, <1>11 DEF AdminNext

LEMMA ServingStep ==
    ASSUME TargetsTypeOK, ServingInv, OneAdmin, [TargetsNext]_targetVars
    PROVE  ServingInv'
<1>1. CASE UNCHANGED targetVars
  BY <1>1, ServingFrame DEF targetVars
<1>2. CASE DataStep
  <2>1. UNCHANGED control
    BY <1>2 DEF DataStep, Upload, ArchiveUpload, Delete, Verify, Replicate
  <2> QED  BY <2>1, ServingFrame DEF control
<1>3. ASSUME NEW t \in TargetIds, SwapDevice(t) PROVE ServingInv'
  BY <1>3, ServingFrame DEF SwapDevice, control
<1>4. ASSUME NEW t \in TargetIds, AddTarget(t) PROVE ServingInv'
  <2>1. /\ ~running /\ running' = running /\ admin' = admin /\ override' = override
        /\ cfg' = cfg /\ present' = present \cup {t} /\ present \subseteq TargetIds
    BY <1>4 DEF AddTarget, TargetsTypeOK
  <2>2. Idle /\ Valid(override, cfg)
    BY <2>1 DEF ServingInv
  <2>3. /\ ResolveTargets(override) \subseteq ResolveTargets(override)'
        /\ ResolveTargets(override) \in SUBSET TargetIds
        /\ ResolveTargets(override)' \in SUBSET TargetIds
    BY <2>1 DEF ResolveTargets
  <2>4. QuorumSatisfiable(cfg, ResolveTargets(override)')
    BY <2>2, <2>3, QuorumGrows DEF Valid, TargetsTypeOK
  <2>5. Valid(override, cfg)'
    BY <2>1, <2>2, <2>3, <2>4 DEF Valid
  <2> QED  BY <2>1, <2>2, <2>5 DEF ServingInv, Idle, Retargets, Reconfigures
<1>5. CASE Stop
  <2>1. ~running' /\ admin' = [x \in Admins |-> NoRequest] /\ UNCHANGED <<present, override, cfg>>
    BY <1>5 DEF Stop
  <2>2. Valid(override, cfg)'
    BY <2>1 DEF ServingInv, Valid, ResolveTargets
  <2> QED
    BY <2>1, <2>2 DEF ServingInv, Idle, Retargets, Reconfigures, NoRequest
<1>6. ASSUME NEW reachable \in SUBSET TargetIds, Start(reachable) PROVE ServingInv'
  <2>1. /\ ~running /\ UNCHANGED <<present, override, cfg, admin>>
        /\ running' => live' = ResolveTargets(override) /\ archive' = ResolveArchiveTargets(override)
    BY <1>6 DEF Start
  <2>2. Idle /\ Valid(override, cfg)
    BY <2>1 DEF ServingInv
  <2>3. ResolveTargets(override)' = ResolveTargets(override)
        /\ ResolveArchiveTargets(override)' = ResolveArchiveTargets(override)
    BY <2>1 DEF ResolveTargets, ResolveArchiveTargets
  <2>4. Valid(override, cfg)' /\ (running' => live' # {})
    BY <2>1, <2>2, <2>3 DEF Valid
  <2> QED  BY <2>1, <2>2, <2>3, <2>4 DEF ServingInv, Idle, Retargets, Reconfigures
<1> QED
  BY <1>1, <1>2, <1>3, <1>4, <1>5, <1>6, ServingAdmin DEF TargetsNext, DataStep

(* While the service runs it has a target to write to, and the configured  *)
(* quorum can be met: put_target_config and put_operational_config refuse  *)
(* what would break either, also across stops between check and commit,    *)
(* restarts and added targets (one admin at a time).                       *)
THEOREM UploadsStayPossible ==
    ASSUME OneAdmin PROVE TargetsSpec => []UploadsPossible
<1>1. TargetsInit => TargetsTypeOK /\ ServingInv
  BY TargetsInitially, ServingStart
<1>2. TargetsTypeOK /\ ServingInv /\ [TargetsNext]_targetVars => (TargetsTypeOK /\ ServingInv)'
  BY TargetsTyped, ServingStep
<1>3. TargetsTypeOK /\ ServingInv => UploadsPossible
  BY DEF ServingInv, UploadsPossible, Valid, QuorumSatisfiable, Idle, Settled
<1> QED  BY <1>1, <1>2, <1>3, PTL DEF TargetsSpec

-----------------------------------------------------------------------------
(* What data-plane requests do to rows and bytes.                          *)

LEMMA PrimaryIsLive == ASSUME TargetsTypeOK, live # {} PROVE PrimaryTarget \in live
<1> DEFINE R == OpToRel(<, Nat)
           P == {Position[t] : t \in live}
<1>1. live \subseteq TargetIds
  BY DEF TargetsTypeOK
<1>2. P \subseteq Nat /\ P # {}
  BY <1>1, TargetsAssumption
<1>3. PICK n \in P : \A m \in P : ~(<<m, n>> \in R)
  <2> HIDE DEF P, R
  <2> QED  BY <1>2, NatLessThanWellFounded, WFMin DEF R
<1>4. \A m \in P : n <= m
  <2>1. \A m \in P : m \in Nat /\ n \in Nat
    BY <1>2
  <2>2. \A m \in P : ~(m < n)
    BY <1>3, <2>1 DEF OpToRel
  <2> HIDE DEF P
  <2> QED  BY <2>1, <2>2
<1>5. \E t \in live : \A u \in live : Position[t] <= Position[u]
  BY <1>4
<1> QED  BY <1>5 DEF PrimaryTarget

LEMMA ConfirmingIsLive ==
    ASSUME TargetsTypeOK, live # {}, NEW s \in Confirming PROVE s \subseteq live
BY PrimaryIsLive DEF Confirming

LEMMA DataRows ==
    ASSUME TargetsTypeOK, DataStep, NEW j \in Objects, NEW u \in TargetIds
    PROVE  /\ j \in objects' /\ rows'[j][u] = "none" => rows[j][u] = "none"
           /\ rows[j][u] = "none" /\ rows'[j][u] # "none" =>
                 running /\ (Exclusive => Idle) /\ (u \in live \/ u \in archive)
           /\ j \in objects' /\ j \notin objects /\ j \notin ArchiveObjects =>
                 (Exclusive => Idle) /\ (u \in live => rows'[j][u] # "none")
           /\ rows'[j][u] = "ok" =>
                 \/ j \in stored'[u]
                 \/ rows[j][u] = "ok" /\ j \notin stored[u]
<1> USE DEF TargetsTypeOK
<1>1. ASSUME NEW k \in Objects, NEW ts, StoreOn(k, ts)
      PROVE  /\ j \in stored[u] => j \in stored'[u]
             /\ u \in ts => k \in stored'[u]
  BY <1>1 DEF StoreOn
<1>2. ASSUME NEW k \in Objects, Upload(k)
      PROVE  /\ objects' = objects \cup {k} /\ running /\ (Exclusive => Idle)
             /\ j # k => rows'[j] = rows[j]
             /\ j = k /\ u \in live => rows'[j][u] \in {"ok", "failed", "pending"}
             /\ u \notin live => rows'[j][u] = rows[j][u]
             /\ rows'[j][u] = "ok" => j \in stored'[u] \/ (rows[j][u] = "ok" /\ j \notin stored[u])
  <2>1. PICK s \in Confirming :
          /\ StoreOn(k, s)
          /\ rows' = [rows EXCEPT ![k] = [t \in TargetIds |->
                CASE t \in s -> "ok"
                  [] t \in live \ s ->
                        IF cfg.strategy = "quorum" THEN "failed" ELSE "pending"
                  [] OTHER -> @[t]]]
    BY <1>2 DEF Upload
  <2>2. s \subseteq live
    BY <1>2, ConfirmingIsLive DEF Upload
  <2>3. /\ j # k => rows'[j] = rows[j]
        /\ j = k /\ u \in s => rows'[j][u] = "ok"
        /\ j = k /\ u \in live \ s => rows'[j][u] \in {"failed", "pending"}
        /\ j = k /\ u \notin live => rows'[j][u] = rows[j][u]
    BY <2>1, <2>2
  <2> QED  BY <1>1, <1>2, <2>1, <2>2, <2>3 DEF Upload
<1>3. ASSUME NEW k \in Objects, ArchiveUpload(k)
      PROVE  /\ objects' = objects \cup {k} /\ running /\ (Exclusive => Idle)
             /\ k \in ArchiveObjects
             /\ j # k \/ u \notin archive => rows'[j][u] = rows[j][u]
             /\ j = k /\ u \in archive => rows'[j][u] = "ok" /\ j \in stored'[u]
             /\ j \in stored[u] => j \in stored'[u]
  <2>1. StoreOn(k, archive)
    BY <1>3 DEF ArchiveUpload
  <2> QED  BY <1>1, <1>3, <2>1 DEF ArchiveUpload
<1>4. ASSUME NEW k \in Objects, Delete(k)
      PROVE  /\ objects' = objects \ {k}
             /\ j # k => rows'[j] = rows[j] /\ (j \in stored[u] => j \in stored'[u])
             /\ j = k => rows'[j][u] = "none"
  BY <1>4 DEF Delete
<1>5. ASSUME NEW k \in Objects, Verify(k)
      PROVE  /\ objects' = objects /\ stored' = stored
             /\ rows'[j][u] = "none" <=> rows[j][u] = "none"
             /\ rows'[j][u] = "ok" => rows[j][u] = "ok" \/ j \in stored[u]
             /\ j # k => rows'[j] = rows[j]
             /\ j = k /\ rows'[j][u] = "ok" => j \in stored[u]
  BY <1>5 DEF Verify, devices
<1>6. ASSUME NEW k \in Objects, NEW t \in TargetIds, Replicate(k, t)
      PROVE  /\ objects' = objects
             /\ rows'[j][u] = "none" <=> rows[j][u] = "none"
             /\ rows'[j][u] = "ok" => rows[j][u] = "ok" \/ j \in stored'[u]
             /\ j \in stored[u] => j \in stored'[u]
  <2>1. /\ rows[k][t] # "none" /\ objects' = objects
        /\ \/ rows' = [rows EXCEPT ![k][t] = "ok"] /\ StoreOn(k, {t})
           \/ rows' = [rows EXCEPT ![k][t] = "failed"] /\ stored' = stored
    BY <1>6 DEF Replicate
  <2>2. CASE rows' = [rows EXCEPT ![k][t] = "ok"] /\ StoreOn(k, {t})
    BY <1>1, <2>1, <2>2
  <2>3. CASE rows' = [rows EXCEPT ![k][t] = "failed"] /\ stored' = stored
    BY <2>1, <2>3
  <2> QED  BY <2>1, <2>2, <2>3
<1>7. ASSUME NEW k \in Objects, Upload(k) \/ ArchiveUpload(k) \/ Delete(k) \/ Verify(k)
      PROVE  /\ j \in objects' /\ rows'[j][u] = "none" => rows[j][u] = "none"
             /\ rows[j][u] = "none" /\ rows'[j][u] # "none" =>
                   running /\ (Exclusive => Idle) /\ (u \in live \/ u \in archive)
             /\ j \in objects' /\ j \notin objects /\ j \notin ArchiveObjects =>
                   (Exclusive => Idle) /\ (u \in live => rows'[j][u] # "none")
             /\ rows'[j][u] = "ok" =>
                   \/ j \in stored'[u]
                   \/ rows[j][u] = "ok" /\ j \notin stored[u]
  <2>1. CASE Upload(k)
    BY <1>2, <2>1
  <2>2. CASE ArchiveUpload(k)
    BY <1>3, <2>2
  <2>3. CASE Delete(k)
    BY <1>4, <2>3
  <2>4. CASE Verify(k)
    BY <1>5, <2>4
  <2> QED  BY <1>7, <2>1, <2>2, <2>3, <2>4
<1> QED  BY <1>6, <1>7 DEF DataStep

-----------------------------------------------------------------------------
(* Retiring a target takes no object's last confirmed copy.                *)

(* While a request that retires a target is in flight every object with a  *)
(* confirmed copy has one elsewhere.                                       *)
ElsewhereInv ==
    \A x \in Admins : Retargets(x) /\ admin[x].set.retired /\ ~admin[x].was =>
        \A k \in Objects : OkOn(k) # {} =>
            \E u \in TargetIds : u # admin[x].target /\ rows[k][u] = "ok"

LEMMA ElsewhereFrame ==
    ASSUME ElsewhereInv, UNCHANGED <<rows, admin>> PROVE ElsewhereInv'
BY DEF ElsewhereInv, Retargets, OkOn

LEMMA ElsewhereStep ==
    ASSUME TargetsTypeOK, ServingInv, ElsewhereInv, OneAdmin, Exclusive,
           [TargetsNext]_targetVars
    PROVE  ElsewhereInv'
<1>1. ASSUME \A x \in Admins : ~Retargets(x)' PROVE ElsewhereInv'
  BY <1>1 DEF ElsewhereInv
<1>2. ASSUME Idle, admin' = admin PROVE ElsewhereInv'
  BY <1>1, <1>2 DEF Idle, Retargets
<1>3. ASSUME NEW k \in Objects, NEW t \in TargetIds, Replicate(k, t) PROVE ElsewhereInv'
  <2>1. admin' = admin
    BY <1>3 DEF Replicate, control
  <2>2. SUFFICES ASSUME NEW x \in Admins, Retargets(x), admin[x].set.retired, ~admin[x].was,
                        NEW j \in Objects, OkOn(j)' # {}
                 PROVE  \E u \in TargetIds : u # admin[x].target /\ rows'[j][u] = "ok"
    BY <2>1 DEF ElsewhereInv, Retargets
  <2>3. /\ rows[k][t] \in {"pending", "failed"}
        /\ \/ rows' = [rows EXCEPT ![k][t] = "ok"] /\ OkOn(k) # {}
           \/ rows' = [rows EXCEPT ![k][t] = "failed"]
    BY <1>3 DEF Replicate
  <2>4. \A u \in TargetIds : rows[j][u] = "ok" => rows'[j][u] = "ok"
    <3> SUFFICES ASSUME NEW u \in TargetIds, rows[j][u] = "ok" PROVE rows'[j][u] = "ok"
      OBVIOUS
    <3>1. ~(j = k /\ u = t)
      BY <2>3
    <3> QED  BY <2>3, <3>1 DEF TargetsTypeOK
  <2>5. OkOn(j) # {}
    <3>1. PICK u \in TargetIds : rows'[j][u] = "ok"
      BY <2>2 DEF OkOn
    <3>2. rows[j][u] = "ok" \/ (j = k /\ OkOn(k) # {})
      BY <2>3, <3>1 DEF TargetsTypeOK
    <3> QED  BY <2>3, <3>2 DEF OkOn
  <2>6. PICK u \in TargetIds : u # admin[x].target /\ rows[j][u] = "ok"
    BY <2>2, <2>5 DEF ElsewhereInv
  <2> QED  BY <2>4, <2>6
<1>4. ASSUME NEW k \in Objects, Upload(k) \/ ArchiveUpload(k) \/ Delete(k) \/ Verify(k)
      PROVE  ElsewhereInv'
  BY <1>2, <1>4 DEF Upload, ArchiveUpload, Delete, Verify, control
<1>5. ASSUME NEW x \in Admins, AdminNext(x) PROVE ElsewhereInv'
  <2>1. \A p \in Admins : p = x
    BY DEF OneAdmin
  <2>2. ASSUME NEW t \in TargetIds, NEW retired \in BOOLEAN, NEW role \in Roles[t],
               TargetCheck(x, t, [role |-> role, retired |-> retired])
        PROVE  ElsewhereInv'
    <3> DEFINE set == [role |-> role, retired |-> retired]
    <3>1. set \in Override /\ override[t].retired \in BOOLEAN
      BY TargetsAssumption DEF Override, TargetsTypeOK
    <3>2. [pc |-> "checked", kind |-> "target", target |-> t, set |-> set,
           was |-> override[t].retired] \in Request
      BY <3>1, RequestForms
    <3>3. /\ rows' = rows /\ admin'[x] = [pc |-> "checked", kind |-> "target", target |-> t,
                                          set |-> set, was |-> override[t].retired]
          /\ set.retired /\ ~override[t].retired => SoleOkCopies(t) = {}
      BY <2>2, <3>2, AdminMoves DEF TargetCheck
    <3>4. ASSUME set.retired, ~override[t].retired, NEW k \in Objects, OkOn(k) # {}
          PROVE  \E u \in TargetIds : u # t /\ rows[k][u] = "ok"
      BY <3>3, <3>4 DEF SoleOkCopies, OkOn
    <3> HIDE DEF set
    <3> QED  BY <2>1, <3>3, <3>4 DEF ElsewhereInv, OkOn
  <2>3. ASSUME NEW r \in Request, admin' = [admin EXCEPT ![x] = r],
               r.pc = "checked" => r.kind # "target"
        PROVE  ElsewhereInv'
    BY <1>1, <2>1, <2>3, AdminMoves DEF Retargets
  <2>4. CASE TargetCommit(x)
    BY <2>3, <2>4, RequestForms DEF TargetCommit
  <2>5. CASE TargetReload(x)
    BY <2>3, <2>5, RequestForms DEF TargetReload, TargetsTypeOK
  <2>6. CASE TargetApply(x)
    BY <2>3, <2>6, RequestForms DEF TargetApply, NoRequest
  <2>7. ASSUME NEW g \in [strategy : {"quorum", "primary_async"}, quorum : Quorums],
               ConfigCheck(x, g)
        PROVE  ElsewhereInv'
    <3>1. g \in Config
      BY TargetsAssumption DEF Config
    <3> QED  BY <2>3, <2>7, <3>1, RequestForms DEF ConfigCheck
  <2>8. CASE ConfigCommit(x)
    BY <2>3, <2>8, RequestForms DEF ConfigCommit, NoRequest
  <2>9. ASSUME NEW allow \in Policies, PutGuardConfig(x, allow) PROVE ElsewhereInv'
    BY <2>9, ElsewhereFrame DEF PutGuardConfig
  <2>10. ASSUME NEW t \in TargetIds, Reidentify(x, t) PROVE ElsewhereInv'
    <3>1. Idle /\ admin' = admin
      BY <2>1, <2>10 DEF Reidentify, Idle
    <3> QED  BY <1>2, <3>1
  <2> QED
    BY <1>5, <2>2, <2>4, <2>5, <2>6, <2>7, <2>8, <2>9, <2>10 DEF AdminNext
<1>6. ASSUME NEW reachable \in SUBSET TargetIds, Start(reachable) PROVE ElsewhereInv'
  BY <1>2, <1>6 DEF Start, ServingInv
<1>7. CASE Stop
  BY <1>1, <1>7 DEF Stop, Retargets, NoRequest
<1>8. ASSUME NEW t \in TargetIds, AddTarget(t) \/ SwapDevice(t) PROVE ElsewhereInv'
  BY <1>8, ElsewhereFrame DEF AddTarget, SwapDevice, control
<1>9. CASE UNCHANGED targetVars
  BY <1>9, ElsewhereFrame DEF targetVars
<1> QED
  BY <1>3, <1>4, <1>5, <1>6, <1>7, <1>8, <1>9 DEF TargetsNext

(* put_target_config never takes the last confirmed copy of an object: the *)
(* replication sweep, which goes on meanwhile, only adds copies where there *)
(* is one already (one admin, object requests pause).                      *)
THEOREM RetiringStrandsNothing ==
    ASSUME OneAdmin, Exclusive PROVE TargetsSpec => NothingStranded
<1> DEFINE I == TargetsTypeOK /\ ServingInv /\ ElsewhereInv
           A == \A x \in Admins :
                  (admin[x].pc = "checked" /\ admin'[x].pc = "committed")
                     => \A k \in Objects : OkOn(k) # {} =>
                           \E t \in TargetIds : rows'[k][t] = "ok"
<1>1. TargetsInit => I
  <2>1. TargetsInit => \A x \in Admins : ~Retargets(x)
    BY DEF TargetsInit, Retargets, NoRequest
  <2>2. (\A x \in Admins : ~Retargets(x)) => ElsewhereInv
    BY DEF ElsewhereInv
  <2> QED  BY <2>1, <2>2, TargetsInitially, ServingStart
<1>2. I /\ [TargetsNext]_targetVars => I'
  BY TargetsTyped, ServingStep, ElsewhereStep
<1>3. ASSUME I, TargetsNext, NEW x \in Admins,
             admin[x].pc = "checked", admin'[x].pc = "committed"
      PROVE  TargetCommit(x)
  <2>1. admin' # admin /\ admin'[x].pc \notin {"idle", "checked", "reloaded"}
    BY <1>3
  <2>2. ASSUME NEW p \in Admins, AdminNext(p) PROVE TargetCommit(x)
    <3>1. p = x
      BY DEF OneAdmin
    <3>2. \A r : admin' = [admin EXCEPT ![x] = r] => admin'[x] = r
      BY <1>3 DEF TargetsTypeOK
    <3>3. AdminNext(x)
      BY <2>2, <3>1
    <3>4. /\ ~TargetReload(x) /\ ~TargetApply(x)
          /\ \A t, s : ~TargetCheck(x, t, s) /\ ~Reidentify(x, t)
          /\ \A g : ~ConfigCheck(x, g)
          /\ \A allow : ~PutGuardConfig(x, allow)
      BY <1>3, <2>1 DEF TargetCheck, TargetReload, TargetApply, ConfigCheck, PutGuardConfig,
           Reidentify
    <3>5. ~ConfigCommit(x)
      BY <1>3, <3>2 DEF ConfigCommit, NoRequest
    <3> QED  BY <3>3, <3>4, <3>5 DEF AdminNext
  <2>3. ~Stop
    BY <1>3 DEF Stop, NoRequest
  <2> QED
    BY <1>3, <2>1, <2>2, <2>3 DEF TargetsNext, Start, AddTarget, SwapDevice, Upload,
         ArchiveUpload, Delete, Verify, Replicate, control
<1>4. ASSUME I, NEW x \in Admins, TargetCommit(x), NEW k \in Objects, OkOn(k) # {}
      PROVE  \E t \in TargetIds : rows'[k][t] = "ok"
  <2>1. Retargets(x) /\ admin[x].target \in TargetIds /\ rows \in RowTable
    BY <1>4, RequestFields DEF TargetCommit, Retargets, TargetsTypeOK, RowTable
  <2>2. PICK v \in TargetIds : rows[k][v] = "ok"
    BY <1>4 DEF OkOn
  <2>3. CASE admin[x].set.retired /\ ~admin[x].was
    <3>1. PICK u \in TargetIds : u # admin[x].target /\ rows[k][u] = "ok"
      BY <1>4, <2>1, <2>3 DEF ElsewhereInv
    <3>2. rows' = RemoveCopies(rows, admin[x].target)
      BY <1>4, <2>3 DEF TargetCommit
    <3> QED  BY <2>1, <3>1, <3>2, Removed
  <2>4. CASE ~(admin[x].set.retired /\ ~admin[x].was)
    <3>1. rows' = SeedPending(rows, {admin[x].target}) \/ rows' = rows
      BY <1>4, <2>4 DEF TargetCommit
    <3>2. rows'[k][v] = "ok"
      BY <2>1, <2>2, <3>1, Seeded
    <3> QED  BY <3>2
  <2> QED  BY <2>3, <2>4
<1>5. I /\ [TargetsNext]_targetVars => [A]_targetVars
  <2>1. I /\ TargetsNext => A
    BY <1>3, <1>4
  <2> QED  BY <2>1
<1> QED  BY <1>1, <1>2, <1>5, PTL DEF TargetsSpec, NothingStranded

-----------------------------------------------------------------------------
(* Which targets take part, and which of them have an identity.            *)

Listed(t) == [role |-> EnvRole[t], retired |-> FALSE]
RolesOf(t) == Roles[t] \cup {EnvRole[t]}

(* A target is changed by a running service that lists it, and only to     *)
(* roles admins ask for; no target is identified before it is listed.      *)
RosterInv ==
    /\ live \subseteq present /\ archive \subseteq present
    /\ \A t \in live : "regular" \in RolesOf(t)
    /\ \A x \in Admins :
          /\ admin[x].pc # "idle" => running
          /\ Retargets(x) => /\ admin[x].target \in present
                             /\ admin[x].set.role \in RolesOf(admin[x].target)
          /\ admin[x].pc = "reloaded" =>
                \A t \in TargetIds : admin[x].seen[t].role \in RolesOf(t)
    /\ \A t \in TargetIds :
          /\ override[t].role \in RolesOf(t)
          /\ override[t] # Listed(t) => t \in present
          /\ known[t] # 0 => t \in present

LEMMA RosterStart == ASSUME TargetsInit PROVE RosterInv
BY TargetsAssumption DEF TargetsInit, RosterInv, Listed, RolesOf, Retargets, NoRequest

LEMMA RosterAdmin ==
    ASSUME TargetsTypeOK, RosterInv, NEW x \in Admins, AdminNext(x)
    PROVE  RosterInv'
<1>1. present \subseteq TargetIds /\ override \in [TargetIds -> Override] /\ admin[x] \in Request
  BY DEF TargetsTypeOK
<1>2. ASSUME UNCHANGED <<present, override, running, admin, live, archive>>,
             \A t \in TargetIds : known'[t] # 0 => known[t] # 0 \/ t \in present
      PROVE  RosterInv'
  BY <1>2 DEF RosterInv, Retargets
<1>3. ASSUME NEW r \in Request, admin' = [admin EXCEPT ![x] = r],
             UNCHANGED <<present, override, running, known>>,
             \/ live' = live /\ archive' = archive
             \/ /\ live' \subseteq present /\ archive' \subseteq present
                /\ \A t \in live' : "regular" \in RolesOf(t),
             r.pc # "idle" => running,
             r.pc = "checked" /\ r.kind = "target" =>
                r.target \in present /\ r.set.role \in RolesOf(r.target),
             r.pc = "reloaded" => \A t \in TargetIds : r.seen[t].role \in RolesOf(t)
      PROVE  RosterInv'
  <2>1. admin'[x] = r /\ \A p \in Admins : p # x => admin'[p] = admin[p]
    BY <1>3, AdminMoves
  <2>2. \A p \in Admins :
          /\ admin'[p].pc # "idle" => running'
          /\ Retargets(p)' => /\ admin'[p].target \in present'
                              /\ admin'[p].set.role \in RolesOf(admin'[p].target)
          /\ admin'[p].pc = "reloaded" =>
                \A t \in TargetIds : admin'[p].seen[t].role \in RolesOf(t)
    <3> TAKE p \in Admins
    <3>1. CASE p = x
      BY <1>3, <2>1, <3>1 DEF Retargets
    <3>2. CASE p # x
      BY <1>3, <2>1, <3>2 DEF RosterInv, Retargets
    <3> QED  BY <3>1, <3>2
  <2>3. /\ live' \subseteq present' /\ archive' \subseteq present'
        /\ \A t \in live' : "regular" \in RolesOf(t)
    BY <1>3 DEF RosterInv
  <2> QED  BY <1>3, <2>2, <2>3 DEF RosterInv
<1>4. ASSUME NEW t \in TargetIds, NEW retired \in BOOLEAN, NEW role \in Roles[t],
             TargetCheck(x, t, [role |-> role, retired |-> retired])
      PROVE  RosterInv'
  <2> DEFINE set == [role |-> role, retired |-> retired]
             r == [pc |-> "checked", kind |-> "target", target |-> t, set |-> set,
                   was |-> override[t].retired]
  <2>1. set \in Override /\ override[t].retired \in BOOLEAN
    BY <1>1, TargetsAssumption DEF Override
  <2>2. r \in Request
    BY <2>1, RequestForms
  <2>3. /\ admin' = [admin EXCEPT ![x] = r] /\ running /\ t \in present
        /\ UNCHANGED <<present, override, running, known, live, archive>>
    BY <1>4 DEF TargetCheck, devices
  <2>4. r.pc = "checked" /\ r.target = t /\ r.set.role = role /\ role \in RolesOf(t)
    BY DEF RolesOf
  <2> HIDE DEF r
  <2> QED  BY <1>3, <2>2, <2>3, <2>4
<1>5. CASE TargetCommit(x)
  <2>1. Retargets(x)
    BY <1>5 DEF TargetCommit, Retargets
  <2>2. /\ admin[x].target \in present /\ admin[x].set.role \in RolesOf(admin[x].target)
        /\ admin[x].target \in TargetIds /\ running
    BY <1>1, <2>1 DEF RosterInv, Retargets
  <2>3. /\ override' = [override EXCEPT ![admin[x].target] = admin[x].set]
        /\ UNCHANGED <<present, live, archive, running, known>>
        /\ admin' = [admin EXCEPT ![x] = [pc |-> "committed"]]
    BY <1>5 DEF TargetCommit, devices
  <2>4. \A t \in TargetIds :
          /\ override'[t].role \in RolesOf(t)
          /\ override'[t] # Listed(t) => t \in present
    BY <1>1, <2>2, <2>3 DEF RosterInv
  <2>5. admin'[x].pc = "committed" /\ \A p \in Admins : p # x => admin'[p] = admin[p]
    BY <2>3, RequestForms, AdminMoves
  <2>6. \A p \in Admins :
          /\ admin'[p].pc # "idle" => running'
          /\ Retargets(p)' => /\ admin'[p].target \in present'
                              /\ admin'[p].set.role \in RolesOf(admin'[p].target)
          /\ admin'[p].pc = "reloaded" =>
                \A t \in TargetIds : admin'[p].seen[t].role \in RolesOf(t)
    <3> TAKE p \in Admins
    <3>1. CASE p = x
      BY <2>2, <2>3, <2>5, <3>1 DEF Retargets
    <3>2. CASE p # x
      BY <2>3, <2>5, <3>2 DEF RosterInv, Retargets
    <3> QED  BY <3>1, <3>2
  <2> QED  BY <2>3, <2>4, <2>6 DEF RosterInv
<1>6. CASE TargetReload(x)
  <2> DEFINE r == [pc |-> "reloaded", seen |-> override]
  <2>1. r \in Request
    BY <1>1, RequestForms
  <2>2. /\ admin' = [admin EXCEPT ![x] = r] /\ running
        /\ UNCHANGED <<present, override, running, known, live, archive>>
    BY <1>6 DEF TargetReload, RosterInv, devices
  <2>3. r.pc = "reloaded" /\ r.seen = override
    OBVIOUS
  <2>4. \A t \in TargetIds : r.seen[t].role \in RolesOf(t)
    BY DEF RosterInv
  <2> HIDE DEF r
  <2> QED  BY <1>3, <2>1, <2>2, <2>3, <2>4
<1>7. CASE TargetApply(x)
  <2>1. admin[x].seen \in [TargetIds -> Override]
        /\ \A t \in TargetIds : admin[x].seen[t].role \in RolesOf(t)
    BY <1>1, <1>7, RequestFields DEF TargetApply, RosterInv
  <2>2. /\ admin' = [admin EXCEPT ![x] = NoRequest]
        /\ UNCHANGED <<present, override, running, known>>
    BY <1>7 DEF TargetApply, devices
  <2>3. /\ live' \subseteq present /\ archive' \subseteq present
        /\ \A t \in live' : "regular" \in RolesOf(t)
    <3>1. /\ live' = ResolveTargets(admin[x].seen)
          /\ archive' = ResolveArchiveTargets(admin[x].seen)
      BY <1>7 DEF TargetApply
    <3>2. /\ ResolveTargets(admin[x].seen) \subseteq present
          /\ ResolveArchiveTargets(admin[x].seen) \subseteq present
          /\ \A t \in ResolveTargets(admin[x].seen) : t \in TargetIds /\ admin[x].seen[t].role = "regular"
      BY <1>1, <2>1, Resolved
    <3> QED  BY <2>1, <3>1, <3>2
  <2>4. NoRequest \in Request /\ NoRequest.pc = "idle"
    BY RequestForms DEF NoRequest
  <2> QED  BY <1>3, <2>2, <2>3, <2>4
<1>8. ASSUME NEW g \in [strategy : {"quorum", "primary_async"}, quorum : Quorums],
             ConfigCheck(x, g)
      PROVE  RosterInv'
  <2> DEFINE r == [pc |-> "checked", kind |-> "config", cfg |-> g]
  <2>1. r \in Request
    BY TargetsAssumption, RequestForms DEF Config
  <2>2. /\ admin' = [admin EXCEPT ![x] = r] /\ running
        /\ UNCHANGED <<present, override, running, known, live, archive>>
    BY <1>8 DEF ConfigCheck, devices
  <2>3. r.pc = "checked" /\ r.kind = "config"
    OBVIOUS
  <2> HIDE DEF r
  <2> QED  BY <1>3, <2>1, <2>2, <2>3
<1>9. CASE ConfigCommit(x)
  <2>1. /\ admin' = [admin EXCEPT ![x] = NoRequest]
        /\ UNCHANGED <<present, override, running, known, live, archive>>
    BY <1>9 DEF ConfigCommit, devices
  <2>2. NoRequest \in Request /\ NoRequest.pc = "idle"
    BY RequestForms DEF NoRequest
  <2> QED  BY <1>3, <2>1, <2>2
<1>10. ASSUME NEW allow \in Policies, PutGuardConfig(x, allow) PROVE RosterInv'
  BY <1>2, <1>10 DEF PutGuardConfig, devices
<1>11. ASSUME NEW t \in TargetIds, Reidentify(x, t) PROVE RosterInv'
  <2>1. t \in present /\ \A u \in TargetIds : u # t => known'[u] = known[u]
    BY <1>11 DEF Reidentify, RosterInv, TargetsTypeOK
  <2> QED  BY <1>2, <1>11, <2>1 DEF Reidentify
<1> QED
  BY <1>4, <1>5, <1>6, <1>7, <1>8, <1>9, <1>10, <1>11 DEF AdminNext

LEMMA RosterStep ==
    ASSUME TargetsTypeOK, RosterInv, [TargetsNext]_targetVars PROVE RosterInv'
<1>1. present \subseteq TargetIds /\ override \in [TargetIds -> Override]
  BY DEF TargetsTypeOK
<1>2. ASSUME UNCHANGED <<present, override, running, admin, live, archive, known>>
      PROVE  RosterInv'
  BY <1>2 DEF RosterInv, Retargets
<1>3. CASE DataStep
  BY <1>2, <1>3 DEF DataStep, Upload, ArchiveUpload, Delete, Verify, Replicate, control, devices
<1>4. ASSUME NEW t \in TargetIds, SwapDevice(t) PROVE RosterInv'
  BY <1>2, <1>4 DEF SwapDevice, control
<1>5. ASSUME NEW t \in TargetIds, AddTarget(t) PROVE RosterInv'
  BY <1>5 DEF AddTarget, RosterInv, Retargets, devices
<1>6. CASE Stop
  BY <1>6 DEF Stop, RosterInv, Retargets, NoRequest, devices
<1>7. ASSUME NEW reachable \in SUBSET TargetIds, Start(reachable) PROVE RosterInv'
  <2>1. /\ ~running /\ UNCHANGED <<present, override, admin>>
        /\ live' = ResolveTargets(override) \/ live' = {}
        /\ archive' = ResolveArchiveTargets(override) \/ archive' = {}
    BY <1>7 DEF Start
  <2>2. /\ live' \subseteq present /\ archive' \subseteq present
        /\ \A t \in live' : "regular" \in RolesOf(t)
    BY <1>1, <2>1, Resolved DEF RosterInv
  <2>3. \A t \in TargetIds : known'[t] # 0 => t \in present
    BY <1>1, <1>7, Resolved DEF Start, Fresh, RosterInv
  <2> QED  BY <2>1, <2>2, <2>3 DEF RosterInv, Retargets
<1>8. CASE UNCHANGED targetVars
  BY <1>2, <1>8 DEF targetVars
<1> QED
  BY <1>3, <1>4, <1>5, <1>6, <1>7, <1>8, RosterAdmin DEF TargetsNext, DataStep

(* A regular target that a running service lists, or that was ever         *)
(* changed, has an identity.                                               *)
Known(t) == t \in present /\ (running \/ override[t] # Listed(t)) => known[t] # 0

LEMMA Stamped ==
    ASSUME TargetsTypeOK, NEW reachable \in SUBSET TargetIds, NEW t \in Fresh(reachable)
    PROVE  Stamp(reachable, t) # 0
<1>1. t \in TargetIds
  BY Resolved DEF Fresh, TargetsTypeOK
<1>2. CASE t \in Blank(reachable)
  <2> DEFINE S == {u \in Blank(reachable) : Position[u] <= Position[t]}
  <2>1. S \subseteq TargetIds
    BY Resolved DEF Blank, Fresh, TargetsTypeOK
  <2>2. t \in S
    BY <1>1, <1>2, TargetsAssumption
  <2>3. IsFiniteSet(S) /\ Cardinality(S) \in Nat
    BY <2>1, Counted
  <2>4. Cardinality(S) # 0
    <3> HIDE DEF S
    <3> QED  BY <2>2, <2>3, FS_EmptySet
  <2>5. Stamp(reachable, t) = stamps + Cardinality(S)
    BY <1>2 DEF Stamp
  <2> HIDE DEF S
  <2> QED  BY <2>3, <2>4, <2>5 DEF TargetsTypeOK
<1>3. CASE t \notin Blank(reachable)
  BY <1>3 DEF Blank, Stamp
<1> QED  BY <1>2, <1>3

(* An identity is never forgotten.                                         *)
LEMMA KnownStays ==
    ASSUME TargetsTypeOK, [TargetsNext]_targetVars, NEW t \in TargetIds, known[t] # 0
    PROVE  known'[t] # 0
<1>1. ASSUME NEW reachable \in SUBSET TargetIds, Start(reachable) PROVE known'[t] # 0
  BY <1>1 DEF Start, Fresh
<1>2. ASSUME NEW x \in Admins, NEW u \in TargetIds, Reidentify(x, u) PROVE known'[t] # 0
  BY <1>2 DEF Reidentify, TargetsTypeOK
<1>3. ASSUME known' = known PROVE known'[t] # 0
  BY <1>3
<1>4. ASSUME NEW x \in Admins, AdminNext(x) PROVE known'[t] # 0
  BY <1>2, <1>3, <1>4 DEF AdminNext, TargetCheck, TargetCommit, TargetReload, TargetApply,
       ConfigCheck, ConfigCommit, PutGuardConfig, devices
<1>5. CASE DataStep \/ Stop \/ UNCHANGED targetVars \/ \E u \in TargetIds : AddTarget(u) \/ SwapDevice(u)
  BY <1>3, <1>5 DEF DataStep, Upload, ArchiveUpload, Delete, Verify, Replicate, Stop, AddTarget,
       SwapDevice, targetVars, devices
<1> QED  BY <1>1, <1>4, <1>5 DEF TargetsNext, DataStep

(* An accepted start identifies what it serves.                            *)
StartsIdentify == ~running /\ running' => \A t \in live' : known'[t] # 0

LEMMA KnownStep ==
    ASSUME TargetsTypeOK, RosterInv, [TargetsNext]_targetVars, StartsIdentify,
           NEW t \in TargetIds, EnvRole[t] = "regular", Known(t)
    PROVE  Known(t)'
<1>1. override \in [TargetIds -> Override] /\ present \subseteq TargetIds
  BY DEF TargetsTypeOK
<1>2. ASSUME UNCHANGED <<present, running, override>> PROVE Known(t)'
  BY <1>2, KnownStays DEF Known
<1>3. ASSUME NEW x \in Admins, AdminNext(x) PROVE Known(t)'
  <2>1. CASE TargetCommit(x)
    <3>1. running /\ present' = present
      BY <2>1 DEF TargetCommit, RosterInv
    <3> QED  BY <3>1, KnownStays DEF Known
  <2>2. CASE ~TargetCommit(x)
    BY <1>2, <1>3, <2>2 DEF AdminNext, TargetCheck, TargetReload, TargetApply, ConfigCheck,
         ConfigCommit, PutGuardConfig, Reidentify
  <2> QED  BY <2>1, <2>2
<1>4. ASSUME NEW u \in TargetIds, AddTarget(u) PROVE Known(t)'
  <2>1. ~running' /\ override' = override /\ present' = present \cup {u} /\ u \notin present
    BY <1>4 DEF AddTarget
  <2> QED  BY <2>1, KnownStays DEF Known, RosterInv
<1>5. ASSUME NEW reachable \in SUBSET TargetIds, Start(reachable) PROVE Known(t)'
  <2>1. ~running /\ UNCHANGED <<present, override>>
        /\ (running' => live' = ResolveTargets(override))
    BY <1>5 DEF Start
  <2>2. ASSUME t \in present, running', override[t] = Listed(t) PROVE known'[t] # 0
    <3>1. t \in ResolveTargets(override)
      BY <2>2 DEF ResolveTargets, Listed
    <3> QED  BY <2>1, <2>2, <3>1 DEF StartsIdentify
  <2>3. ASSUME t \in present, override[t] # Listed(t) PROVE known'[t] # 0
    BY <2>3, KnownStays DEF Known
  <2> QED  BY <2>1, <2>2, <2>3 DEF Known
<1>6. CASE Stop
  <2>1. ~running' /\ UNCHANGED <<present, override>>
    BY <1>6 DEF Stop
  <2> QED  BY <2>1, KnownStays DEF Known
<1>7. CASE DataStep \/ UNCHANGED targetVars \/ \E u \in TargetIds : SwapDevice(u)
  BY <1>2, <1>7 DEF DataStep, Upload, ArchiveUpload, Delete, Verify, Replicate, SwapDevice,
       targetVars, control
<1> QED  BY <1>3, <1>4, <1>5, <1>6, <1>7 DEF TargetsNext, DataStep

(* Without leave to start degraded no target is left out.                  *)
LEMMA StrictStarts ==
    ASSUME TargetsTypeOK, [TargetsNext]_targetVars, ~degraded PROVE StartsIdentify
<1>1. ASSUME NEW reachable \in SUBSET TargetIds, Start(reachable), running',
             NEW t \in live'
      PROVE  known'[t] # 0
  <2>1. live' = ResolveTargets(override) /\ ResolveTargets(override) \ Verified(reachable) = {}
    BY <1>1 DEF Start
  <2>2. t \in Fresh(reachable) \/ known[t] # 0
    BY <1>1, <2>1 DEF Verified
  <2>3. t \in TargetIds
    BY <1>1, <2>1, Resolved DEF TargetsTypeOK
  <2> QED  BY <1>1, <2>2, <2>3, Stamped, KnownStays DEF Start
<1>2. ASSUME ~running, running' PROVE \E reachable \in SUBSET TargetIds : Start(reachable)
  BY <1>2 DEF TargetsNext, AdminNext, TargetCheck, TargetCommit, TargetReload, TargetApply,
       ConfigCheck, ConfigCommit, PutGuardConfig, Reidentify, Stop, AddTarget, SwapDevice,
       Upload, ArchiveUpload, Delete, Verify, Replicate, control, targetVars
<1> QED  BY <1>1, <1>2 DEF StartsIdentify

(* Leave to start degraded is only given by an admin.                      *)
LEMMA Degrading ==
    ASSUME [TargetsNext]_targetVars PROVE degraded' = degraded \/ degraded' \in Policies
BY DEF TargetsNext, AdminNext, TargetCheck, TargetCommit, TargetReload, TargetApply,
       ConfigCheck, ConfigCommit, PutGuardConfig, Reidentify, Stop, AddTarget, SwapDevice,
       Upload, ArchiveUpload, Delete, Verify, Replicate, Start, control, targetVars

(* A start that is not allowed to be degraded identifies every target it   *)
(* serves before it serves it.                                             *)
THEOREM StrictStartsIdentify ==
    ASSUME TRUE \notin Policies PROVE TargetsSpec => [][StartsIdentify]_targetVars
<1>1. TargetsInit => TargetsTypeOK /\ ~degraded
  BY TargetsInitially DEF TargetsInit
<1>2. TargetsTypeOK /\ ~degraded /\ [TargetsNext]_targetVars
        => (TargetsTypeOK /\ ~degraded)' /\ [StartsIdentify]_targetVars
  BY TargetsTyped, Degrading, StrictStarts DEF TargetsTypeOK
<1> QED  BY <1>1, <1>2, PTL DEF TargetsSpec

-----------------------------------------------------------------------------
(* The device swap guard.                                                  *)

(* What the database calls "ok" on a device whose marker is the recorded   *)
(* one is there; a regular target has no rows before it has an identity.   *)
DeviceInv ==
    /\ \A t \in TargetIds : EnvRole[t] = "regular" => Known(t)
    /\ \A t \in TargetIds, k \in Objects :
          /\ EnvRole[t] = "regular" /\ known[t] = 0 => rows[k][t] = "none"
          /\ known[t] # 0 /\ marker[t] = known[t] /\ rows[k][t] = "ok" => k \in stored[t]

(* No archive target is made a regular one.                                *)
ArchiveStaysArchive == \A t \in TargetIds : EnvRole[t] = "archive" => "regular" \notin Roles[t]

LEMMA LiveIsRegular ==
    ASSUME RosterInv, ArchiveStaysArchive, TargetsTypeOK
    PROVE  /\ \A t \in live : EnvRole[t] = "regular"
           /\ \A t \in ResolveTargets(override) : EnvRole[t] = "regular"
<1>1. \A t \in TargetIds : "regular" \in RolesOf(t) => EnvRole[t] = "regular"
  BY TargetsAssumption DEF ArchiveStaysArchive, RolesOf
<1>2. /\ live \subseteq TargetIds
      /\ \A t \in ResolveTargets(override) : t \in TargetIds /\ override[t].role = "regular"
  BY Resolved DEF TargetsTypeOK
<1> QED  BY <1>1, <1>2 DEF RosterInv

LEMMA DeviceStep ==
    ASSUME TargetsTypeOK, RosterInv, DeviceInv, ArchiveStaysArchive, StartsIdentify,
           [TargetsNext]_targetVars
    PROVE  DeviceInv'
<1>1. \A t \in TargetIds : EnvRole[t] = "regular" => Known(t)'
  BY KnownStep DEF DeviceInv
<1>2. SUFFICES ASSUME NEW t \in TargetIds, NEW k \in Objects
      PROVE  /\ EnvRole[t] = "regular" /\ known'[t] = 0 => rows'[k][t] = "none"
             /\ known'[t] # 0 /\ marker'[t] = known'[t] /\ rows'[k][t] = "ok" => k \in stored'[t]
  BY <1>1 DEF DeviceInv
<1> DEFINE Goal == /\ EnvRole[t] = "regular" /\ known'[t] = 0 => rows'[k][t] = "none"
                   /\ known'[t] # 0 /\ marker'[t] = known'[t] /\ rows'[k][t] = "ok" => k \in stored'[t]
<1>3. /\ EnvRole[t] = "regular" /\ known[t] = 0 => rows[k][t] = "none"
      /\ known[t] # 0 /\ marker[t] = known[t] /\ rows[k][t] = "ok" => k \in stored[t]
      /\ EnvRole[t] = "regular" /\ t \in present /\ running => known[t] # 0
      /\ known[t] \in Nat /\ marker[t] \in Nat /\ stamps \in Nat /\ rows \in RowTable
  BY DEF DeviceInv, Known, TargetsTypeOK, RowTable
<1>4. ASSUME UNCHANGED <<rows, known, marker, stored>> PROVE Goal
  BY <1>3, <1>4
<1>5. CASE DataStep
  <2>1. UNCHANGED <<known, marker>>
    BY <1>5 DEF DataStep, Upload, ArchiveUpload, Delete, Verify, Replicate, devices
  <2>2. rows[k][t] = "none" /\ rows'[k][t] # "none" => running /\ t \in present
    BY <1>5, DataRows DEF RosterInv
  <2>3. rows'[k][t] = "ok" => k \in stored'[t] \/ (rows[k][t] = "ok" /\ k \notin stored[t])
    BY <1>5, DataRows
  <2> QED  BY <1>3, <2>1, <2>2, <2>3
<1>6. ASSUME NEW x \in Admins, AdminNext(x) PROVE Goal
  <2>1. CASE TargetCommit(x)
    <3>1. /\ admin[x].target \in TargetIds /\ admin[x].target \in present /\ running
      BY <2>1, RequestFields DEF TargetCommit, TargetsTypeOK, RosterInv, Retargets
    <3>2. UNCHANGED <<known, marker, stored>>
          /\ rows' \in {rows, RemoveCopies(rows, admin[x].target), SeedPending(rows, {admin[x].target})}
      BY <2>1 DEF TargetCommit, devices
    <3>3. /\ rows'[k][t] = "ok" => rows[k][t] = "ok"
          /\ rows[k][t] = "none" /\ rows'[k][t] # "none" => t = admin[x].target
      BY <1>3, <3>1, <3>2, Removed, Seeded
    <3> QED  BY <1>3, <3>1, <3>2, <3>3
  <2>2. ASSUME NEW u \in TargetIds, Reidentify(x, u) PROVE Goal
    <3>1. /\ rows' = ResetCopies(rows, {u}) /\ u \in present /\ running /\ stored' = stored
          /\ t # u => known'[t] = known[t] /\ marker'[t] = marker[t]
          /\ t = u => known'[t] # 0
      BY <1>3, <2>2 DEF Reidentify, RosterInv, TargetsTypeOK
    <3>2. rows'[k][t] = IF t = u /\ rows[k][t] # "none" THEN "pending" ELSE rows[k][t]
      BY <1>3, <3>1, Reset
    <3> QED  BY <1>3, <3>1, <3>2
  <2>3. CASE UNCHANGED <<rows, devices>>
    BY <1>4, <2>3 DEF devices
  <2> QED
    BY <1>6, <2>1, <2>2, <2>3 DEF AdminNext, TargetCheck, TargetReload, TargetApply,
         ConfigCheck, ConfigCommit, PutGuardConfig
<1>7. ASSUME NEW u \in TargetIds, SwapDevice(u) PROVE Goal
  <2>1. /\ UNCHANGED <<rows, known>>
        /\ t = u => marker'[t] = 0
        /\ t # u => marker'[t] = marker[t] /\ stored'[t] = stored[t]
    BY <1>7 DEF SwapDevice, TargetsTypeOK
  <2> QED  BY <1>3, <2>1
<1>8. ASSUME NEW reachable \in SUBSET TargetIds, Start(reachable) PROVE Goal
  <2> DEFINE seeded == SeedPending(rows, Fresh(reachable))
  <2>1. /\ stored' = stored
        /\ known'[t] = IF t \in Fresh(reachable) THEN Stamp(reachable, t) ELSE known[t]
        /\ marker'[t] = Stamp(reachable, t)
        /\ \/ rows' = seeded
           \/ rows' = ResetCopies(seeded, ResolveTargets(override) \ Verified(reachable))
    BY <1>8 DEF Start
  <2>2. seeded \in RowTable
        /\ seeded[k][t] = IF t \in Fresh(reachable) /\ k \in objects /\ rows[k][t] = "none"
                          THEN "pending" ELSE rows[k][t]
    BY <1>3, Seeded
  <2>3. /\ rows'[k][t] = "ok" => rows[k][t] = "ok"
        /\ rows'[k][t] # "none" => rows[k][t] # "none" \/ t \in Fresh(reachable)
    <3> HIDE DEF seeded
    <3> QED  BY <2>1, <2>2, Reset
  <2>4. CASE t \in Fresh(reachable)
    <3>1. EnvRole[t] = "regular" /\ known[t] = 0
      BY <2>4, LiveIsRegular DEF Fresh
    <3>2. known'[t] # 0
      BY <2>1, <2>4, Stamped
    <3> QED  BY <1>3, <2>3, <3>1, <3>2
  <2>5. CASE t \notin Fresh(reachable)
    <3>1. known'[t] = known[t] /\ marker'[t] = marker[t]
      BY <2>1, <2>5 DEF Stamp, Blank
    <3> QED  BY <1>3, <2>1, <2>3, <2>5, <3>1
  <2> QED  BY <2>4, <2>5
<1>9. CASE Stop \/ UNCHANGED targetVars \/ \E u \in TargetIds : AddTarget(u)
  BY <1>4, <1>9 DEF Stop, AddTarget, targetVars, devices
<1> QED  BY <1>5, <1>6, <1>7, <1>8, <1>9 DEF TargetsNext, DataStep

(* A start does not carry on with a replaced device: what the database     *)
(* calls "ok" on a target that was identified before is on the device it   *)
(* found, whatever devices were replaced, refused, re-identified, retired  *)
(* or added before, with any number of admins at a time (starts identify   *)
(* what they serve; no archive target becomes a regular one).              *)
THEOREM SwapsAreDetected ==
    ASSUME ArchiveStaysArchive
    PROVE  TargetsSpec /\ [][StartsIdentify]_targetVars => SwapsDetected
<1> DEFINE I == TargetsTypeOK /\ RosterInv /\ DeviceInv
           A == (~running /\ running') =>
                  \A t \in live', k \in Objects :
                     (known[t] # 0 /\ rows'[k][t] = "ok") => k \in stored'[t]
<1>1. TargetsInit => I
  <2>1. TargetsInit => DeviceInv
    BY TargetsAssumption DEF TargetsInit, DeviceInv, Known, Listed
  <2> QED  BY <2>1, TargetsInitially, RosterStart
<1>2. I /\ [TargetsNext]_targetVars /\ [StartsIdentify]_targetVars => I'
  <2>1. UNCHANGED targetVars => StartsIdentify
    BY DEF targetVars, StartsIdentify
  <2> QED  BY <2>1, TargetsTyped, RosterStep, DeviceStep
<1>3. ASSUME I, TargetsNext, ~running, running', NEW t \in live', NEW k \in Objects,
             known[t] # 0, rows'[k][t] = "ok"
      PROVE  k \in stored'[t]
  <2>1. PICK reachable \in SUBSET TargetIds : Start(reachable)
    BY <1>3 DEF TargetsNext, AdminNext, TargetCheck, TargetCommit, TargetReload, TargetApply,
       ConfigCheck, ConfigCommit, PutGuardConfig, Reidentify, Stop, AddTarget, SwapDevice,
       Upload, ArchiveUpload, Delete, Verify, Replicate, control
  <2> DEFINE seeded == SeedPending(rows, Fresh(reachable))
             unverified == ResolveTargets(override) \ Verified(reachable)
  <2>2. /\ rows' = ResetCopies(seeded, unverified) /\ stored' = stored
        /\ live' = ResolveTargets(override)
    BY <1>3, <2>1 DEF Start
  <2>3. t \in TargetIds /\ rows \in RowTable
    BY <1>3, <2>2, Resolved DEF TargetsTypeOK, RowTable
  <2>4. seeded \in RowTable /\ (seeded[k][t] = "ok" => rows[k][t] = "ok")
    BY <2>3, Seeded
  <2>5. t \notin unverified /\ rows[k][t] = "ok"
    <3> HIDE DEF seeded, unverified
    <3> QED  BY <1>3, <2>2, <2>3, <2>4, Reset
  <2>6. marker[t] = known[t]
    BY <1>3, <2>2, <2>5 DEF Verified, Fresh
  <2> QED  BY <1>3, <2>2, <2>3, <2>5, <2>6 DEF DeviceInv
<1>4. I /\ [TargetsNext]_targetVars => [A]_targetVars
  BY <1>3
<1> QED  BY <1>1, <1>2, <1>4, PTL DEF TargetsSpec, SwapsDetected

-----------------------------------------------------------------------------
(* Rows follow the targets.                                                *)

(* Every identified target that the database says serves objects has a row *)
(* for each of them, and a retired one has none.                           *)
OwedInv ==
    /\ \A t \in TargetIds : EnvRole[t] = "regular" /\ Steady(t) => Known(t)
    /\ \A k \in objects \ ArchiveObjects, t \in ResolveTargets(override) :
          known[t] # 0 /\ Steady(t) => rows[k][t] # "none"
    /\ \A k \in Objects, t \in TargetIds : override[t].retired => rows[k][t] = "none"

LEMMA OwedStart == ASSUME TargetsInit PROVE OwedInv
BY TargetsAssumption DEF TargetsInit, OwedInv, Known, Listed

(* A steady target never had another role.                                 *)
LEMMA SteadyRole ==
    ASSUME RosterInv, NEW t \in TargetIds, Steady(t)
    PROVE  /\ override[t].role = EnvRole[t]
           /\ \A x \in Admins : Retargets(x) /\ admin[x].target = t =>
                 admin[x].set.role = EnvRole[t]
BY DEF RosterInv, Steady, RolesOf

LEMMA OwedStep ==
    ASSUME TargetsTypeOK, ServingInv, RosterInv, OwedInv, OneAdmin, Exclusive,
           FALSE \notin Policies, [TargetsNext]_targetVars
    PROVE  OwedInv'
<1>1. \A t \in TargetIds : Steady(t)' => Steady(t) /\ ~degraded
  <2>1. degraded \in BOOLEAN /\ Policies \subseteq {TRUE}
    BY TargetsAssumption DEF TargetsTypeOK
  <2>2. ~degraded' => ~degraded
    BY <2>1, Degrading
  <2> QED  BY <2>2 DEF Steady
<1>2. \A t \in TargetIds : EnvRole[t] = "regular" /\ Steady(t)' => Known(t)'
  <2> SUFFICES ASSUME NEW t \in TargetIds, EnvRole[t] = "regular", Steady(t)' PROVE Known(t)'
    OBVIOUS
  <2>1. StartsIdentify /\ Known(t)
    BY <1>1, StrictStarts DEF OwedInv
  <2> QED  BY <2>1, KnownStep
<1>3. SUFFICES ASSUME NEW t \in TargetIds, NEW k \in Objects
      PROVE  /\ k \in objects' /\ k \notin ArchiveObjects /\ t \in ResolveTargets(override)'
                   /\ known'[t] # 0 /\ Steady(t) /\ ~degraded => rows'[k][t] # "none"
             /\ override'[t].retired => rows'[k][t] = "none"
  <2>1. objects' \subseteq Objects /\ ResolveTargets(override)' \subseteq TargetIds
    <3>1. TargetsTypeOK'
      BY TargetsTyped
    <3> QED  BY <3>1 DEF TargetsTypeOK, ResolveTargets
  <2> QED  BY <1>1, <1>2, <1>3, <2>1 DEF OwedInv
<1> DEFINE Goal == /\ k \in objects' /\ k \notin ArchiveObjects /\ t \in ResolveTargets(override)'
                         /\ known'[t] # 0 /\ Steady(t) /\ ~degraded => rows'[k][t] # "none"
                   /\ override'[t].retired => rows'[k][t] = "none"
<1>4. /\ k \in objects /\ k \notin ArchiveObjects /\ t \in ResolveTargets(override)
            /\ known[t] # 0 /\ Steady(t) => rows[k][t] # "none"
      /\ override[t].retired => rows[k][t] = "none"
      /\ rows \in RowTable /\ override \in [TargetIds -> Override] /\ present \subseteq TargetIds
  BY DEF OwedInv, TargetsTypeOK, RowTable
<1>5. t \in ResolveTargets(override)' <=>
         t \in present' /\ override'[t].role # "archive" /\ ~override'[t].retired
  BY DEF ResolveTargets
<1>6. t \in ResolveTargets(override) <=>
         t \in present /\ override[t].role # "archive" /\ ~override[t].retired
  BY DEF ResolveTargets
<1>7. ASSUME UNCHANGED <<present, override, objects, known, rows>> PROVE Goal
  BY <1>4, <1>5, <1>6, <1>7
<1>8. CASE DataStep
  <2>1. UNCHANGED <<present, override, known>>
    BY <1>8 DEF DataStep, Upload, ArchiveUpload, Delete, Verify, Replicate, control, devices
  <2>2. running /\ Idle => live = ResolveTargets(override) /\ archive = ResolveArchiveTargets(override)
    BY DEF ServingInv, Idle, Settled
  <2>3. ASSUME override[t].retired PROVE rows'[k][t] = "none"
    <3>1. t \notin ResolveTargets(override) /\ t \notin ResolveArchiveTargets(override)
      BY <2>3 DEF ResolveTargets, ResolveArchiveTargets
    <3> QED  BY <1>4, <1>8, <2>2, <2>3, <3>1, DataRows
  <2>4. ASSUME k \in objects', k \notin ArchiveObjects, t \in ResolveTargets(override),
               known[t] # 0, Steady(t)
        PROVE  rows'[k][t] # "none"
    <3>1. CASE k \in objects
      BY <1>4, <1>8, <2>4, <3>1, DataRows
    <3>2. CASE k \notin objects
      <4>1. running /\ Idle
        <5>1. (Exclusive => Idle)
          BY <1>8, <2>4, <3>2, DataRows
        <5>2. running
          BY <1>8 DEF DataStep, Upload, ArchiveUpload, Delete, Verify, Replicate
        <5> QED  BY <5>1, <5>2
      <4> QED  BY <1>8, <2>2, <2>4, <3>2, <4>1, DataRows
    <3> QED  BY <3>1, <3>2
  <2> QED  BY <1>5, <1>6, <2>1, <2>3, <2>4
<1>9. ASSUME NEW x \in Admins, AdminNext(x) PROVE Goal
  <2>1. CASE TargetCommit(x)
    <3> DEFINE u == admin[x].target
               set == admin[x].set
    <3>1. /\ Retargets(x) /\ u \in TargetIds /\ set \in Override /\ admin[x].was \in BOOLEAN
          /\ u \in present /\ admin[x].was = override[u].retired
      BY <2>1, RequestFields DEF TargetCommit, TargetsTypeOK, ServingInv, Retargets
    <3>2. /\ UNCHANGED <<present, objects, known>>
          /\ t # u => override'[t] = override[t]
          /\ t = u => override'[t] = set
          /\ rows' = IF set.retired /\ ~admin[x].was THEN RemoveCopies(rows, u)
                     ELSE IF admin[x].was /\ ~set.retired THEN SeedPending(rows, {u})
                     ELSE rows
      BY <1>4, <2>1, <3>1 DEF TargetCommit, devices
    <3>3. rows'[k][t] = IF t # u THEN rows[k][t]
                        ELSE IF set.retired /\ ~admin[x].was THEN "none"
                        ELSE IF admin[x].was /\ ~set.retired /\ k \in objects /\ rows[k][t] = "none"
                             THEN "pending" ELSE rows[k][t]
      BY <1>4, <3>1, <3>2, Seeded, Removed
    <3>4. CASE t # u
      BY <1>4, <1>5, <1>6, <3>2, <3>3, <3>4
    <3>5. CASE t = u
      <4>1. Steady(t) => set.role = EnvRole[t] /\ override[t].role = EnvRole[t]
        BY <3>1, <3>5, SteadyRole
      <4>2. override'[t].retired => rows'[k][t] = "none"
        BY <1>4, <3>1, <3>2, <3>3, <3>5 DEF Override
      <4>3. ASSUME k \in objects, k \notin ArchiveObjects, t \in ResolveTargets(override)',
                   known[t] # 0, Steady(t)
            PROVE  rows'[k][t] # "none"
        <5>1. ~set.retired /\ set.role # "archive"
          BY <1>5, <3>2, <3>5, <4>3
        <5>2. CASE admin[x].was
          BY <3>3, <3>5, <4>3, <5>1, <5>2
        <5>3. CASE ~admin[x].was
          <6>1. t \in ResolveTargets(override)
            BY <1>6, <3>1, <3>5, <4>1, <4>3, <5>1, <5>3
          <6> QED  BY <1>4, <3>3, <3>5, <4>3, <5>1, <5>3, <6>1
        <5> QED  BY <5>2, <5>3
      <4> QED  BY <3>2, <4>2, <4>3
    <3> QED  BY <3>4, <3>5
  <2>2. ASSUME NEW u \in TargetIds, Reidentify(x, u) PROVE Goal
    <3>1. Idle /\ running
      BY <2>2 DEF Reidentify, Idle, OneAdmin
    <3>2. live = ResolveTargets(override)
      BY <3>1 DEF ServingInv, Idle, Settled
    <3>3. /\ UNCHANGED <<present, override, objects>> /\ u \in ResolveTargets(override)
          /\ rows' = ResetCopies(rows, {u})
          /\ t # u => known'[t] = known[t]
      BY <2>2, <3>2 DEF Reidentify, TargetsTypeOK
    <3>4. rows'[k][t] = "none" <=> rows[k][t] = "none"
      BY <1>4, <3>3, Reset
    <3>5. ASSUME t = u, Steady(t) PROVE known[t] # 0
      <4>1. EnvRole[t] = "regular" /\ t \in present
        BY <1>6, <3>3, <3>5, SteadyRole, TargetsAssumption
      <4> QED  BY <3>1, <3>5, <4>1 DEF OwedInv, Known
    <3> QED  BY <1>4, <1>5, <1>6, <3>3, <3>4, <3>5
  <2>3. CASE UNCHANGED <<present, override, objects, known, rows>>
    BY <1>7, <2>3
  <2> QED
    BY <1>9, <2>1, <2>2, <2>3 DEF AdminNext, TargetCheck, TargetReload, TargetApply,
         ConfigCheck, ConfigCommit, PutGuardConfig, devices
<1>10. ASSUME NEW reachable \in SUBSET TargetIds, Start(reachable) PROVE Goal
  <2> DEFINE seeded == SeedPending(rows, Fresh(reachable))
  <2>1. /\ UNCHANGED <<present, override, objects>>
        /\ t \notin Fresh(reachable) => known'[t] = known[t]
        /\ \/ rows' = seeded
           \/ rows' = ResetCopies(seeded, ResolveTargets(override) \ Verified(reachable))
    BY <1>10 DEF Start
  <2>2. seeded \in RowTable
        /\ seeded[k][t] = IF t \in Fresh(reachable) /\ k \in objects /\ rows[k][t] = "none"
                          THEN "pending" ELSE rows[k][t]
    BY <1>4, Seeded
  <2>3. rows'[k][t] = "none" <=>
           rows[k][t] = "none" /\ ~(t \in Fresh(reachable) /\ k \in objects)
    <3> HIDE DEF seeded
    <3> QED  BY <2>1, <2>2, Reset
  <2>4. t \in Fresh(reachable) => ~override[t].retired
    BY DEF Fresh, ResolveTargets
  <2> QED  BY <1>4, <1>5, <1>6, <2>1, <2>3, <2>4
<1>11. ASSUME NEW u \in TargetIds, AddTarget(u) PROVE Goal
  <2>1. /\ UNCHANGED <<override, objects, known, rows>> /\ present' = present \cup {u}
        /\ u \notin present
    BY <1>11 DEF AddTarget, devices
  <2>2. known[t] # 0 => t \in present
    BY DEF RosterInv
  <2> QED  BY <1>4, <1>5, <1>6, <2>1, <2>2
<1>12. CASE Stop \/ UNCHANGED targetVars \/ \E u \in TargetIds : SwapDevice(u)
  BY <1>7, <1>12 DEF Stop, SwapDevice, targetVars, devices, control
<1> QED  BY <1>8, <1>9, <1>10, <1>11, <1>12 DEF TargetsNext, DataStep

(* An identified target in service owes or holds a copy of every object,   *)
(* and a retired one leaves no rows behind, through retiring and bringing  *)
(* back, restarts, new targets and re-identification (one admin, object    *)
(* requests pause, leave to start degraded is not taken back).             *)
THEOREM RowsAlwaysFollow ==
    ASSUME OneAdmin, Exclusive, FALSE \notin Policies
    PROVE  TargetsSpec => []RowsFollowTargets
<1> DEFINE I == TargetsTypeOK /\ ServingInv /\ RosterInv /\ OwedInv
<1>1. TargetsInit => I
  BY TargetsInitially, ServingStart, RosterStart, OwedStart
<1>2. I /\ [TargetsNext]_targetVars => I'
  BY TargetsTyped, ServingStep, RosterStep, OwedStep
<1>3. I => RowsFollowTargets
  <2> SUFFICES ASSUME I, running, Idle
               PROVE  /\ \A k \in objects \ ArchiveObjects, t \in live :
                             known[t] # 0 /\ Steady(t) => rows[k][t] # "none"
                      /\ \A k \in Objects, t \in present : override[t].retired => rows[k][t] = "none"
    BY DEF RowsFollowTargets
  <2>1. live = ResolveTargets(override)
    BY DEF ServingInv, Idle, Settled
  <2> QED  BY <2>1 DEF OwedInv, TargetsTypeOK
<1> QED  BY <1>1, <1>2, <1>3, PTL DEF TargetsSpec
=============================================================================
