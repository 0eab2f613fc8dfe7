# TLA+ models of open-gov-doc

Models, model-checking runs and machine-checked proofs for open-gov-doc, a
document management system of about thirty FastAPI services. They cover the
parts of the system in which several processes, services or installations work
on the same state:

- `storage-service`: the copies of an object on several backends, and the set of
  backends itself;
- `audit-service` with the event bus: the hash chain of all events and the ledger
  of forced deletions;
- `permission-service`: the answer of `/check`, its cache and its mirror of the
  resource tree; and the four-eyes mechanism with the services that execute what
  was approved;
- `document-service`: the editing lock and check-in; retention, legal hold, trash,
  quarantine and physical deletion;
- `federation-hub-service` with the `workflow-service` of two installations:
  handovers of a task and the return of its result;
- `archival-service` with document-service, case-service and storage-service: the
  disposal of records, the dehydration of disposed documents and their retrieval.

Contents: 1 The system, 2 The project, 3 StorageCopies, 4 StorageTargets,
5 AuditChain, 6 Permissions, 7 Approvals, 8 DocumentCheckin, 9 DocumentRetention,
10 Federation, 11 Archival, 12 Runs and bounds, 13 Fairness, 14 Proofs,
15 Divergences, 16 Limits of the models, 17 Not modelled, 18 How to run.

## 1 The system

Services talk over HTTP and through an event bus (NATS JetStream, durable
consumers, at-least-once delivery: `src/libs/dms-eventbus-client`). Each service
owns a Postgres schema; every request runs in one SQLAlchemy session that is
committed at its end or rolled back by an exception. Sessions are created with
`expire_on_commit=False` and keep the rows they have loaded; an UPDATE writes the
columns whose value differs from the loaded one. Both facts decide what a stale
read can do, and every model of a session says which rows it has loaded when.

### 1.1 Modelled parts

| part | state | operations | hard behaviours | what makes it correct | module |
|---|---|---|---|---|---|
| storage-service, object copies (`replication.py`, `repository.py`, `main.py`) | `object_metadata`, `object_copy`, bytes on each backend | PUT, PUT .../archive-copy, GET, DELETE, DELETE .../live-copies, the replication sweep, fixity checks | several backend calls between the database read and the commit; backends fail one by one; the sweep commits a batch at once | what is called confirmed is there and right; an acknowledged object stays readable; a lock is honoured; owed copies are settled; damage heals | `StorageCopies` |
| storage-service, targets (`main.py`, `identity_guard.py`) | `target_override`, `operational_config`, `guard_config`, `backend_identity`, markers on the devices, `app.state` | put_target_config, put_operational_config, put_guard_config, reidentify, startup guard | rows and `app.state` apart; checks and commits apart; refused or degraded starts; replaced devices | uploads stay possible; every target owes or holds every object; no last copy is removed; a replaced device is never trusted | `StorageTargets` |
| audit-service (`consumer.py`, `repository.py`, `deletion_ledger.py`) | `audit_event`, `audit_meta`, `deletion-register.jsonl`, durable consumers | one handler per subject, verify_chain, start | handlers of several subjects at once; redelivery; the ledger outside the transaction; rows of older releases | one chain without gap or fork, each event once, nothing acknowledged that is not recorded | `AuditChain`, `AuditLog` |
| permission-service, authorisation (`repository.py`, `structure_consumer.py`) | roles, assignments, groups, `resource_node`, `scope_lock`, `effective_permission_cache` | role, group, assignment and lock requests; structure events of folder-service and document-service; `/check` | a cache that many operations have to clear; events late, twice and out of order; a climb of several SELECTs | `/check` answers as the rows of the moment say; the mirror catches up | `Permissions`, `AccessControl` |
| permission-service, approvals, with auth-service and document-service (`approval_consumer.py`) | `approval_request`, `approval_config`, and what the approved actions change | create, approve, reject; execution by the owner of the action; direct execution | decision, event and execution in three transactions; redelivery after the effect was undone | nothing is executed that two people have not agreed to; a decision is final; an approval takes effect | `Approvals` |
| document-service, editing (`repository.py`, `main.py`) | `document`, `document_version`, `document_lock`, uploads | acquire, release, force unlock, check-in | scan and upload between the first read and the commit; locks that expire or are forced open | no update is lost; versions stay retrievable | `DocumentCheckin`, `VersionHistory` |
| document-service, retention (`retention_actions.py`, `main.py`, `consumer.py`) | retention schedule, legal hold, trash, quarantine, deletion register, versions in the storage | user requests, the poll loop, the consumer of approvals, administrators | lists that are worked through later; content deleted object by object before one commit; blocked objects | a document is gone exactly when the register says so; a hold is honoured; what is overdue is handled | `DocumentRetention` |
| federation-hub-service and workflow-service (`main.py`, `repository.py` of both) | `handover`, `handover_retry_payload`, `federation_task` on both sides | dispatch, POST /handovers, inbound, result, retry loop, operator retry, cleanup | synchronous calls with lost answers; two retry loops on one row; restarts | one process for each task and one completion; retries end; payloads are kept as long as they are needed | `Federation`, `Exchange` |
| archival-service with case-service and rendering-service (`main.py`, `pipeline.py`, `consumer.py`, `repository.py`) | `archival_transfer`, `case_archival_transfer`, closure snapshots, what is on the live storage | the poll loop with its three phases, retrievals, retries by operators, the closure of a case | one effect spread over calls to three services; a rollback that expires what the handler still needs; what happens to a document between its copy and the end of its content | no version is lost; a package is what the case was when it was closed; what is due is disposed of | `Archival` |

### 1.2 The other services

What each keeps, and why it is not modelled. The last column names what would be
worth modelling next.

| service | state it keeps | what is hard | next |
|---|---|---|---|
| migration-service | `transfer`, `inbound_transfer` | lock, copy, verify, release, delete across two installations | first candidate |
| folder-service | folder tree, legal hold, trash | moves against cascaded deletion. Its tree and structure events are part of `Permissions` | second candidate: trash and purge |
| workflow-service, other than federated tasks | definitions, `process_instance`, `task_claim` | concurrent claims and completions, timers | candidate |
| case-service, other than closure and disposal | cases, document references, number sequences | the search for a free number | - |
| auth-service, other than break-glass | SSO configuration, signing key, technical accounts, tracking sessions | delegates to Keycloak; cryptography | - |
| notification-service | `notification` | retries of deliveries: the shape of a leg of `Federation` | - |
| registry-service | `service_instance` | heartbeats, one writer each | - |
| plugin-orchestration-service | manifests, cluster nodes, placements | placement against stale reports | candidate |
| fleet-management-service | installations, `rollout` | staged rollouts | - |
| query-service | `manipulation_mode_status` | a gate of its own on manipulation actions | - |
| license-service, teamspace-service, favorite-service, object-type-service, monitoring-service, reporting-service, config-service | rows with one writer or plain CRUD | little that interleaves | - |
| gateway-service | rate limit counters, a cached flag | its refusals are requests that do not happen | - |
| signature-service, virus-scan-service, ocr-service, rendering-service other than the end of a rendition, search-service | results of external engines | the engines | - |
| mail-connector, cmis-connector, webdav-connector | protocol state | adapters; mail-connector imports each message once | - |
| apps, tools/cli, libs other than those named | none of their own | clients of the services | - |

`PROJECT.json` lists each of them as a component with its status.

## 2 The project

| module | what it is | composed with |
|---|---|---|
| `StorageCopies`, `MCStorageCopies` | data plane of storage-service | - |
| `StorageTargets`, `MCStorageTargets` | its admin plane and startup guard, with data-plane requests as single steps | - |
| `StorageProofs` | of the data plane: types, alerts, faithful copies, reads, recoverability, quorum, locks; of the admin plane: types, uploads, rows, retirement, device swaps | EXTENDS `StorageCopies`, `StorageTargets` |
| `AuditLog` | abstract: an append-only log, and a register that never runs ahead of it | - |
| `AuditChain`, `MCAuditChain` | bus, handlers, chain, ledger | implements `AuditLog` |
| `AuditChainProofs` | its types, the chain, the acknowledgements, the refinement | EXTENDS `AuditChain` |
| `AccessControl` | abstract: `/check` answers from the rows, without cache or climb | - |
| `Permissions`, `MCPermissions` | permission-service and the owners of the resource tree | implements `AccessControl` |
| `PermissionsProofs` | types, the refinement | EXTENDS `Permissions` |
| `Approvals`, `MCApprovals` | approval requests and the three services that execute them | - |
| `ApprovalsProofs` | types, decisions, executions, break-glass | EXTENDS `Approvals` |
| `VersionHistory` | abstract: the main version moves by compare-and-set, the rest is kept | - |
| `DocumentCheckin`, `MCDocumentCheckin` | editing lock and check-in | implements `VersionHistory` |
| `DocumentCheckinProofs` | types, no lost update, retrievable versions, the end of a session, the refinement | EXTENDS `DocumentCheckin` |
| `DocumentRetention`, `MCDocumentRetention` | every way a document ends | - |
| `DocumentRetentionProofs` | types, the register, the hold | EXTENDS `DocumentRetention` |
| `Exchange` | abstract: one process per task, one completion | - |
| `Federation`, `MCFederation` | hub and two installations | implements `Exchange` |
| `FederationProofs` | types, the payloads, the refinement | EXTENDS `Federation` |
| `Archival`, `MCArchival` | disposal, dehydration, retrieval | - |
| `ArchivalProofs` | types, no content lost, packages | EXTENDS `Archival` |

The refinement mappings are `Log` in `AuditChain`, `Access` in `Permissions`,
`History` in `DocumentCheckin` and `Promise` in `Federation`; each abstract
specification is a property of a run.

## 3 StorageCopies: requests and copies

One request is one process. A request reads the database and calls backends in
separate steps; its database changes become visible in one commit at its end.

| variable | code |
|---|---|
| `meta[k]` | `object_metadata.checksum_sha256`; contents stand for their checksum |
| `copies[k][t]` | the `object_copy` row of key and target: `status`, `attempts`, whether `next_retry_at` is NULL or past (`due`), `retention_until` (`until`) |
| `disk[k][t]` | the bytes on the backend |
| `upload[k]` | a PUT in flight: what it writes, what is still to be written, what was written. One per key: `upsert_object_metadata` locks the row before any backend is called |
| `removal[k]` | a DELETE, or a dehydration (`scope = "live"`), in flight |
| `sweep`, `check` | process-pending and the fixity check in flight, with the rows their session loaded and the changes it has not flushed |
| `alerted` | copies whose `storage.replication.failed_permanent` event was published |
| `erased` | ghost: keys for which a removal was authorised. Properties about acknowledged objects stop there |
| `uploads`, `removals`, `faults`, `rots` | what the bounds count |

| actions | code |
|---|---|
| `UploadBegin`, `UploadStored`, `UploadRaised`, `UploadCommit`, `QuorumMissed`, `UndoWrite`, `UploadRollback`, `UploadLost` | `upload_object`, `upload_archive_copy` with `write_with_redundancy` and `write_to_targets` |
| `RemovalBegin`, `RemovalDelete`, `RemovalCommit`, `RemovalLost` | `delete_object`, `delete_live_copies` with `find_locked_targets`, `delete_from_all`, `delete_from_targets` |
| `SweepBegin`, `SweepRead`, `SweepReadRaised`, `SweepNoSource`, `SweepWrite`, `SweepWriteRaised`, `SweepCommit`, `SweepLost` | `replication_process_pending` with `process_pending` |
| `CheckBegin`, `CheckList`, `CheckRow`, `CheckCommit`, `CheckLost` | `verify_object_all_copies`, `verify_pending_objects` with `verify_all_copies` |
| `BackoffElapses`, `TimePasses` | `_next_retry_at`; the date against `retention_until` |
| `MediaRots` | bit rot while another confirmed copy is intact |

Points that took care:

- *Sessions.* A session writes only the columns it changed since it loaded the
  row (`Flushed`), and its view of a row it loaded is its own (`Seen`). An UPDATE
  of a row that was deleted meanwhile fails and takes the batch with it
  (`SweepRecord`, `CheckRecord`).
- *A write that raises may have stored its bytes* (`MayStore`). Such bytes have
  no row, or an older one.
- *A crash* is a request that is lost (`UploadLost`, `RemovalLost`, `SweepLost`,
  `CheckLost`): bytes written stay, rows do not. Nothing else of a process
  survives or is lost, so a restart is the loss of all of them, in any order.
- *Row locks taken by a flush* are not modelled. They only delay other requests,
  so every interleaving of the program is one of the model; the model has a few
  more. The one lock that is modelled is that on the metadata row, without which
  two PUTs of a key would interleave, and which a deletion has to wait for.
- *`attempts` saturates* at `max_replication_attempts`, the only number it is
  compared with.

Properties: `ConfirmedCopiesFaithful`, `ReadsAcknowledged`, `AlwaysRecoverable`,
`PermanentIsAlerted` (invariants), `LockHonoured`, `QuorumHolds` (what a step may
never do), `OwedCopiesSettle`, `DamageHeals` (liveness). Each is explained where
it is defined. All but the two liveness properties are proved (section 14).

## 4 StorageTargets: the set of targets

| variable | code |
|---|---|
| `present` | the ids in `DMS_TARGETS` (`Settings.targets`), read at a start |
| `override` | `target_override` merged over the settings: role and retirement |
| `live`, `archive` | `app.state.targets`, `app.state.archive_targets` |
| `cfg`, `degraded` | `operational_config`; `guard_config.allow_degraded_start` |
| `admin[x]` | an admin request in flight: checked, committed, overrides read back |
| `objects`, `rows`, `stored` | metadata rows, copy status, bytes on the mounted device |
| `marker`, `known` | the identity file on the device; `backend_identity.device_id` |

`TargetCheck`, `TargetCommit`, `TargetReload` and `TargetApply` are the four
parts of `put_target_config` between which other requests run; `ConfigCheck` and
`ConfigCommit` those of `put_operational_config`; `Start` is `lifespan` with
`_run_startup_guard` and `check_target_identity`, for any set of reachable
backends, with its first transaction kept when the start is refused; `Reidentify`
is the operator's answer to a swapped device. `Upload`, `ArchiveUpload`,
`Delete`, `Replicate` and `Verify` are data-plane requests as single steps: their
interleavings are StorageCopies' subject.

`Exclusive` says that object requests other than the sweep pause while an admin
request is between its steps, and `Admins` is the set of admin requests that may
be in flight together. Nothing in the code enforces either. The passing runs take
`Exclusive = TRUE` and one admin, because without them the properties fail:
section 15 lists these failures with the constants that show them.

Properties: `TargetsTypeOK`, `UploadsPossible`, `RowsFollowTargets` (invariants),
`NothingStranded`, `SwapsDetected` (action properties). All five are proved
(section 14). `Init`, `Next` and the type invariant carry the prefix `Targets` so
that one proof module can extend both halves of the service.

## 5 AuditChain: one chain from many handlers

| variable | code |
|---|---|
| `chain` | `audit_event` in the order of `id`: which event a row records, `prev_hash`, `hash` |
| `meta` | the `audit_meta` row with its two cutovers, or `NoMeta` before a release that knows it |
| `ledger` | the lines of `deletion-register.jsonl` |
| `published`, `streams` | messages in JetStream; subjects that a stream covers |
| `acked` | messages acknowledged for the durable consumer |
| `running`, `pending`, `subscribed` | the service; subjects `start_consuming` has yet to come to; those it consumes |
| `handler[s]`, `lock` | the message of the one handler of a subject, and how far it is; who holds `append_lock` |

| actions | code |
|---|---|
| `AddStream`, `Publish` | producers, as `dms_eventbus_client` lets them |
| `Start`, `Subscribe`, `Stop` | `lifespan` with the two cutovers of `repository.py`; `start_consuming`; the end of the process at any step |
| `Deliver`, `Acquire`, `FindRecorded`, `FindHead`, `Commit`, `AppendLedger`, `Ack` | `handle_event` with `append_event`, then the ledger, then the acknowledgement |
| `Fail`, `AckLost` | an exception, which releases the lock; an acknowledgement that does not arrive |

A hash is modelled as the sequence of everything hashed so far, so that it is
injective and a changed row changes every hash after it. Of the hashed fields only
those are named whose presence depends on the release that wrote a row: the
initial states are all chains that older releases may have left, and `Start` is
the upgrade. Message contents, reads, exports and the statistics are left out.

`AuditLog` is the promise: a log to which an event is appended at most once, and a
register of forced deletions that never runs ahead of it. The mapping `Log` takes
the events of the chain and the set of the ledger's lines; that a line may be
written twice is below its level.

Properties: `ChainVerifies`, `AckedIsRecorded` (invariants), `ImplementsLog`
(refinement), `EventsRecorded` (liveness).

## 6 Permissions: an answer through cache and mirror

| variable | code |
|---|---|
| `tree`, `stream`, `late` | the hierarchy as folder-service and document-service have it; the structure events of each owner; events JetStream will deliver again |
| `node` | `resource_node`: parent and `inherit` |
| `assigned`, `perms`, `group`, `member` | `role_assignment`, `role.permissions`, `group`, `group_membership` |
| `lock` | the scope lock of a resource; `"over"` when only released or expired rows are left, which still hold a foreign key |
| `cache` | `effective_permission_cache` |
| `ask`, `check`, `verdict` | the requests to `/check`: question, progress, answer |

| actions | code |
|---|---|
| `CreateRole`, `UpdateRole`, `CreateRoleAssignment`, `DeleteRoleAssignment`, `CreateGroup`, `DeleteGroup`, `AddGroupMember`, `RemoveGroupMember`, `SetResourceInherit` | the functions of that name in `repository.py` with `invalidate_cache` |
| `CreateScopeLock`, `ScopeLockEnds` | `create_scope_lock`; `release_scope_lock`, or the passing of `expires_at` |
| `OwnerCreates`, `OwnerMoves`, `OwnerDeletes` | the owners' requests with the event they publish |
| `CreateResource`, `StructureEvent`, `StructureEventRaises`, `AckLost`, `StructureEventAgain` | `POST /resources`; the structure consumer, its exceptions and redeliveries |
| `CheckBegins`, `Climb`, `AnswerCached`, `AnswerComputed`, `CheckLost` | `GET /check`: the look into the cache, `_collect_effective_roles` node by node, the overlay of the scope locks, the INSERT of what was computed |

`AccessControl` says what an answer means: a union over the ancestors that
inheritance reaches, without cache and without walk, evaluated on the rows of the
moment. Its operators are used by `Permissions` through `INSTANCE`, and
`ImplementsAccess` says that every answer is one it could give. `Overlapping =
FALSE` keeps changes out while a check climbs; each check is still interleaved
with other checks, locks and the end of locks, and the cache lives on from check
to check. With `Overlapping = TRUE` the answer may mix two states of the rows,
which the code accepts and the abstract specification does not.

Properties: `TypeOK` (with the foreign key of the hierarchy), `ImplementsAccess`
(refinement), `MirrorCatchesUp` (liveness); the first two are proved (section 14). Not in the model: delegations,
supervisor assignments, directory mappings.

## 7 Approvals: decided here, executed there

| variable | code |
|---|---|
| `request[r]` | `approval_request`: status, `approved_by`, `rejected_by` |
| `requires` | `approval_config` |
| `decision[p]` | an approve or reject request that has read the row, or has committed and not published yet |
| `published`, `acked` | `permission.approval.approved` messages and their acknowledgements |
| `executor[s]` | the message a consuming service handles |
| `objects` | what the gated actions make and end: one scope lock, maintenance mode, one role and its assignment, the active break-glass account, one document lock |
| `outcome[r]` | ghost: the action of a request was executed, or found its target gone |

`CreateApprovalRequest`, `PutApprovalConfig`, `ReadRequest`, `CommitDecision`,
`PublishDecision` and `DecisionLost` are the endpoints of permission-service with
the points at which other requests run or the process ends. `Deliver`, `Execute`,
`Ack`, `ExecutionRaises` and `ExecutionLost` are the `approval_consumer` of
permission-service, auth-service and document-service. `ExecuteDirectly`,
`EndDirectly` and `AcquireLock` are the ways in which the same objects change
without an approval.

`Serialised` says that a request has one decision under way at a time. Nothing in
the code enforces it; without it `OnlyApprovedExecuted` and `DecisionIsFinal`
fail (section 15).

Properties: `OnlyApprovedExecuted` (invariant), `DecisionIsFinal`,
`BreakGlassNeedsTwo` (action properties), `ApprovedTakesEffect` (liveness). The
last begins with the published message: an approval that was committed and never
published is never executed, and nothing in the code makes up for it.

Left out: the approval of `permission.role.update` (executed as `role.create` is,
without its exception), the mapping of directory groups.

## 8 DocumentCheckin: the editing lock and the check-in

| variable | code |
|---|---|
| `current` | `document.current_version_number` |
| `versions` | the rows of `document_version` in the order of `id`: number, the base the client named, conflict copy or not, author |
| `lock` | `document_lock`: holder, and whether `expires_at` has passed |
| `request[u]` | the request of a client, with what its session read |
| `base[u]`, `holding` | what clients believe: the version they edit, whether they have the lock |
| `objects` | contents in the object storage |

`AcquireRead`/`AcquireWrite`, `ReleaseRead`/`ForceReleaseRead`/`ReleaseWrite` are
`acquire_lock`, `release_lock` and the force unlock, each with the gap between its
read and its write. A check-in is `CheckinRead` (the row of the document enters
the identity map), `Upload` (scan and storage), `Check` (lock and greatest number
read anew, the main version not), `Commit`, `Respond`; `UploadRefused`,
`CheckRefused` and `ResponseLost` are its other ends. `ResponseLost` leaves the
client with its old base, so that it may send the same again.

`Overlapping = FALSE` lets check-ins run one after the other and short
transactions one at a time; locks still expire, are taken over or forced open
during a check-in. With `TRUE` the run `Checkin_race` finds the lost update.

`VersionHistory` is a compare-and-set history with conflict copies beside it; the
mapping `History` takes `current` as the number of the main version and the rows
that are no conflict copies as those that were.

Properties: `NoLostUpdate`, `VersionsRetrievable` (invariants),
`CheckinEndsSession` (action property), `ImplementsHistory` (refinement).

## 9 DocumentRetention: every way a document ends

| variable | code |
|---|---|
| `doc[d]` | the row and what hangs on it: live, trashed, `restore_until` over, gone; the retention action and whether it is due; `retention_approval_requested`; legal hold; quarantine |
| `content[d]`, `locked` | the objects of its versions in the storage; those under a governance lock |
| `register[d]` | entries in `deletion_register` |
| `derived` | `derived_from_document_id` |
| `needsApproval`, `requests` | the configuration, and approval requests that wait |
| `poll` | the poll loop: phase, what it listed, what was under a hold then |
| `job[p]` | a physical deletion that the loop, the consumer or an administrator is in the middle of |

`SetRetention`, `SetHold`, `ReleaseHold`, `SetQuarantine`, `ReleaseQuarantine`,
`Trash`, `Restore` are the users' requests; `Purge` and `ReconcileDeletion` those
of the deletion administration. `TrashApproved`, `EraseApproved` and `EraseMoot`
are the consumer. `ListDue`, `ListExpiredTrash`, `ListExpiredQuarantine` and the
`Process` actions are `_retention_poll_loop`: every phase lists once and then
works with the rows as listed. `DeletePart`, `Blocked`, `CommitErase` and
`EraseRefused` are the three functions that erase (`execute_forced_deletion`,
`purge_expired_trash_entry`, `execute_quarantine_auto_delete`): one storage call
per version, then one transaction; `JobLost` is a failure or a crash in between. An exception ends the
whole tick, and the rollback after a blocked deletion expires the rows that are
still to do, which has the same effect (`Blocked`).

Properties: `Accounted` (invariant), `HoldHonoured` (action property),
`OverdueIsHandled` (liveness). `OverdueIsHandled` excepts what a hold, a lock, a
copy or a second person holds back, and is stated for `derived = {}`: with a copy,
the original that cannot be erased aborts every tick (section 15). Left out: the
reminder phase, the pause under maintenance mode.

## 10 Federation: two installations and a hub

| variable | code |
|---|---|
| `task`, `dispatch`, `row` | the federated task at the origin; requests that are dispatching it; the outbound `federation_task` rows |
| `posted` | requests on their way to the hub |
| `hub[h]`, `cached` | `handover` with its two counters; `handover_retry_payload` |
| `job[h][k]` | a request or tick of the hub at work on a handover, with the values of the row it loaded |
| `calls` | calls of the hub that an installation has to deal with, also those whose caller no longer waits |
| `target`, `return` | the process started for a handover; whether its result was sent |

`DispatchBegins`, `DispatchCommits`: `_dispatch_pending_federation_tasks`.
`CreateHandover`, `SubmitHandoverResult`, `RetryTick`, `RetryHandover`, `Commits`,
`Purge`: the hub. `InboundAccepted`, `InboundDuplicate`, `InboundAnswered`,
`WorkDone`, `ReturnBegins`, `ReturnMarked`, `ReturnLost`, `ResultAccepted`,
`ResultRefused`: workflow-service on both sides. `CallFails` and `HubRestarts` are
the faults; a failed call may have arrived, and is then dealt with late.

`Written` is what makes this component hard: a handler of the hub writes the
columns whose value differs from the row it loaded before its call. `Overlapping =
FALSE` keeps two jobs off one handover; with `TRUE` a result that waits for a
retry can be overwritten (section 15).

`Exchange` is the promise to a task: one process for it, one answer, one
completion. The mapping `Promise` derives the stage of a task from the rows of
both installations.

Properties: `PayloadKept` (invariant), `ImplementsExchange` (refinement),
`RetriesEnd` (liveness); the first two, and `TypeOK`, are proved in
`FederationProofs`. Abstracted: authentication, version and
revocation checks of the hub are failed calls; the status of the origin's row is
not kept; the length of a backoff; the handover of xdomea files; maintenance mode.

## 11 Archival: disposal, dehydration, retrieval

| variable | code |
|---|---|
| `due`, `archived` | `archive_after` has passed; `archived_at` is set, for documents and cases |
| `current`, `dehydrated`, `held` | `current_version_number`, `dehydrated_at`, an active legal hold |
| `snapshot[c]` | `version_number` of each reference, written when the case is closed |
| `live[d][v]` | the object of version `v` on the live storage: which version's content it has, or nothing |
| `rendered` | the PDF/A rendition is ready |
| `transfers` | the rows of archival-service, in the order of `id`: item, status, `attempts`, whether `next_retry_at` lies ahead, whether the transition period is over, the copy in the archive |
| `loop` | the poll loop: phase, rows listed, row at work, whether its session's transaction is still that of the listing |
| `retrieval` | a request to retrieve a document |

`Discover`, `List`, `Lock`, `CopyDocument`, `NotRendered`, `CopyCase`, `Verify`,
`MarkArchived`, `Release` are the phases for documents and cases
(`_archival_poll_loop`, `run_active_transfers_tick` with `advance_transfer`,
`run_case_transfers_tick` with `advance_case_transfer`). `Inspect`, `CheckAgain`,
`DeleteLive`, `MarkDehydrated`, `Record` are `run_dehydration_tick`, with the calls
to document-service and storage-service one by one. `Retrieve`, `Restore`,
`MarkRehydrated`, `RecordRetrieval` are the retrieval, `RetryTransfer` the manual
retry. `CloseCase` is the snapshot of case-service, `CheckIn`, `SetHold` and
`RequestArchive` are users. `CannotPack`, `CallFails`, `DiscoveryFails`,
`DehydrationFails`, `RetrievalFails` and `Crash` are what goes wrong.

`StepFails` needs its explanation. The handler of an exception rolls the session
back and then counts the attempt. A rollback of an open transaction expires every
row the session has loaded, so that `transfer.id` in the handler is a refresh
outside the async context and raises: the phase ends, and nothing is counted.
After a commit there is no open transaction, nothing expires, and the attempt is
counted. `loop.txn` tells the two apart.

`LateEdits = FALSE` says that nobody checks a version in once a document is due,
and `Overlapping = FALSE` that a retrieval does not run during a dehydration; the
code enforces neither (section 15).

Properties: `EveryVersionKept`, `PackageIsClosure` (invariants), `DueIsReleased`,
`DehydrationSettles` (liveness).

Abstracted: encryption and formats; a copy or a package is read in one step; the
closure of a case is one step, although case-service asks for its references one
by one over HTTP before it commits; the exclusion of documents in the trash; the
pause under maintenance mode; the import and export endpoints. A rendition that
fails and is tried again counts among the calls that fail.

## 12 Runs and bounds

| run | instance | checks | what the bounds make happen |
|---|---|---|---|
| `Copies_async` | 1 key, 3 live targets of which `c` reads unreliably, `primary_async`, 2 uploads, 2 faults, 2 attempts, with both CronJobs | `ConfirmedCopiesFaithful`, `ReadsAcknowledged`, `AlwaysRecoverable`, `PermanentIsAlerted`, `OwedCopiesSettle` | an upload answered while two copies are owed; a second upload of the key; a copy given up on; sweep, check and upload at once, each losing its commit |
| `Copies_archive` | 2 keys of which one is an archive copy, 2 live (one governed) and 2 archive targets, `quorum` of 2, one upload, removal and fault each, one lock period | `LockHonoured`, `QuorumHolds` | a removal while the lock runs and after it, with and without bypass; an upload undone because one target of the quorum refused |
| `Copies_healing` | 1 key, 3 targets, 1 upload, one damaged medium, 3 attempts, both CronJobs | `DamageHeals` | damage on the primary or on a copy, before and after the replication of the others |
| `Targets` | a regular, b regular or archive, z archive; 2 keys; 3 changes, one swapped device, 2 starts | `TargetsTypeOK`, `SwapsDetected`, `UploadsPossible`, `RowsFollowTargets`, `NothingStranded` | retirement, role change and return of one target; a refused or degraded start after a swap; re-identification |
| `Audit_chain` | 4 events on 2 subjects, one of them a forced deletion; every chain an older release can have left; 2 faults | `ChainVerifies`, `AckedIsRecorded`, `ImplementsLog`, `EventsRecorded` | two handlers at the head of the chain; a stop inside a handler and the start of the next release; a redelivery after commit, after the ledger line, after a lost acknowledgement |
| `Permissions` | one client, principal, group, role; a root, a folder, a document; 1 change of roles, groups or assignments, 1 lock, 2 moves, 1 fault | `TypeOK`, `ImplementsAccess`, `MirrorCatchesUp` | a check between any two changes; a move delivered before or after another one, or twice |
| `Approvals_serial` | 3 requests (break-glass, a role, a forced unlock), 2 people, 1 fault | `OnlyApprovedExecuted`, `DecisionIsFinal`, `BreakGlassNeedsTwo`, `ApprovedTakesEffect` | redelivery after the effect was undone; the requirement switched off between request and decision; a direct execution meanwhile |
| `Checkin` | 2 users, 4 versions, 1 fault | `NoLostUpdate`, `VersionsRetrievable`, `CheckinEndsSession`, `ImplementsHistory` | takeover of an expired lock, forced unlock, then a check-in from the old base; a check-in repeated after a lost answer |
| `Retention` | 2 documents of 2 versions, one of them locked, at most one a copy of the other; 2 edits, 1 fault | `Accounted`, `HoldHonoured`, `OverdueIsHandled` | an erasure by the loop, by the consumer and by an administrator of one document at once; a hold set during the tick; a blocked object; a crash between two objects |
| `Federation` | 1 task, 2 handovers, 2 attempts, 2 operator retries, 5 faults | `PayloadKept`, `ImplementsExchange`, `RetriesEnd` | five lost answers, failures or restarts exhaust both legs with an operator retry in between; two dispatches of one task |
| `Archival` | a document, a case that refers to it, 2 versions, 2 attempts, 1 hold, 1 retrieval or retry, 2 faults | `EveryVersionKept`, `PackageIsClosure`, `DueIsReleased`, `DehydrationSettles` | every call of pipeline and retrieval failing, twice in a row; a hold between the two looks at it; a crash between deletion and mark; two transfers of one document |
| `Checkin_race` | 2 users, 3 versions, check-ins overlap | `NoLostUpdate`, violated | section 15 |

`CHECK_DEADLOCK FALSE` stands where a run ends because its bounded counters are
used up: the storage runs, `Audit_chain`, `Permissions`, `Federation`, `Archival`.
The others are checked for deadlock too: their people can always go on.

Why small instances are enough. Keys, documents, requests and tasks share no state
except where a batch, a list or a chain joins them, and those cases have two of
them (`Copies_archive`, `Audit_chain`, `Retention`, `Approvals_serial`) or are
proved for any number (section 14). A bound on faults, edits or retries cuts off
only how often the environment acts; two of each are enough for one fault to hit
the recovery from another. Bounds that are limits of the code (attempts) are
reached in every run that has them. Where a run is smaller than one would like,
the reason is the time TLC takes for the next larger one.
`PROJECT.json` gives for every property a mutant of the code under which TLC
finds it violated in the same run, so each bound is large enough for its property
to fail.

## 13 Fairness

Nothing is assumed of users, administrators, faults, crashes or damage, of which
the bounds allow finitely many. Liveness therefore says that the system recovers
once errors stop, not that it makes progress under an endless series of them.

- *StorageCopies.* An upload in flight goes on, the replication CronJob keeps
  calling and a sweep in flight goes on, a backoff ends. The CronJob runs every
  few minutes with `concurrencyPolicy: Forbid` (`storage-cronjob.yaml:24-80`); a
  sweep that is lost is followed by the next call. `HealingSpec` adds the
  verification CronJob (`storage-cronjob.yaml:81-140`). Weak fairness is enough:
  every step that matters stays enabled until it is taken.
- *AuditChain.* A stopped service is started again, subscribes, and gets every
  message that is not acknowledged; a handler goes on. `Acquire` is strongly
  fair: `asyncio.Lock` wakes its waiters in order, so a handler is not passed
  over for ever while others take the lock.
- *Approvals.* A message that was not acknowledged is delivered again and again
  (strong fairness per request, because a delivery is only possible while the
  service is idle); a handler ends in one of its three ways.
- *DocumentRetention.* The poll loop keeps running, an erasure in progress goes
  on, a governance lock comes to its end.
- *Permissions.* A check in progress goes on; structure events are delivered, and
  delivered again after a failure (strong fairness, for the same reason as above).
- *Federation.* The retry loop of the hub comes by whenever something is due
  (strong fairness: it may be due only between two other jobs on the row); a call
  that was sent is handled or lost, a job commits, a result that was posted to the
  hub reaches its handler.
- *Archival.* The poll loop and a retrieval go on, a backoff and the transition
  period end, a rendition gets ready.
- DocumentCheckin and StorageTargets have no liveness: nothing there happens
  unless a user or an administrator wants it.

`DamageHeals` is checked with rot as the only fault. With one failed write on top
it does not hold: a rotten copy that no check has visited is still "ok", serves
as the sweep's source and overwrites the copy that is being repaired, because the
sweep does not verify what it read (`replication.py:342`). The service promises
nothing for that case.

## 14 Proofs

All are checked by TLAPS for every value of the constants that the named
assumption of the module allows: no bound on keys, targets, events, documents,
users, requests, faults or attempts.

| theorem | says | assumes besides |
|---|---|---|
| `StorageProofs!TypeCorrect` | `[]TypeOK` | - |
| `StorageProofs!NeverGivenUpSilently` | `[]PermanentIsAlerted` | - |
| `StorageProofs!AsyncCopiesFaithful` | `[]ConfirmedCopiesFaithful` | `primary_async`, write-once keys |
| `StorageProofs!AsyncAlwaysRecoverable` | `[]AlwaysRecoverable` | moreover, no damaged medium |
| `StorageProofs!AsyncReadsAcknowledged` | `[]ReadsAcknowledged` | moreover, a target that confirms PUTs tells errors from "not found" |
| `StorageProofs!FreshPutsReachQuorum` | `QuorumHolds` | fresh keys |
| `StorageProofs!RepeatedPutsReachQuorum` | `QuorumHolds` | write-once keys, no damaged medium, no removal of a key beside a PUT of it |
| `StorageProofs!FreshLocksHonoured` | `LockHonoured` | fresh keys, `QuorumOfAll` |
| `StorageProofs!PutOnceIsFresh` | keys are fresh | one PUT of each key |
| `StorageProofs!TargetsTypeCorrect` | `[]TargetsTypeOK` | - |
| `StorageProofs!UploadsStayPossible` | `[]UploadsPossible` | one admin |
| `StorageProofs!RetiringStrandsNothing` | `NothingStranded` | one admin, `Exclusive` |
| `StorageProofs!RowsAlwaysFollow` | `[]RowsFollowTargets` | one admin, `Exclusive`, leave to start degraded is not withdrawn |
| `StorageProofs!SwapsAreDetected` | `SwapsDetected` | archive targets stay archive targets, starts identify what they serve |
| `StorageProofs!StrictStartsIdentify` | starts identify what they serve | no leave to start degraded |
| `AuditChainProofs!TypeCorrect` | `[]TypeOK` | - |
| `AuditChainProofs!ChainAlwaysVerifies` | `[]ChainVerifies` | `~DirectUpgrade` |
| `AuditChainProofs!NothingAcknowledgedIsMissing` | `[]AckedIsRecorded` | `~DirectUpgrade` |
| `AuditChainProofs!ImplementsAbstractLog` | `ImplementsLog` | `~DirectUpgrade` |
| `PermissionsProofs!TypeCorrect` | `[]TypeOK` | - |
| `PermissionsProofs!AnswersAsGranted` | `ImplementsAccess` | `~Overlapping` |
| `ApprovalsProofs!TypeCorrect` | `[]TypeOK` | `Serialised` |
| `ApprovalsProofs!OnlyApprovedIsExecuted` | `[]OnlyApprovedExecuted` | `Serialised` |
| `ApprovalsProofs!DecisionsAreFinal` | `DecisionIsFinal` | `Serialised` |
| `ApprovalsProofs!BreakGlassTakesTwo` | `BreakGlassNeedsTwo` | `Serialised` |
| `DocumentCheckinProofs!TypeCorrect` | `[]TypeOK` | `~Overlapping` |
| `DocumentCheckinProofs!NoUpdateIsLost` | `[]NoLostUpdate` | `~Overlapping` |
| `DocumentCheckinProofs!EveryVersionIsRetrievable` | `[]VersionsRetrievable` | `~Overlapping` |
| `DocumentCheckinProofs!CheckinReleasesLock` | `CheckinEndsSession` | - |
| `DocumentCheckinProofs!ImplementsVersionHistory` | `ImplementsHistory` | `~Overlapping` |
| `DocumentRetentionProofs!TypeCorrect` | `[]TypeOK` | - |
| `DocumentRetentionProofs!ErasuresAreAccounted` | `[]Accounted` | - |
| `DocumentRetentionProofs!HoldsAreHonoured` | `HoldHonoured` | - |
| `FederationProofs!TypeCorrect` | `[]TypeOK` | `~Overlapping` |
| `FederationProofs!PayloadsAreKept` | `[]PayloadKept` | `~Overlapping` |
| `FederationProofs!ImplementsAbstractExchange` | `ImplementsExchange` | `~Overlapping` |
| `ArchivalProofs!TypeCorrect` | `[]TypeOK` | `~LateEdits` |
| `ArchivalProofs!NothingIsLost` | `[]EveryVersionKept` | `~LateEdits` |
| `ArchivalProofs!PackagesAreClosures` | `[]PackageIsClosure` | `~LateEdits` |

The additional assumptions hold in the runs that check the property (except that
`Targets` allows degraded starts, which need a fourth start to break
`SwapsDetected`), and for those that matter section 15 shows what happens without
them. Of the type invariants, all proved, only those of `Targets` and
`Permissions` are also checked by a run.

*StorageCopies, types.* Inductive as it stands, with one lemma per kind of helper
(`RecordCopy`, `Flushed`, `WrittenRow`).

*Alerts.* `PermanentIsAlerted` is not inductive: a sweep carries
`failed_permanent` rows before it commits them. The invariant adds that each such
row of `sweep.mine` has been announced, and that a fixity check carries one only
if it loaded it from a committed row.

*Faithful copies.* That a committed "ok" row has the right bytes depends on every
request in flight. `CopyInv` is the conjunction of

- `TypeOK`;
- `BytesInv`: metadata, bytes on a backend, the content of an upload and what the
  sweep holds are all the one content of their key (or nothing, or damage), and
  no upload is being undone;
- `ReachInv`: a target that is not meant for a key has no row for it, and no
  request works on one;
- `RemovalInv`: a removal in flight concerns live targets, and is either known to
  `erased` or the dehydration of an archived key;
- `KeptInv`: behind every row that is "ok", committed or carried by a sweep or a
  check, and behind every target an upload has written, the bytes are there
  unless the key was erased.

The steps of `Next` are treated once in lemmas (`StepKinds`, the frames of each
kind of request, `UploadOutcome`, `DiskOutcome`, `SweepHeld`, `BytesStep`,
`ReachStep`, `RemovalStep`, `KeptStep`) that say what a step can do to one part of
the state, so that the theorem has no case analysis of its own.

*Recoverability.* `FirstInv` says that all targets a PUT writes before it answers
have a row and bytes once the key is acknowledged, whatever their status. Nothing
short of a removal takes either away, which is why an object stays recoverable
even when every row has been marked "failed".

*Reads.* `ReadsAcknowledged` needs one target whose row stays "ok". `OkInv` says of
every target in `Steadfast(k)`, those that a PUT writes before it answers and
that report an outage as an outage, that its row is "ok" as soon as it is there,
that the sweep never has it on its list, and that a fixity check expects exactly
what was stored, so that it finds what it expects. The hypothesis excludes what
section 15.1 shows: an S3 backend that answers "not found" during an outage loses
the row its "ok", and GET answers 404.

*Write-once keys* are those of document versions: `_object_key` of
document-service (`main.py:219`) makes the checksum of the content a part of the key.
So a check-in of a content that the document had before is a second PUT of its
key, with the same bytes.

*Quorum.* `QuorumHolds` rests on `HasWritten`: what an upload has written it finds
where it wrote it when it commits. Two theorems differ in what they ask of the
callers. `FreshPutsReachQuorum` is about PUTs of keys that have no object and never
were asked to lose one (`PutsAreFresh`), which may fail and be repeated; it allows
removals at any time, damaged media and callers that send other bytes, because
`FreshInv` says that such an upload has its key to itself (`Untouched`: no row, no
removal, no sweep). `RepeatedPutsReachQuorum` allows any number of PUTs of a key
whatever its history; then the sweep may write beside the upload, and `ApartInv`
says that all it can write are the same bytes. A removal beside the upload has to be
excluded (`PutsApart`; section 15.1 shows it). `PutOnceIsFresh` shows that the
instance of `Copies_archive` satisfies the first hypothesis.

*Locks.* `LockHonoured` is proved for fresh PUTs. `DatesInv` says that all that is
known of a key's retention date, in rows, in the sweep's session and in what the
sweep has read, is one date; `NoLockInv` that a removal in flight that bypasses no
lock meets none. The second needs the first: a row that changes while a removal
is in flight brings no date that the guard did not see. This is where `QuorumOfAll` is
needed (section 15.1): with a smaller quorum a target that missed it has no date
yet when the guard looks. A second PUT of a key may bring a new date after the
guard has looked (section 15.1 again).

*StorageTargets.* `ServingInv` says that what the database says can always be
served, that the request in flight would leave it so, and that while nothing is
between commit and assignment the process serves just that. It is what makes a
restart succeed after a stop between any two parts of a request, and it is where
one admin is needed: each of two requests checks against a database the other is
about to change. `ElsewhereInv` says that as long as a retirement is in flight
every object with a confirmed copy has one elsewhere; the sweep goes on meanwhile,
but what it adds has a source. `RosterInv` (only listed targets are changed,
identified and served, and only to roles somebody asked for) and `OwedInv` (an
identified target that the database puts in service has a row for each object, a
retired one has none) give `RowsFollowTargets`; they speak of the database, since
the process serves targets whose rows a request seeded earlier. `DeviceInv` says
that where the marker on a device is the recorded one, what the database calls
"ok" is on it, and that a regular target without identity has no rows. It holds
for any number of admins at once and beside object requests (no `Exclusive`), but not
when a start goes on without having identified a target it serves, nor for
archive targets, which are never checked: both are in section 15.1. A service
that was never given leave to start degraded satisfies the hypothesis
(`StrictStartsIdentify`); with leave, it says that a target that was never seen
is not in service.

*AuditChain.* `Inv` is the conjunction of `TypeOK`; `LockHeld` (a handler between
head and commit holds the lock); `HeadRead` (the head it read is still the head, and its event is not in
the chain); `AfterCommit` (a handler past its commit has its event in the chain,
and past the ledger line in the ledger); `CutoversSet` (the cutovers of a running
service are those of the rows older releases left); `Chained` (the chain verifies
with these cutovers); and `AckedIsRecorded`. `LockHeld` and `HeadRead` are what makes the insert of one
handler safe against the others; the refinement maps `Commit` to an append, the
ledger line to a registration, and everything else to a stutter.

*Permissions.* `AccessInv` is `TypeOK`, which has the hierarchy without dangling
parents, `CacheInv` (an entry of the cache says what the roles of the moment say) and
`CheckInv` (a request that found an entry holds what it is due; one that climbs
has found a part of it, and `Remaining`, what the nodes still above it give, is
the rest). The one fact about data it needs is `EffectiveUnfolds`: what a resource
receives is what is granted at the node and, if it inherits, what its parent
receives. It is proved without induction, because `AccessControl` defines the
nodes that inheritance reaches as a least set closed under parents. The climb also
ends in a hierarchy with cycles of parents, which the types do not exclude.
`CacheInv` holds because every operation that changes rows clears the cache in the
same step, and `CheckInv` needs `~Overlapping`, without which a change falls
between two steps of the climb.

*Approvals.* `IInv`: `TypeOK`; `OneDecision` (no request has two decisions under
way); `UnderWay` (a decision that has read "pending" finds it so, is not by the
initiator if it approves, and stands in the row once committed); `Announced` (what
a published message approves stands in the row); `Executed` (so does what was
executed). A message delivered again finds the row as it was, because the row of
a decided request never changes: that is `DecisionsAreFinal`.

*DocumentCheckin.* `IInv`: `TypeOK`; `InOrder` (versions are numbered in order, and
each main version is based on the one before it); `Stored` (the content of each
is in the storage); `Alone` (one user is checking in); `Prepared` (what a check-in
has read is still current, and the row it is about to write is the right next
one). `NoUpdateIsLost` and `EveryVersionIsRetrievable` follow from `InOrder` and
`Stored`. In the refinement `Commit` adds a main version or a conflict copy, with
a number that `Prepared` says is fresh; everything else stutters.
`CheckinEndsSession` has an invariant of its own, `SessionInv`, and no assumption:
a check-in that has looked at the lock either ends its user's lock with its
commit or the user has none, and a user whose check-in is under way takes no new
one, however many others do.

*DocumentRetention.* `IInv`: `TypeOK`; `Accounted`; `Remaining` (what is left of a
document that is being deleted is on the list of every worker that deletes it,
so that the one that commits leaves nothing behind); `Clear` (what the loop is
deleting was not under a hold when it was listed).

*Federation.* `IInv`: `TypeOK`; `OneCall` (who waits for an answer waits for one
call); `Begun` (before the hub knows a handover nobody works on it); `OneJob`;
`Backed` (a repeated attempt was begun with its payload in the cache, and finds it
there as long as the row is); `PayloadKept`; `Sole` (a task is dispatched once);
`Answered` (only what has been done elsewhere is on its way back, and a task that
is done was done there). `PayloadKept` needs `OneJob` and `Backed`: the only step
that drops a payload is the success of a repeated attempt, and nobody else may be
about to write a status that asks for it. The refinement maps `TaskReady`,
`InboundAccepted`, `WorkDone` and `ResultAccepted` to the four abstract steps and
everything else, lost calls and restarts included, to a stutter; that a process
is started only for a task still waiting for one is `Sole` with `Answered`.

*Archival.* `IInv`: `Typed`; `RowsFine` (only what is due is transferred, and what
was taken for a document is its current version, for a case its closure);
`ClosedFirst` (no open case is due); `Contents` (a live object has the content of
its version or none; only the current version may have none, and then a
retrievable row has it); `PackageIsClosure`; `LoopFine` and `RetrievalFine` (the
rows that loop and retrieval have listed are still what they were listed as, and
the version they are about to delete or write back is the current one).
`NothingIsLost` is `RowsFine` with `Contents`. It needs no assumption on
`Overlapping`: a retrieval beside a dehydration leaves a wrong mark, which only
the liveness property sees, but no content goes.

*Only model-checked.* The liveness properties `OwedCopiesSettle`, `DamageHeals`,
`EventsRecorded`, `ApprovedTakesEffect`, `OverdueIsHandled`, `MirrorCatchesUp`,
`RetriesEnd`, `DueIsReleased` and `DehydrationSettles`: a proof from fairness needs
ENABLED, which the prover does not handle. Every invariant, action property and
refinement that a run checks and that holds is proved. No module defines data by
recursion, so nothing is left to induction over data.
## 15 Divergences between code and documentation

The run `Checkin_race` shows one: `docs/adr/0002-document-locking-optimistic-conflict-detection.md:43`
says that the conflict copy protects against "every conceivable race", two check-ins
without a lock for one. The
code compares the base with the main version it read before scan and upload
(`repository.py:886` of document-service) and does not look again, so that two
overlapping check-ins both become main versions and the later one displaces the
earlier one unseen.

The others were met while modelling; a dash stands where no document says anything.
Each can be seen by running the named module
with the constants of its run changed as given, or was read from the code.

### 15.1 storage-service

| what the documentation says | what the code does | seen with |
|---|---|---|
| "the failed targets remain as a diagnostic entry" (`docs/adr/0004-storage-redundancy-scope.md:46`) | the handler rolls the session back, rows and all (`main.py:603`) | `QuorumMissed`, `UploadRollback` |
| "After ``max_attempts`` unsuccessful attempts, a copy is considered permanently failed" (`replication.py:307`) | without a confirmed source the limit is not looked at (`replication.py:327`) | `Copies_async` with the invariant `RetriesEnd` |
| "After this many unsuccessful replication attempts" (`settings.py:99`) | successful attempts are counted too and nothing resets the count (`replication.py:390`) | `RecordCopy` |
| `DELETE /objects/{key}` "removes really all copies" (`main.py:520`) | the bytes on archive targets stay, without a row | `RemovalBegin` |
| the guard "blocks deletion as long as" a lock runs (`main.py:642`) | it is asked before the deletion only; a PUT with `retain_until` in between loses its locked copies | `Copies_archive`, `LockHonoured`, `MaxUploads = 2` |
| - | a copy that missed the quorum has no retention date until the sweep gives it its source's (`replication.py:397`); a DELETE that passed the lock guard before that removes the row under the lock that runs now | `Copies_archive`, `LockHonoured`, with one key and `QuorumCount = 1` |
| "404 if no copy is available" (`docs/services/storage-service.md:13`) | S3 client errors during fixity checks mark every copy "failed", and GET answers 404 although every target has the object (`s3_backend.py:73`) | `Copies_async`, `ReadsAcknowledged`, `FlakyReads = Live` |
| - | a quorum upload that is refused deletes what it wrote (`replication.py:86`): when the key had an acknowledged object with the same bytes, its copies go too, while the rows are rolled back to "ok" | `Copies_async`, `ReadsAcknowledged`, under `Spec` with `Live = {a, b}`, `FlakyReads = {}`, `Strategy = "quorum"`, `QuorumCount = 2`, `MaxUploads = 3` |
| - | a DELETE beside a second PUT of a key takes the bytes that PUT has written; it is answered all the same, without its quorum (`main.py:669`) | `Copies_archive`, `QuorumHolds`, with one key, `MaxUploads = 2` |
| - | a sweep that has read its source writes the bytes again after the DELETE was answered; no row says so (`replication.py:352`) | `SweepWrite` after `RemovalCommit` |
| `422` if the change "would strand an object's only confirmed copy" (`storage-service.md:28`) | the count precedes the commit and locks nothing (`main.py:1041`) | `Targets`, `NothingStranded`, `Exclusive = FALSE` |
| `422` if the quorum "cannot be satisfied" (`storage-service.md:25`) | each of two requests checks against what the other is changing (`main.py:858`) | `Targets`, `UploadsPossible`, two admins |
| the result is written "immediately back to `app.state`" (`main.py:976`) | two requests may read the overrides in one order and assign in the other (`main.py:1074`) | `TargetReload`, `TargetApply`, two admins |
| the guard "checks the device identity for every configured target" (`main.py:100`) | archive targets are left out (`main.py:233`); one that becomes a regular target after its device was swapped is stamped and keeps its confirmed rows | `Targets`, `SwapsDetected`, with `Roles[z] = {"regular", "archive"}`, `MaxStarts = 3` |
| each start "compares, for each target, the marker file against the DB reference value" (`docs/adr/0017-storage-device-identity-guard.md:11`) | a target that did not answer at its first, degraded start serves uploads without an identity; a device that replaces it is adopted at the next start and passes from then on (`identity_guard.py:55`) | `Targets`, `SwapsDetected`, with `Roles[t] = {EnvRole[t]}`, `MaxStarts = 4` |
| a new target is seeded with pending copies of all objects (`identity_guard.py:62`) | one that did not answer at its first, degraded start and is then re-identified has an identity and is never seeded | `RowsFollowTargets` without `~degraded` in `Steady` |

(Under `src/services/storage-service/src/storage_service/`.)

### 15.2 audit-service and permission-service

| what the documentation says | what the code does | seen with |
|---|---|---|
| - | the first start of a release that knows `audit_meta`, over one that knew none of its columns, takes the default `on_behalf_of` cutover 0 for a computed one, so that verify_chain rejects the old rows (audit-service `repository.py:67`) | `Audit_chain`, `ChainVerifies`, `DirectUpgrade = TRUE` |
| "a second decision is not possible" (permission-service `repository.py:32`) | approve and reject read and write without a lock: both succeed when they overlap (`repository.py:1218`), and a request that ends as rejected is executed | `Approvals_serial`, `DecisionIsFinal`, `OnlyApprovedExecuted`, `Serialised = FALSE` |
| - | a stop between the commit of the decision and its event leaves it approved for ever (`main.py:968`) | `DecisionLost` |
| "any resource hierarchy of any depth self-heals" (`docs/services/permission-service.md:279`) | the deletion of a node that an assignment or a lock refers to, or of an ancestor of one, raises on every delivery (`structure_consumer.py:49`) | `Permissions`, `MirrorCatchesUp` without `Refused` |
| the cache is cleared on every change, "the result stays correct" (`models.py:129`) | an answer computed before a change and inserted after the change cleared the cache stays (`repository.py:1002`) | read from the code; a check and its INSERT are one step in `Permissions` |

### 15.3 document-service

| what the documentation says | what the code does | seen with |
|---|---|---|
| "Legal hold overrides any due action" (`docs/services/document-service.md:449`) | a forced deletion that was approved does not ask for a hold set since (`consumer.py:119`) | `EraseApproved` |
| "a single broken document doesn't stop retention monitoring for all others" (`main.py:276`) | an erasure that raises ends the tick; the next tick meets the same document first. The original of a copy (`derived_from_document_id`) can never be erased, so the others wait for ever | `Retention`, `OverdueIsHandled` without `derived = {}` |
| - | an approval for an erasure is asked for again after a failed commit, never again after a rejection (`main.py:240`) | `AskForErasure` |
| - | two may take over one expired lock, and a release may delete somebody else's (`repository.py:814`) | `Checkin`, `Overlapping = TRUE` |

### 15.4 federation-hub-service and workflow-service

| what the documentation says | what the code does | seen with |
|---|---|---|
| "prevents double-dispatching the same" task (`models.py:264` of workflow-service) | two requests that see no row dispatch it twice | `Federation`, `ImplementsExchange`, `Overlapping = TRUE` |
| - | when the hub cannot be reached, the outbound row is committed all the same and nobody dispatches the task again (`main.py:694` of workflow-service) | `DispatchCommits` |
| - | "delivery_failed": a delivery whose answers were lost ends so although the process was started | the status of `hub[h]` beside `target[h]` |
| - | two operator retries at once may lose the payload | `Federation`, `PayloadKept`, `Overlapping = TRUE`, two `Operators` |
| - | a handover that was "pending" when the hub stopped stays so | `HubRestarts` |
| - | a result overtaken by a late delivery's commit is forgotten (hub `repository.py:331`) | `Federation`, `RetriesEnd`, `Overlapping = TRUE`, `MaxFaults = 1`, `MaxRetries = 0` |

### 15.5 archival-service

| what the documentation says | what the code does | seen with |
|---|---|---|
| a retrieval writes back "under exactly the same storage key as the current version" (`main.py:327`) | of the version that is current by then: one checked in since the copy is overwritten by the older content | `Archival`, `EveryVersionKept`, `LateEdits = TRUE` |
| - | a retrieval beside a dehydration marks it rehydrated in between | `Archival`, `DehydrationSettles`, `Overlapping = TRUE` |
| a document never has two transfers under way (`repository.py:37`) | a transfer that used up its attempts, a second one by discovery, and an operator's retry of the first are two | `RetryTransfer` |
| the tick marks a transfer whose conversion failed as failed (`pipeline.py:21`) | a rendition that is "failed_permanent" is not recognised (`pipeline.py:69`): the transfer waits for ever | `Archival`, `DueIsReleased`, `Unrenderable = {<<d, 1>>, <<d, 2>>}`, `MaxFaults = 0` |
| "an error in one transfer does not abort processing of the remaining transfers" and increments `attempts` (`docs/services/archival-service.md:10`, `:36`) | while the transaction of the listing is open, the rollback expires the rows, the handler raises on `transfer.id`, the phase ends and nothing is counted (`pipeline.py:204`) | `StepFails` |
| - | a document may be dehydrated from a due list that is older than its retrieval; a hold may be set between the second look and the deletion | `List`, `DeleteLive` |
| - | a case whose documents were dehydrated before it was packaged can never be packaged | `CannotPack` |
| the download path "continues to work unchanged" (`main.py:328`) | what comes back is the PDF/A rendition, under the key and type of the original | `Restore` |

### 15.6 Read from code that is not modelled

- *migration-service.* "auditable, resumable workflow"
  (`docs/services/migration-service.md:6`): once the target has recorded the
  announcement in `inbound_transfer` under the transfer's id, a repeated copy
  meets the primary key and fails, so that a copy that failed after it can never
  be repeated. `_fail_transfer` reads `transfer.id` after a rollback that expired
  it, and "failed" is not persisted.
- *workflow-service.* "so a single broken blob doesn't stop SLA monitoring"
  (`main.py:178`): a connector step that raises aborts the tick before its one
  flush, so that the timers of all other instances starve, and steps of other
  instances that were executed in the aborted tick are executed again.

## 16 Limits of the models

- *Contents* are model values and checksums are injective; file formats, streaming
  and encryption are left out.
- *StorageCopies*: the `limit` of list_pending_copies and the choice of objects by
  `next_verify_at` are abstracted: the sweep takes every due copy, the check any
  set of objects. `object_lock_mode` is a constant set of governed targets; that
  an administrator changes it in flight is left out. Events other than the alert
  are left out: nobody in the service reads them.
- *StorageTargets* has no retention dates and no backoff.
- *AuditChain*: what an event says is left out except for the fields whose
  presence depends on the release.
- *Permissions*: delegations, supervisors and directory groups are left out, and a
  check is atomic with the INSERT of its answer (section 15.2). `Overlapping =
  FALSE`: grants do not change while a check climbs the hierarchy.
- *Approvals*: of the actions that can require approval, one for each service
  that executes them, and their direct counterparts.
- *DocumentCheckin*: uploads happen in one step; deletion of versions is
  DocumentRetention's subject. `Overlapping = FALSE` lets one check-in be between
  reading and commit.
- *DocumentRetention*: without the reminder phase and the pause under maintenance
  mode.
- *Federation*: the status the origin shows is left out, because nothing reads it;
  authentication, versions and revoked installations appear as calls that fail;
  backoff times are left out; one operator request per handover at a time.
- *Archival*: see the end of section 11. A reference that is added to a case while
  it is being closed, and so gets no snapshot, and a case completed by its
  creation are left out.

## 17 Not modelled

Section 1.2 and the components of `PROJECT.json` give the reasons one by one. In
short: protocol adapters, user interfaces and thin wrappers of external engines
keep no state of their own; plain CRUD has no behaviour that a test would not
reach; cryptography is outside what TLA+ can say something about. What remains,
and has behaviour worth a model, are migration-service, the trash of folder-service,
the process engine of workflow-service and the placements of
plugin-orchestration-service.

## 18 How to run

    tlc -workers 2 -config Copies_async.cfg MCStorageCopies
    tlapm StorageProofs.tla

`PROJECT.json` names the module of each run, its properties, and for each
property a mutant: a changed definition under which TLC finds it violated. The
mutants are defined beside the definitions they change, under a name that says
what is wrong with them. The longest runs are `Archival` and `Copies_archive`, with two to
three minutes each.
