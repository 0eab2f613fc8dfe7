------------------------------ MODULE Archival ------------------------------
(***************************************************************************)
(* Records disposal: archival-service copies due documents and closed      *)
(* cases to the archive, takes the content of disposed documents off the   *)
(* live storage after a while, and brings it back on request.              *)
(*                                                                         *)
(* One poll loop does the copying and the taking away, one call after the  *)
(* other to document-service, case-service and storage-service; what it    *)
(* must remember is the status of a transfer row, committed phase by       *)
(* phase.  Meanwhile users check versions in, and operators place holds,   *)
(* retry transfers and retrieve documents.                                 *)
(***************************************************************************)
EXTENDS Naturals, FiniteSets, Sequences, SequencesExt

CONSTANTS
    Documents, Cases,
    RefsOf,         \* RefsOf[c]: the documents case c refers to
    None,           \* no content
    Unrenderable,   \* <<d, v>>: rendering-service gave up on the rendition of v
    MaxAttempts,    \* max_archival_attempts
    LateEdits,      \* whether a document is checked in after it became due
    Overlapping,    \* whether a retrieval runs during a dehydration
    MaxVersions,    \* bound: versions of a document
    MaxHolds,       \* bound: legal holds placed
    MaxRequests,    \* bound: retries and retrievals by operators
    MaxFaults       \* bound: failed calls and crashes

Items == Documents \cup Cases
Versions == 1 .. MaxVersions

ASSUME ArchivalAssumption ==
    /\ IsFiniteSet(Documents) /\ IsFiniteSet(Cases) /\ Documents \cap Cases = {}
    /\ RefsOf \in [Cases -> SUBSET Documents]
    /\ None \notin Versions
    /\ Unrenderable \subseteq Documents \X Versions
    /\ MaxAttempts \in Nat \ {0} /\ MaxVersions \in Nat \ {0}
    /\ LateEdits \in BOOLEAN /\ Overlapping \in BOOLEAN
    /\ MaxHolds \in Nat /\ MaxRequests \in Nat /\ MaxFaults \in Nat

VARIABLES
    due,            \* archive_after has passed
    archived,       \* archived_at is set
    current,        \* current[d]: current_version_number
    dehydrated,     \* dehydrated[d]: dehydrated_at is set
    held,           \* held[d]: a legal hold is active
    snapshot,       \* snapshot[c]: the version of each reference at closure
    live,           \* live[d][v]: the version whose content the live object of v has
    rendered,       \* <<d, v>>: the PDF/A rendition of version v is ready
    transfers,      \* the transfer rows of archival-service
    loop,           \* where the poll loop stands
    retrieval,      \* where the retrieval request stands
    holds, requests, faults

documents == <<due, archived, current, dehydrated, held, snapshot>>
bounds == <<holds, requests, faults>>
vars == <<documents, live, rendered, transfers, loop, retrieval, bounds>>

Active == {"pending", "locked", "copied", "verified"}
Retrievable == {"released", "dehydrated"}
Rows == 1 .. Len(transfers)

NextPhase == [documents |-> "dehydration", dehydration |-> "cases", cases |-> "documents"]
ServedIn == [documents |-> Documents, dehydration |-> Documents, cases |-> Cases]

(* The phases of a tick.  The pause between two ticks is before a listing. *)
(* at: the row being worked on, todo: the rows listed and still to come,  *)
(* txn: the session of the listing is still in its first transaction.     *)
Enter(phase) ==
    [phase |-> phase, pc |-> "discover", todo |-> {}, at |-> 0, txn |-> FALSE, version |-> 0]
Idle == [at |-> 0, pc |-> "idle", version |-> 0, status |-> "released"]

NewTransfer(x) ==
    [of |-> x, status |-> "pending", attempts |-> 0, waits |-> FALSE, aged |-> FALSE,
     copy |-> None]

Init ==
    /\ due = [x \in Items |-> FALSE]
    /\ archived = [x \in Items |-> FALSE]
    /\ current = [d \in Documents |-> 1]
    /\ dehydrated = [d \in Documents |-> FALSE]
    /\ held = [d \in Documents |-> FALSE]
    /\ snapshot = [c \in Cases |-> None]
    /\ live = [d \in Documents |-> [v \in Versions |-> IF v = 1 THEN 1 ELSE None]]
    /\ rendered = {}
    /\ transfers = <<>>
    /\ loop = Enter("documents")
    /\ retrieval = Idle
    /\ holds = 0 /\ requests = 0 /\ faults = 0

Fault == faults < MaxFaults /\ faults' = faults + 1 /\ UNCHANGED <<holds, requests>>

(***************************************************************************)
(* Users of documents and cases.  Nothing in the check-in looks at the     *)
(* state of the disposal; that users leave due documents alone is theirs.  *)
(***************************************************************************)
CheckIn(d) ==
    /\ current[d] < MaxVersions
    /\ LateEdits \/ ~due[d]
    /\ current' = [current EXCEPT ![d] = @ + 1]
    /\ live' = [live EXCEPT ![d][current[d] + 1] = current[d] + 1]
    /\ UNCHANGED <<due, archived, dehydrated, held, snapshot, rendered, transfers, loop,
                   retrieval, bounds>>

CloseCase(c) ==
    /\ snapshot[c] = None
    /\ snapshot' = [snapshot EXCEPT ![c] = [d \in RefsOf[c] |-> current[d]]]
    /\ UNCHANGED <<due, archived, current, dehydrated, held, live, rendered, transfers, loop,
                   retrieval, bounds>>

RequestArchive(x) ==
    /\ ~due[x]
    /\ x \in Cases => snapshot[x] # None
    /\ due' = [due EXCEPT ![x] = TRUE]
    /\ UNCHANGED <<archived, current, dehydrated, held, snapshot, live, rendered, transfers,
                   loop, retrieval, bounds>>

SetHold(d, on) ==
    /\ held[d] # on
    /\ on => holds < MaxHolds
    /\ held' = [held EXCEPT ![d] = on]
    /\ holds' = holds + (IF on THEN 1 ELSE 0)
    /\ UNCHANGED <<due, archived, current, dehydrated, snapshot, live, rendered, transfers,
                   loop, retrieval, requests, faults>>

(* A rendition that failed is retried until it is ready or given up. *)
Render(d, v) ==
    /\ live[d][v] # None /\ <<d, v>> \notin rendered \cup Unrenderable
    /\ rendered' = rendered \cup {<<d, v>>}
    /\ UNCHANGED <<documents, live, transfers, loop, retrieval, bounds>>

(***************************************************************************)
(* Time: the backoff of a failed attempt ends; the transition period of a  *)
(* disposed document passes.                                               *)
(***************************************************************************)
BackoffEnds(i) ==
    /\ transfers[i].waits
    /\ transfers' = [transfers EXCEPT ![i].waits = FALSE]
    /\ UNCHANGED <<documents, live, rendered, loop, retrieval, bounds>>

PeriodPasses(i) ==
    /\ transfers[i].of \in Documents
    /\ transfers[i].status = "released" /\ ~transfers[i].aged
    /\ transfers' = [transfers EXCEPT ![i].aged = TRUE]
    /\ UNCHANGED <<documents, live, rendered, loop, retrieval, bounds>>

(***************************************************************************)
(* The poll loop.                                                          *)
(***************************************************************************)
(* Mutant: a transfer that was given up counts as one. *)
NeverTried(x) ==
    due[x] /\ ~archived[x] /\ ~\E i \in Rows : transfers[i].of = x

Undiscovered(x) ==
    /\ due[x] /\ ~archived[x]
    /\ ~\E i \in Rows : transfers[i].of = x /\ transfers[i].status \in Active

(* Phase 1: a transfer for everything due that has no active one. *)
Discover ==
    /\ loop.phase \in {"documents", "cases"} /\ loop.pc = "discover"
    /\ LET found == SetToSeq({x \in ServedIn[loop.phase] : Undiscovered(x)}) IN
       transfers' = transfers \o [i \in DOMAIN found |-> NewTransfer(found[i])]
    /\ loop' = [loop EXCEPT !.pc = "list"]
    /\ UNCHANGED <<documents, live, rendered, retrieval, bounds>>

Listed(phase) ==
    {i \in Rows :
        /\ transfers[i].of \in ServedIn[phase]
        /\ IF phase = "dehydration"
           THEN transfers[i].status = "released" /\ transfers[i].aged
           ELSE transfers[i].status \in Active /\ ~transfers[i].waits}

(* The next row that was listed is taken up, or the next phase begins. *)
Onward(l) ==
    IF l.todo = {} THEN {Enter(NextPhase[l.phase])}
    ELSE {[l EXCEPT !.pc = "work", !.at = i, !.todo = @ \ {i}, !.version = 0] : i \in l.todo}

List ==
    /\ \/ loop.pc = "list"
       \/ loop.phase = "dehydration" /\ loop.pc = "discover"
    /\ loop' \in Onward([loop EXCEPT !.todo = Listed(loop.phase), !.txn = TRUE])
    /\ UNCHANGED <<documents, live, rendered, transfers, retrieval, bounds>>

(* What the loop has before it: row i, in status s, of a transfer. *)
Working(i, s) ==
    /\ loop.phase \in {"documents", "cases"} /\ loop.pc = "work"
    /\ loop.at = i /\ transfers[i].status = s

Commit(i, row) ==
    /\ transfers' = [transfers EXCEPT ![i] = row]
    /\ loop' = [loop EXCEPT !.txn = FALSE]

Lock(i) ==
    /\ Working(i, "pending")
    /\ Commit(i, [transfers[i] EXCEPT !.status = "locked"])
    /\ UNCHANGED <<documents, live, rendered, retrieval, bounds>>

(* Mutants: the oldest rendition is taken; the current versions are packed. *)
OldestVersionOf(d) == CHOOSE v \in Versions : \A w \in Versions : v <= w
CurrentPackageOf(c) == [d \in RefsOf[c] |-> live[d][current[d]]]

(* The version a document is archived in, and the content a case takes. *)
VersionOf(d) == current[d]
PackageOf(c) == [d \in RefsOf[c] |-> live[d][snapshot[c][d]]]

CopyDocument(i) ==
    LET d == transfers[i].of IN
    /\ Working(i, "locked") /\ d \in Documents
    /\ <<d, VersionOf(d)>> \in rendered
    /\ Commit(i, [transfers[i] EXCEPT !.status = "copied", !.copy = VersionOf(d)])
    /\ UNCHANGED <<documents, live, rendered, retrieval, bounds>>

(* Not rendered yet, or given up: no progress, and nothing committed. *)
NotRendered(i) ==
    LET d == transfers[i].of IN
    /\ Working(i, "locked") /\ d \in Documents
    /\ <<d, VersionOf(d)>> \notin rendered
    /\ loop' \in Onward(loop)
    /\ UNCHANGED <<documents, live, rendered, transfers, retrieval, bounds>>

Packable(c) ==
    \A d \in RefsOf[c] : ~dehydrated[d] /\ live[d][snapshot[c][d]] # None

CopyCase(i) ==
    LET c == transfers[i].of IN
    /\ Working(i, "locked") /\ c \in Cases
    /\ Packable(c)
    /\ Commit(i, [transfers[i] EXCEPT !.status = "copied", !.copy = PackageOf(c)])
    /\ UNCHANGED <<documents, live, rendered, retrieval, bounds>>

Verify(i) ==
    /\ Working(i, "copied")
    /\ Commit(i, [transfers[i] EXCEPT !.status = "verified"])
    /\ UNCHANGED <<documents, live, rendered, retrieval, bounds>>

(* The owner is told first, in a call and a transaction of its own. *)
MarkArchived(i) ==
    /\ Working(i, "verified")
    /\ archived' = [archived EXCEPT ![transfers[i].of] = TRUE]
    /\ loop' = [loop EXCEPT !.pc = "release"]
    /\ UNCHANGED <<due, current, dehydrated, held, snapshot, live, rendered, transfers,
                   retrieval, bounds>>

Release(i) ==
    /\ loop.pc = "release" /\ loop.at = i
    /\ transfers' = [transfers EXCEPT ![i].status = "released"]
    /\ loop' \in Onward([loop EXCEPT !.txn = FALSE])
    /\ UNCHANGED <<documents, live, rendered, retrieval, bounds>>

(***************************************************************************)
(* A step fails.  The rollback that follows expires every row of the       *)
(* session when its transaction is open: the handler then stumbles over    *)
(* transfer.id, the phase ends, and the attempt is not counted.  After a   *)
(* commit there is nothing to roll back, and the attempt counts.           *)
(***************************************************************************)
Counted(row) ==
    IF row.attempts + 1 >= MaxAttempts
    THEN [row EXCEPT !.attempts = @ + 1, !.status = "failed_permanent", !.waits = FALSE]
    ELSE [row EXCEPT !.attempts = @ + 1, !.waits = TRUE]

StepFails(i) ==
    IF loop.txn
    THEN loop' = Enter(NextPhase[loop.phase]) /\ UNCHANGED transfers
    ELSE /\ loop' \in Onward(loop)
         /\ transfers' = [transfers EXCEPT ![i] = Counted(@)]

(* The content of a dehydrated document is refused. *)
CannotPack(i) ==
    /\ Working(i, "locked") /\ transfers[i].of \in Cases
    /\ ~Packable(transfers[i].of)
    /\ StepFails(i)
    /\ UNCHANGED <<documents, live, rendered, retrieval, bounds>>

CallFails(i) ==
    /\ Fault
    /\ loop.phase \in {"documents", "cases"} /\ loop.at = i
    /\ transfers[i].status # "pending"
    /\ StepFails(i)
    /\ UNCHANGED <<documents, live, rendered, retrieval>>

DiscoveryFails ==
    /\ Fault
    /\ loop.phase \in {"documents", "cases"} /\ loop.pc = "discover"
    /\ loop' = Enter(NextPhase[loop.phase])
    /\ UNCHANGED <<documents, live, rendered, transfers, retrieval>>

(***************************************************************************)
(* Dehydration of the current version, once the transition period is over. *)
(***************************************************************************)
Dehydrating(i, pc) == loop.phase = "dehydration" /\ loop.at = i /\ loop.pc = pc

Inspect(i) ==
    LET d == transfers[i].of IN
    /\ Dehydrating(i, "work")
    /\ Overlapping \/ retrieval.at = 0
    /\ loop' \in IF held[d] THEN Onward(loop)
                 ELSE {[loop EXCEPT !.pc = "recheck", !.version = current[d]]}
    /\ UNCHANGED <<documents, live, rendered, transfers, retrieval, bounds>>

CheckAgain(i) ==
    /\ Dehydrating(i, "recheck")
    /\ loop' \in IF held[transfers[i].of] THEN Onward(loop)
                 ELSE {[loop EXCEPT !.pc = "delete"]}
    /\ UNCHANGED <<documents, live, rendered, transfers, retrieval, bounds>>

(* Mutant: the transfer is recorded before the document is marked. *)
DeleteLiveRecording(i) ==
    /\ Dehydrating(i, "delete")
    /\ live' = [live EXCEPT ![transfers[i].of][loop.version] = None]
    /\ transfers' = [transfers EXCEPT ![i].status = "dehydrated"]
    /\ loop' = [loop EXCEPT !.pc = "mark"]
    /\ UNCHANGED <<documents, rendered, retrieval, bounds>>

DeleteLive(i) ==
    /\ Dehydrating(i, "delete")
    /\ live' = [live EXCEPT ![transfers[i].of][loop.version] = None]
    /\ loop' = [loop EXCEPT !.pc = "mark"]
    /\ UNCHANGED <<documents, rendered, transfers, retrieval, bounds>>

MarkDehydrated(i) ==
    /\ Dehydrating(i, "mark")
    /\ dehydrated' = [dehydrated EXCEPT ![transfers[i].of] = TRUE]
    /\ loop' = [loop EXCEPT !.pc = "record"]
    /\ UNCHANGED <<due, archived, current, held, snapshot, live, rendered, transfers,
                   retrieval, bounds>>

Record(i) ==
    /\ Dehydrating(i, "record")
    /\ transfers' = [transfers EXCEPT ![i].status = "dehydrated"]
    /\ loop' \in Onward(loop)
    /\ UNCHANGED <<documents, live, rendered, retrieval, bounds>>

DehydrationFails(i) ==
    /\ Fault
    /\ loop.phase = "dehydration" /\ loop.at = i
    /\ loop' \in Onward(loop)
    /\ UNCHANGED <<documents, live, rendered, transfers, retrieval>>

(***************************************************************************)
(* Operators: another try for a transfer that was given up, and the        *)
(* retrieval of a document, under the key of the version current by then.  *)
(***************************************************************************)
Request == requests < MaxRequests /\ requests' = requests + 1 /\ UNCHANGED <<holds, faults>>

RetryTransfer(i) ==
    /\ Request
    /\ transfers[i].status = "failed_permanent"
    /\ transfers' = [transfers EXCEPT ![i] =
            [@ EXCEPT !.status = "pending", !.attempts = 0, !.waits = FALSE]]
    /\ UNCHANGED <<documents, live, rendered, loop, retrieval>>

Retrieve(i) ==
    LET d == transfers[i].of IN
    /\ Request
    /\ retrieval = Idle
    /\ d \in Documents /\ transfers[i].status \in Retrievable
    /\ Overlapping \/ loop.pc \notin {"recheck", "delete", "mark", "record"}
    /\ retrieval' = [at |-> i, pc |-> "upload", version |-> current[d],
                     status |-> transfers[i].status]
    /\ UNCHANGED <<documents, live, rendered, transfers, loop>>

Retrieving(i, pc) == retrieval.at = i /\ retrieval.pc = pc

Restore(i) ==
    /\ Retrieving(i, "upload")
    /\ live' = [live EXCEPT ![transfers[i].of][retrieval.version] = transfers[i].copy]
    /\ retrieval' = [retrieval EXCEPT !.pc = "mark"]
    /\ UNCHANGED <<documents, rendered, transfers, loop, bounds>>

MarkRehydrated(i) ==
    /\ Retrieving(i, "mark")
    /\ dehydrated' = [dehydrated EXCEPT ![transfers[i].of] = FALSE]
    /\ retrieval' = [retrieval EXCEPT !.pc = "record"]
    /\ UNCHANGED <<due, archived, current, held, snapshot, live, rendered, transfers, loop,
                   bounds>>

(* Only what differs from the row as it was loaded is written. *)
RecordRetrieval(i) ==
    /\ Retrieving(i, "record")
    /\ transfers' = [transfers EXCEPT
            ![i].status = IF retrieval.status = "released" THEN @ ELSE "released",
            ![i].aged = FALSE]
    /\ retrieval' = Idle
    /\ UNCHANGED <<documents, live, rendered, loop, bounds>>

RetrievalFails ==
    /\ Fault
    /\ retrieval # Idle
    /\ retrieval' = Idle
    /\ UNCHANGED <<documents, live, rendered, transfers, loop>>

(* Nothing is remembered but the rows. *)
Crash ==
    /\ Fault
    /\ loop # Enter("documents") \/ retrieval # Idle
    /\ loop' = Enter("documents")
    /\ retrieval' = Idle
    /\ UNCHANGED <<documents, live, rendered, transfers>>

LoopStep ==
    \/ Discover \/ List
    \/ \E i \in Rows :
        \/ Lock(i) \/ CopyDocument(i) \/ NotRendered(i) \/ CopyCase(i)
        \/ CannotPack(i) \/ Verify(i) \/ MarkArchived(i) \/ Release(i)
        \/ Inspect(i) \/ CheckAgain(i) \/ DeleteLive(i) \/ MarkDehydrated(i) \/ Record(i)

RetrievalStep == \E i \in Rows : Restore(i) \/ MarkRehydrated(i) \/ RecordRetrieval(i)

Failure ==
    \/ DiscoveryFails \/ RetrievalFails \/ Crash
    \/ \E i \in Rows : CallFails(i) \/ DehydrationFails(i)

Next ==
    \/ LoopStep \/ RetrievalStep \/ Failure
    \/ \E c \in Cases : CloseCase(c)
    \/ \E x \in Items : RequestArchive(x)
    \/ \E d \in Documents :
        \/ CheckIn(d)
        \/ \E on \in BOOLEAN : SetHold(d, on)
        \/ \E v \in Versions : Render(d, v)
    \/ \E i \in Rows :
        BackoffEnds(i) \/ PeriodPasses(i) \/ RetryTransfer(i) \/ Retrieve(i)

Spec == Init /\ [][Next]_vars

(* The loop always polls again, a request runs to its end, a rendition     *)
(* that failed is retried, and time passes.                                *)
FairSpec ==
    /\ Spec
    /\ WF_vars(LoopStep) /\ WF_vars(RetrievalStep)
    /\ WF_vars(\E i \in Rows : BackoffEnds(i))
    /\ WF_vars(\E i \in Rows : PeriodPasses(i))
    /\ WF_vars(\E d \in Documents, v \in Versions : Render(d, v))

-----------------------------------------------------------------------------
Statuses == Active \cup Retrievable \cup {"failed_permanent"}
Loops ==
    [phase : DOMAIN NextPhase, todo : SUBSET Nat, at : Nat, txn : BOOLEAN, version : Nat,
     pc : {"discover", "list", "work", "release", "recheck", "delete", "mark", "record"}]
Retrievals ==
    [at : Nat, pc : {"idle", "upload", "mark", "record"}, version : Nat, status : Retrievable]

(* Every variable has its type; what a transfer has copied is the content  *)
(* of a document or the package of a case.                                 *)
TypeOK ==
    /\ due \in [Items -> BOOLEAN] /\ archived \in [Items -> BOOLEAN]
    /\ current \in [Documents -> Versions]
    /\ dehydrated \in [Documents -> BOOLEAN] /\ held \in [Documents -> BOOLEAN]
    /\ snapshot = [c \in Cases |-> snapshot[c]]
    /\ \A c \in Cases : snapshot[c] # None => snapshot[c] \in [RefsOf[c] -> Versions]
    /\ live \in [Documents -> [Versions -> Versions \cup {None}]]
    /\ rendered \subseteq Documents \X Versions
    /\ DOMAIN transfers = Rows
    /\ \A i \in Rows : transfers[i] \in
           [of : Items, status : Statuses, attempts : Nat, waits : BOOLEAN, aged : BOOLEAN,
            copy : {transfers[i].copy}]
    /\ loop \in Loops /\ retrieval \in Retrievals
    /\ holds \in Nat /\ requests \in Nat /\ faults \in Nat

Kept(d, v) ==
    \/ live[d][v] = v
    \/ \E i \in Rows :
        /\ transfers[i].of = d /\ transfers[i].copy = v
        /\ transfers[i].status \in Retrievable

(* No content is lost to the disposal: whatever order transfers, retries,  *)
(* retrievals, failures and crashes come in, every version of a document   *)
(* is on the live storage or in a copy that an operator can retrieve.      *)
EveryVersionKept == \A d \in Documents : \A v \in 1 .. current[d] : Kept(d, v)

(* A disposed case has a package of exactly the versions that were current *)
(* when it was closed, whatever happened to its documents since.           *)
PackageIsClosure ==
    \A c \in Cases : archived[c] =>
        \E i \in Rows : transfers[i].of = c /\ transfers[i].copy = snapshot[c]

(* What is due is disposed of in the end: a failed transfer is tried again *)
(* or replaced by a new one.  A case stays behind only when content that   *)
(* it needs was taken off the live storage before.                         *)
DueIsReleased ==
    \A x \in Items : due[x] ~> archived[x] \/ (due[x] /\ x \in Cases /\ ~Packable(x))

(* A document whose content is gone is not offered for long: the tick that *)
(* was interrupted after the deletion is made up for, unless a legal hold  *)
(* stops it.                                                               *)
ContentGone(d) == live[d][current[d]] = None
DehydrationSettles ==
    \A d \in Documents :
        ContentGone(d) ~> dehydrated[d] \/ ~ContentGone(d) \/ held[d]
=============================================================================
