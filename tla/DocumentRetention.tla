-------------------------- MODULE DocumentRetention --------------------------
(***************************************************************************)
(* The end of a document in document-service: retention schedule, legal    *)
(* hold, trash, records quarantine, forced deletion and the deletion       *)
(* register.                                                               *)
(*                                                                         *)
(* A poll loop lists what is due and then works through the list; approved *)
(* requests are executed by a consumer; administrators purge at once.  A   *)
(* physical deletion removes the objects of all versions from the storage, *)
(* one call each, and only then the rows, in one transaction.  None of the *)
(* three reads anything again that it has read before.                     *)
(***************************************************************************)
EXTENDS Naturals, FiniteSets

CONSTANTS
    Documents,
    Parts,          \* the versions of a document, an object in the storage each
    Locks,          \* <<d, v>>: the object is under a governance lock at first
    Derivations,    \* bound: <<c, d>>, c may be derived from d and reference its row
    Plans,          \* bound: what is scheduled for the end of the retention
    Configs,        \* bound: sets of action types that may need a second person
    MaxEdits,       \* bound: requests of users and administrators
    MaxFaults       \* bound: failed calls, crashes and redeliveries

ASSUME RetentionAssumption ==
    /\ IsFiniteSet(Documents) /\ IsFiniteSet(Parts)
    /\ Locks \subseteq Documents \X Parts
    /\ Derivations \subseteq Documents \X Documents
    /\ Plans \subseteq {"trash", "erase", "pseudonymize"}
    /\ Configs \subseteq SUBSET {"document.delete", "document.force_delete"}
    /\ MaxEdits \in Nat /\ MaxFaults \in Nat

VARIABLES
    doc,            \* doc[d]: the row of the document and what hangs on it
    content,        \* content[d]: the objects of its versions in the storage
    locked,         \* <<d, v>>: the storage keeps the object for a while
    register,       \* register[d]: its entries in the deletion register
    derived,        \* <<c, d>>: c has derived_from_document_id d
    needsApproval,  \* the action types that need a second person now
    requests,       \* <<action type, d>> that wait for approval or execution
    poll,           \* the poll loop: its phase, and what it listed for it
    job,            \* job[p]: the physical deletion p is in the middle of
    edits, faults

given == <<derived, needsApproval>>
vars == <<doc, content, locked, register, given, requests, poll, job, edits, faults>>

Workers == {"poll", "consumer", "admin"}

NoJob == [at |-> "none", parts |-> {}, bypass |-> FALSE]
Asleep == [phase |-> "asleep", todo |-> {}, held |-> {}]

New ==
    [state |-> "live", plan |-> "none", due |-> FALSE, asked |-> FALSE,
     held |-> FALSE, quarantine |-> "none"]

Gone == [New EXCEPT !.state = "gone"]

Erasing(p) == job[p] # NoJob
Exists(d) == doc[d].state # "gone"
Referenced(d) == \E c \in Documents : <<c, d>> \in derived /\ Exists(c)

Init ==
    /\ doc = [d \in Documents |-> New]
    /\ content = [d \in Documents |-> Parts]
    /\ locked = Locks
    /\ register = [d \in Documents |-> 0]
    /\ derived \in SUBSET Derivations
    /\ needsApproval \in Configs
    /\ requests = {}
    /\ poll = Asleep
    /\ job = [p \in Workers |-> NoJob]
    /\ edits = 0
    /\ faults = 0

Fault == faults < MaxFaults /\ faults' = faults + 1

(***************************************************************************)
(* Time.  Restoring is possible for a while only, and a lock ends.         *)
(***************************************************************************)
Passes(d, row) ==
    /\ Exists(d)
    /\ doc' = [doc EXCEPT ![d] = row]
    /\ UNCHANGED <<content, locked, register, requests, poll, job, edits, faults, given>>

RetentionEnds(d) ==
    doc[d].plan # "none" /\ ~doc[d].due /\ Passes(d, [doc[d] EXCEPT !.due = TRUE])

RestorePeriodEnds(d) ==
    doc[d].state = "trashed" /\ Passes(d, [doc[d] EXCEPT !.state = "expired"])

QuarantineEnds(d) ==
    doc[d].quarantine = "timed" /\ Passes(d, [doc[d] EXCEPT !.quarantine = "due"])

LockEnds(d, v) ==
    /\ <<d, v>> \in locked
    /\ locked' = locked \ {<<d, v>>}
    /\ UNCHANGED <<doc, content, register, requests, poll, job, edits, faults, given>>

(***************************************************************************)
(* Requests of users and administrators.                                   *)
(***************************************************************************)
Edit(d, row) ==
    /\ edits < MaxEdits /\ edits' = edits + 1
    /\ Exists(d)
    /\ doc' = [doc EXCEPT ![d] = row]
    /\ UNCHANGED <<content, locked, register, poll, job, faults, given>>

(* A new schedule asks anew; the request for the old one is not withdrawn. *)
SetRetention(d, plan) ==
    /\ Edit(d, [doc[d] EXCEPT !.plan = plan, !.due = FALSE, !.asked = FALSE])
    /\ UNCHANGED requests

SetHold(d) ==
    /\ ~doc[d].held
    /\ Edit(d, [doc[d] EXCEPT !.held = TRUE])
    /\ UNCHANGED requests

ReleaseHold(d) ==
    /\ doc[d].held
    /\ Edit(d, [doc[d] EXCEPT !.held = FALSE])
    /\ UNCHANGED requests

SetQuarantine(d, term) ==
    /\ doc[d].quarantine = "none"
    /\ Edit(d, [doc[d] EXCEPT !.quarantine = term])
    /\ UNCHANGED requests

ReleaseQuarantine(d) ==
    /\ doc[d].quarantine # "none"
    /\ Edit(d, [doc[d] EXCEPT !.quarantine = "none"])
    /\ UNCHANGED requests

(* Deleting does not ask whether the document is in the trash already.     *)
Trash(d) ==
    IF "document.delete" \in needsApproval
    THEN /\ Edit(d, doc[d])
         /\ requests' = requests \cup {<<"document.delete", d>>}
    ELSE /\ Edit(d, [doc[d] EXCEPT !.state = "trashed"])
         /\ UNCHANGED requests

Restore(d) ==
    /\ doc[d].state = "trashed"
    /\ Edit(d, [doc[d] EXCEPT !.state = "live"])
    /\ UNCHANGED requests

(* permission-service changes what needs approval at any time.             *)
PutApprovalConfig ==
    /\ edits < MaxEdits /\ edits' = edits + 1
    /\ needsApproval' \in Configs \ {needsApproval}
    /\ UNCHANGED <<doc, content, locked, register, derived, requests, poll, job, faults>>

Reject(r) ==
    /\ r \in requests /\ ~Erasing("consumer")
    /\ requests' = requests \ {r}
    /\ UNCHANGED <<doc, content, locked, register, poll, job, edits, faults, given>>

(***************************************************************************)
(* Physical deletion, the same procedure for all.                          *)
(***************************************************************************)
(* The versions are listed at the start.                                   *)
Erase(p, d, bypass) ==
    job' = [job EXCEPT ![p] = [at |-> d, bypass |-> bypass,
                               parts |-> IF Exists(d) THEN Parts ELSE {}]]

Done(p) == job' = [job EXCEPT ![p] = NoJob]

(* An exception ends the whole tick of the poll loop.                      *)
Raise(p) ==
    /\ Done(p)
    /\ poll' = IF p = "poll" THEN Asleep ELSE poll

DeletePart(p, v) ==
    LET d == job[p].at IN
    /\ Erasing(p)
    /\ v \in job[p].parts
    /\ <<d, v>> \notin locked \/ job[p].bypass
    /\ content' = [content EXCEPT ![d] = @ \ {v}]
    /\ job' = [job EXCEPT ![p].parts = @ \ {v}]
    /\ UNCHANGED <<doc, locked, register, requests, poll, edits, faults, given>>

Refused(p) ==
    /\ Erasing(p) /\ ~job[p].bypass
    /\ \E v \in job[p].parts : <<job[p].at, v>> \in locked

(* The storage refuses; what was deleted before stays deleted.  The poll   *)
(* loop rolls back, which expires the rows it has still to do: touching    *)
(* the next one raises.                                                    *)
Blocked(p) ==
    /\ Refused(p)
    /\ IF p = "poll" /\ poll.todo # {} THEN Raise(p) ELSE Done(p) /\ UNCHANGED poll
    /\ UNCHANGED <<doc, content, locked, register, requests, edits, faults, given>>

(* An approved request is done when its document is.                       *)
Answered(p, d) ==
    IF p = "consumer" THEN requests \ {<<"document.force_delete", d>>} ELSE requests

(* Mutant: only forced deletions are registered.                           *)
CommitEraseUnregistered(p) ==
    LET d == job[p].at IN
    /\ Erasing(p) /\ job[p].parts = {}
    /\ ~Referenced(d)
    /\ doc' = [doc EXCEPT ![d] = Gone]
    /\ register' = [register EXCEPT ![d] = IF job[p].bypass THEN @ + 1 ELSE @]
    /\ requests' = Answered(p, d)
    /\ Done(p)
    /\ UNCHANGED <<content, locked, poll, edits, faults, given>>

(* The entry in the register and the end of all rows are one transaction.  *)
(* Somebody else may have removed the row meanwhile: the DELETE finds none *)
(* and nothing fails.                                                      *)
CommitErase(p) ==
    LET d == job[p].at IN
    /\ Erasing(p) /\ job[p].parts = {}
    /\ ~Referenced(d)
    /\ doc' = [doc EXCEPT ![d] = Gone]
    /\ register' = [register EXCEPT ![d] = @ + 1]
    /\ requests' = Answered(p, d)
    /\ Done(p)
    /\ UNCHANGED <<content, locked, poll, edits, faults, given>>

(* The row of a copy references this one, and the transaction fails.       *)
EraseRefused(p) ==
    /\ Erasing(p) /\ job[p].parts = {}
    /\ Referenced(job[p].at)
    /\ Raise(p)
    /\ UNCHANGED <<doc, content, locked, register, requests, edits, faults, given>>

(* A failed call, or a crash.  An approved request will be delivered again.*)
JobLost(p) ==
    /\ Erasing(p) \/ (p = "poll" /\ poll # Asleep)
    /\ Fault
    /\ Raise(p)
    /\ UNCHANGED <<doc, content, locked, register, requests, edits, given>>

(***************************************************************************)
(* The deletion administration, and the reconciliation after a restore of  *)
(* the database, which repeats a forced deletion.                          *)
(***************************************************************************)
AdminErases(d, bypass) ==
    /\ edits < MaxEdits /\ edits' = edits + 1
    /\ ~Erasing("admin")
    /\ Erase("admin", d, bypass)
    /\ UNCHANGED <<doc, content, locked, register, requests, poll, faults, given>>

Purge(d) == doc[d].state \in {"trashed", "expired"} /\ AdminErases(d, FALSE)
ReconcileDeletion(d) == Exists(d) /\ AdminErases(d, TRUE)

(***************************************************************************)
(* The consumer of approved requests.  It asks only if the row is there.   *)
(***************************************************************************)
(* The answer is lost, or a redelivery finds the request done.             *)
TrashApproved(d) ==
    LET r == <<"document.delete", d>> IN
    /\ ~Erasing("consumer")
    /\ r \in requests
    /\ doc' = IF Exists(d) THEN [doc EXCEPT ![d].state = "trashed"] ELSE doc
    /\ \/ requests' = requests \ {r} /\ UNCHANGED faults
       \/ Fault /\ UNCHANGED requests
    /\ UNCHANGED <<content, locked, register, poll, job, edits, given>>

EraseApproved(d) ==
    /\ ~Erasing("consumer")
    /\ <<"document.force_delete", d>> \in requests
    /\ Exists(d)
    /\ Erase("consumer", d, TRUE)
    /\ UNCHANGED <<doc, content, locked, register, requests, poll, edits, faults, given>>

EraseMoot(d) ==
    /\ ~Erasing("consumer")
    /\ <<"document.force_delete", d>> \in requests
    /\ ~Exists(d)
    /\ requests' = requests \ {<<"document.force_delete", d>>}
    /\ UNCHANGED <<doc, content, locked, register, poll, job, edits, faults, given>>

(***************************************************************************)
(* The poll loop: three phases, each of which lists what has no hold, and  *)
(* then works through the list with the rows as they were listed.          *)
(***************************************************************************)
Listed(d) == [doc |-> d, plan |-> doc[d].plan, asked |-> doc[d].asked]

Held == {d \in Documents : doc[d].held}

List(phase, next, due) ==
    /\ poll.phase = phase /\ poll.todo = {} /\ ~Erasing("poll")
    /\ poll' = [phase |-> next, todo |-> {Listed(d) : d \in due}, held |-> Held]
    /\ UNCHANGED <<doc, content, locked, register, requests, job, edits, faults, given>>

ListDue ==
    List("asleep", "due",
         {d \in Documents \ Held : doc[d].state = "live" /\ doc[d].plan # "none" /\ doc[d].due})

(* Mutant: a hold blocks forced deletions only.                            *)
ListAllExpiredTrash ==
    List("due", "trash", {d \in Documents : doc[d].state = "expired"})

ListExpiredTrash ==
    List("due", "trash", {d \in Documents \ Held : doc[d].state = "expired"})

ListExpiredQuarantine ==
    List("trash", "quarantine", {d \in Documents \ Held : doc[d].quarantine = "due"})

EndTick ==
    /\ poll.phase = "quarantine" /\ poll.todo = {} /\ ~Erasing("poll")
    /\ poll' = Asleep
    /\ UNCHANGED <<doc, content, locked, register, requests, job, edits, faults, given>>

(* The next of the list.                                                   *)
Takes(phase, t) ==
    /\ poll.phase = phase /\ ~Erasing("poll")
    /\ t \in poll.todo
    /\ UNCHANGED <<content, locked, register, edits, faults, given>>

Taken(t) == poll' = [poll EXCEPT !.todo = @ \ {t}]

(* An UPDATE that finds no row raises.                                     *)
Update(t, row) ==
    /\ IF Exists(t.doc) THEN doc' = [doc EXCEPT ![t.doc] = row] /\ Taken(t)
                        ELSE poll' = Asleep /\ UNCHANGED doc
    /\ UNCHANGED job

(* Mutant: the schedule is not cleared.                                    *)
PseudonymizeAgain(t) ==
    /\ Takes("due", t) /\ t.plan = "pseudonymize"
    /\ Update(t, doc[t.doc])
    /\ UNCHANGED requests

PseudonymizeDue(t) ==
    /\ Takes("due", t) /\ t.plan = "pseudonymize"
    /\ Update(t, [doc[t.doc] EXCEPT !.plan = "none", !.due = FALSE])
    /\ UNCHANGED requests

TrashDue(t) ==
    /\ Takes("due", t) /\ t.plan = "trash"
    /\ Update(t, [doc[t.doc] EXCEPT !.state = "trashed"])
    /\ UNCHANGED requests

MustAsk == "document.force_delete" \in needsApproval

(* The request is made before it is noted that it was.                     *)
AskForErasure(t) ==
    /\ Takes("due", t) /\ t.plan = "erase" /\ MustAsk
    /\ IF t.asked THEN Taken(t) /\ UNCHANGED <<doc, job, requests>>
                   ELSE /\ requests' = requests \cup {<<"document.force_delete", t.doc>>}
                        /\ Update(t, [doc[t.doc] EXCEPT !.asked = TRUE])

EraseDue(t) ==
    /\ Takes("due", t) /\ t.plan = "erase" /\ ~MustAsk
    /\ Taken(t) /\ Erase("poll", t.doc, TRUE)
    /\ UNCHANGED <<doc, requests>>

PurgeExpired(t) ==
    /\ Takes("trash", t)
    /\ Taken(t) /\ Erase("poll", t.doc, FALSE)
    /\ UNCHANGED <<doc, requests>>

(* Here the row is read anew, and a missing one raises.                    *)
AutoDelete(t) ==
    /\ Takes("quarantine", t)
    /\ IF Exists(t.doc) THEN Taken(t) /\ Erase("poll", t.doc, FALSE)
                        ELSE poll' = Asleep /\ UNCHANGED job
    /\ UNCHANGED <<doc, requests>>

----------------------------------------------------------------------------
Time == \E d \in Documents :
    \/ RetentionEnds(d) \/ RestorePeriodEnds(d) \/ QuarantineEnds(d)
    \/ \E v \in Parts : LockEnds(d, v)

UserStep == \E d \in Documents :
    \/ \E plan \in Plans \cup {"none"} : SetRetention(d, plan)
    \/ SetHold(d) \/ ReleaseHold(d)
    \/ \E term \in {"open", "timed"} : SetQuarantine(d, term)
    \/ ReleaseQuarantine(d)
    \/ Trash(d) \/ Restore(d)
    \/ Purge(d) \/ ReconcileDeletion(d)

ErasureStep(p) ==
    (\E v \in Parts : DeletePart(p, v)) \/ Blocked(p) \/ CommitErase(p) \/ EraseRefused(p)

ConsumerStep == \E d \in Documents : TrashApproved(d) \/ EraseApproved(d) \/ EraseMoot(d)

Process(t) ==
    \/ PseudonymizeDue(t) \/ TrashDue(t) \/ AskForErasure(t) \/ EraseDue(t)
    \/ PurgeExpired(t) \/ AutoDelete(t)

PollStep ==
    \/ ListDue \/ ListExpiredTrash \/ ListExpiredQuarantine \/ EndTick
    \/ \E t \in poll.todo : Process(t)

Next ==
    \/ Time \/ UserStep \/ PutApprovalConfig \/ ConsumerStep \/ PollStep
    \/ \E r \in requests : Reject(r)
    \/ \E p \in Workers : ErasureStep(p) \/ JobLost(p)

Spec == Init /\ [][Next]_vars

(* The loop goes on, what was begun is finished, and a lock has an end.    *)
FairSpec ==
    /\ Spec /\ WF_vars(PollStep)
    /\ \A p \in Workers : WF_vars(ErasureStep(p))
    /\ \A d \in Documents, v \in Parts : WF_vars(LockEnds(d, v))

----------------------------------------------------------------------------
Rows ==
    [state : {"live", "trashed", "expired", "gone"},
     plan : {"none", "trash", "erase", "pseudonymize"}, due : BOOLEAN, asked : BOOLEAN,
     held : BOOLEAN, quarantine : {"none", "open", "timed", "due"}]

Polls ==
    [phase : {"asleep", "due", "trash", "quarantine"},
     todo : SUBSET [doc : Documents, plan : {"none", "trash", "erase", "pseudonymize"},
                    asked : BOOLEAN],
     held : SUBSET Documents]

(* The shape of the state, and: what a worker still has to delete it found *)
(* among the versions, what the poll loop has still to do had no hold when *)
(* it was listed, and a sleeping poll loop is not deleting anything.       *)
TypeOK ==
    /\ doc \in [Documents -> Rows]
    /\ content \in [Documents -> SUBSET Parts]
    /\ locked \subseteq Locks
    /\ register \in [Documents -> Nat]
    /\ derived \subseteq Derivations /\ needsApproval \in Configs
    /\ requests \subseteq {"document.delete", "document.force_delete"} \X Documents
    /\ job \in [Workers -> [at : Documents, parts : SUBSET Parts, bypass : BOOLEAN] \cup {NoJob}]
    /\ poll \in Polls
    /\ \A t \in poll.todo : t.doc \notin poll.held
    /\ poll.phase = "asleep" => poll = Asleep /\ ~Erasing("poll")
    /\ edits \in 0..MaxEdits /\ faults \in 0..MaxFaults

(* A document is gone exactly when the deletion register says so, and then *)
(* nothing of its content is left in the storage: whoever deleted it, and  *)
(* whatever failed on the way (retention_actions.py; the register is the   *)
(* evidence of 5.2a).                                                      *)
Accounted ==
    \A d \in Documents :
        /\ Exists(d) <=> register[d] = 0
        /\ ~Exists(d) => content[d] = {}

(* The poll loop leaves alone what was under a legal hold when it listed   *)
(* the documents of its phase: it is not trashed, not deleted, and loses   *)
(* no content (list_due_for_retention_action, list_expired_trash,          *)
(* list_expired_quarantine).                                               *)
HoldHonoured ==
    [][poll' # poll \/ job'["poll"] # job["poll"] =>
         \A d \in poll.held : doc'[d].state = doc[d].state /\ content'[d] = content[d]]_vars

(* A document that is due is dealt with in the end, though calls fail,     *)
(* workers crash and other documents are blocked (_retention_poll_loop).   *)
(* Excepted are those that somebody or something else holds back: a hold,  *)
(* a lock, a copy, a second person; and all while a copy exists.           *)
Free(d) == ~Referenced(d) /\ \A v \in Parts : <<d, v>> \notin locked

Overdue(d) ==
    /\ ~doc[d].held
    /\ \/ /\ doc[d].state = "live" /\ doc[d].due
          /\ doc[d].plan # "none"
          /\ doc[d].plan = "erase" => ~MustAsk /\ ~Referenced(d)
       \/ doc[d].state = "expired" /\ Free(d)
       \/ doc[d].quarantine = "due" /\ Free(d)

OverdueIsHandled == derived = {} => \A d \in Documents : Overdue(d) ~> ~Overdue(d)

=============================================================================
