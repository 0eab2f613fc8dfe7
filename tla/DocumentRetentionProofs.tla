---------------------- MODULE DocumentRetentionProofs ----------------------
(***************************************************************************)
(* Theorems about DocumentRetention, for any documents, versions, locks,   *)
(* requests and faults: a document is gone exactly when the deletion       *)
(* register says so and then nothing of it is left, and the poll loop      *)
(* leaves alone what was under a hold when it listed its phase.            *)
(***************************************************************************)
EXTENDS DocumentRetention, TLAPS

(* What is left of a document that is being deleted is on the list of the  *)
(* worker that deletes it.                                                 *)
Remaining == \A p \in Workers : Erasing(p) => content[job[p].at] \subseteq job[p].parts

Clear == Erasing("poll") => job["poll"].at \notin poll.held

IInv == TypeOK /\ Accounted /\ Remaining /\ Clear

Jobs == [at : Documents, parts : SUBSET Parts, bypass : BOOLEAN] \cup {NoJob}

LEMMA Initially == ASSUME Init PROVE IInv
<1>1. New \in Rows BY DEF New, Rows
<1>2. Asleep \in Polls /\ \A t \in Asleep.todo : FALSE BY DEF Asleep, Polls
<1>3. edits \in 0..MaxEdits /\ faults \in 0..MaxFaults BY RetentionAssumption DEF Init
<1>4. \A p \in Workers : ~Erasing(p) BY DEF Init, Erasing
<1>5. "poll" \in Workers BY DEF Workers
<1>6. TypeOK BY <1>1, <1>2, <1>3, <1>4, <1>5 DEF Init, TypeOK
<1>7. Accounted BY DEF Init, Accounted, Exists, New
<1> QED BY <1>4, <1>5, <1>6, <1>7 DEF IInv, Remaining, Clear

(***************************************************************************)
(* Operators.                                                              *)
(***************************************************************************)
LEMMA Faults == ASSUME TypeOK, Fault PROVE faults' \in 0..MaxFaults
BY RetentionAssumption DEF TypeOK, Fault

LEMMA Edits == ASSUME TypeOK, edits < MaxEdits, edits' = edits + 1 PROVE edits' \in 0..MaxEdits
BY RetentionAssumption DEF TypeOK

(* One row changes, and not whether it is there.                           *)
LEMMA RowChanges ==
    ASSUME TypeOK, NEW d \in Documents, NEW r \in Rows, Exists(d), r.state # "gone",
           doc' = [doc EXCEPT ![d] = r]
    PROVE  /\ doc' \in [Documents -> Rows]
           /\ \A e \in Documents : Exists(e)' <=> Exists(e)
           /\ \A e \in Documents \ {d} : doc'[e] = doc[e]
BY DEF TypeOK, Exists

(* A worker is done with what it was deleting.                             *)
LEMMA JobEnds ==
    ASSUME TypeOK, NEW p \in Workers, Done(p)
    PROVE  /\ job' \in [Workers -> Jobs]
           /\ job'[p] = NoJob /\ \A q \in Workers \ {p} : job'[q] = job[q]
BY DEF TypeOK, Done, Jobs

LEMMA Raised ==
    ASSUME TypeOK, NEW p \in Workers, Raise(p)
    PROVE  /\ job' \in [Workers -> Jobs]
           /\ job'[p] = NoJob /\ \A q \in Workers \ {p} : job'[q] = job[q]
           /\ poll' \in Polls /\ \A t \in poll'.todo : t.doc \notin poll'.held
           /\ poll'.phase = "asleep" => poll' = Asleep /\ ~Erasing("poll")'
           /\ p = "poll" => poll' = Asleep
           /\ p # "poll" => poll' = poll
<1>1. job' \in [Workers -> Jobs] /\ job'[p] = NoJob /\ \A q \in Workers \ {p} : job'[q] = job[q]
  BY JobEnds DEF Raise
<1>2. Asleep \in Polls /\ Asleep.todo = {} BY DEF Asleep, Polls
<1>3. "poll" \in Workers BY DEF Workers
<1>4. CASE p = "poll"
  BY <1>1, <1>2, <1>4 DEF Raise, Erasing
<1>5. CASE p # "poll"
  <2>1. poll' = poll BY <1>5 DEF Raise
  <2>2. job'["poll"] = job["poll"] BY <1>1, <1>3, <1>5
  <2> QED BY <1>1, <1>5, <2>1, <2>2 DEF TypeOK, Erasing
<1> QED BY <1>4, <1>5

(* What neither deletes nor begins to keeps the invariant.                 *)
LEMMA Quiet ==
    ASSUME IInv, TypeOK', UNCHANGED <<content, register>>,
           \A d \in Documents : Exists(d)' <=> Exists(d),
           \A p \in Workers : job'[p] = job[p] \/ job'[p] = NoJob,
           Erasing("poll")' => poll'.held = poll.held
    PROVE  IInv'
<1>1. Accounted' BY DEF IInv, Accounted
<1>2. Remaining' BY DEF IInv, Remaining, Erasing
<1>3. Clear'
  <2>1. "poll" \in Workers BY DEF Workers
  <2> QED BY <2>1 DEF IInv, Clear, Erasing
<1> QED BY <1>1, <1>2, <1>3 DEF IInv

(* Nor does it touch what the poll loop found under a hold.                *)
Spared ==
    poll' # poll \/ job'["poll"] # job["poll"] =>
        \A d \in poll.held : doc'[d].state = doc[d].state /\ content'[d] = content[d]

(***************************************************************************)
(* Time, users and the approval configuration.                             *)
(***************************************************************************)
LEMMA RowActions ==
    ASSUME IInv, NEW d \in Documents, NEW r \in Rows, r.state # "gone", Exists(d),
           doc' = [doc EXCEPT ![d] = r],
           requests' \subseteq {"document.delete", "document.force_delete"} \X Documents,
           edits' \in 0..MaxEdits, faults' \in 0..MaxFaults,
           UNCHANGED <<content, locked, register, poll, job, given>>
    PROVE  IInv' /\ Spared
<1>0. TypeOK BY DEF IInv
<1>1. doc' \in [Documents -> Rows] /\ \A e \in Documents : Exists(e)' <=> Exists(e)
  BY <1>0, RowChanges
<1>2. TypeOK' BY <1>0, <1>1 DEF TypeOK, given, Erasing
<1> QED BY <1>1, <1>2, Quiet DEF Spared

LEMMA TimeKeeps == ASSUME IInv, Time PROVE IInv' /\ Spared
<1>0. TypeOK BY DEF IInv
<1>1. ASSUME NEW d \in Documents, NEW r \in Rows, r.state # "gone", Passes(d, r)
      PROVE  IInv' /\ Spared
  <2>1. requests' \subseteq {"document.delete", "document.force_delete"} \X Documents
        /\ edits' \in 0..MaxEdits /\ faults' \in 0..MaxFaults
    BY <1>0, <1>1 DEF Passes, TypeOK
  <2> QED BY <1>1, <2>1, RowActions DEF Passes
<1>2. ASSUME NEW d \in Documents, RetentionEnds(d) PROVE IInv' /\ Spared
  <2>1. doc[d] \in Rows /\ doc[d].state # "gone" BY <1>0, <1>2 DEF TypeOK, RetentionEnds, Passes, Exists
  <2>2. [doc[d] EXCEPT !.due = TRUE] \in Rows /\ [doc[d] EXCEPT !.due = TRUE].state # "gone"
    BY <2>1 DEF Rows
  <2> QED BY <1>1, <1>2, <2>2 DEF RetentionEnds
<1>3. ASSUME NEW d \in Documents, RestorePeriodEnds(d) PROVE IInv' /\ Spared
  <2>1. doc[d] \in Rows BY <1>0 DEF TypeOK
  <2>2. [doc[d] EXCEPT !.state = "expired"] \in Rows
        /\ [doc[d] EXCEPT !.state = "expired"].state # "gone"
    BY <2>1 DEF Rows
  <2> QED BY <1>1, <1>3, <2>2 DEF RestorePeriodEnds
<1>4. ASSUME NEW d \in Documents, QuarantineEnds(d) PROVE IInv' /\ Spared
  <2>1. doc[d] \in Rows /\ doc[d].state # "gone" BY <1>0, <1>4 DEF TypeOK, QuarantineEnds, Passes, Exists
  <2>2. [doc[d] EXCEPT !.quarantine = "due"] \in Rows
        /\ [doc[d] EXCEPT !.quarantine = "due"].state # "gone"
    BY <2>1 DEF Rows
  <2> QED BY <1>1, <1>4, <2>2 DEF QuarantineEnds
<1>5. ASSUME NEW d \in Documents, NEW v \in Parts, LockEnds(d, v) PROVE IInv' /\ Spared
  <2>1. UNCHANGED <<doc, content, register, requests, poll, job, edits, faults, given>>
        /\ locked' \subseteq locked
    BY <1>5 DEF LockEnds
  <2>2. TypeOK' BY <1>0, <2>1 DEF TypeOK, given, Erasing
  <2> QED BY <2>1, <2>2, Quiet DEF Spared, Exists
<1> QED BY <1>2, <1>3, <1>4, <1>5 DEF Time

(* The worker of p begins to delete d, under a hold or not.                *)
LEMMA BeginKeeps ==
    ASSUME IInv, NEW p \in Workers, NEW d \in Documents, NEW bypass \in BOOLEAN,
           ~Erasing(p), Erase(p, d, bypass),
           poll' \in Polls, \A t \in poll'.todo : t.doc \notin poll'.held,
           poll'.held = poll.held, poll'.phase = poll.phase,
           poll.phase = "asleep" => p # "poll" /\ poll' = poll,
           p = "poll" => d \notin poll.held,
           edits' \in 0..MaxEdits,
           UNCHANGED <<doc, content, locked, register, requests, faults, given>>
    PROVE  IInv' /\ Spared
<1> DEFINE j == [at |-> d, bypass |-> bypass, parts |-> IF Exists(d) THEN Parts ELSE {}]
<1>0. TypeOK /\ "poll" \in Workers BY DEF IInv, Workers
<1>1. j \in Jobs BY DEF Jobs
<1>2. job' \in [Workers -> Jobs] /\ job'[p] = j /\ \A q \in Workers \ {p} : job'[q] = job[q]
  BY <1>0, <1>1 DEF TypeOK, Erase, Jobs
<1>3. TypeOK'
  <2>1. poll'.phase = "asleep" => poll' = Asleep /\ ~Erasing("poll")'
    <3> SUFFICES ASSUME poll.phase = "asleep" PROVE poll' = Asleep /\ ~Erasing("poll")'
      OBVIOUS
    <3>1. poll' = Asleep /\ ~Erasing("poll") BY <1>0 DEF TypeOK
    <3>2. job'["poll"] = job["poll"] BY <1>0, <1>2
    <3> QED BY <3>1, <3>2 DEF Erasing
  <2> QED BY <1>0, <1>2, <2>1 DEF TypeOK, given, Jobs
<1>4. \A e \in Documents : Exists(e)' <=> Exists(e) BY DEF Exists
<1>5. Accounted' BY <1>4 DEF IInv, Accounted
<1>6. Remaining'
  <2>1. content[d] \subseteq j.parts
    <3>1. CASE Exists(d) BY <1>0, <3>1 DEF TypeOK
    <3>2. CASE ~Exists(d) BY <3>2 DEF IInv, Accounted
    <3> QED BY <3>1, <3>2
  <2> SUFFICES ASSUME NEW q \in Workers, Erasing(q)'
               PROVE  content[job'[q].at] \subseteq job'[q].parts
    BY DEF Remaining
  <2>2. CASE q = p BY <1>2, <2>1, <2>2
  <2>3. CASE q # p BY <1>2, <2>3 DEF IInv, Remaining, Erasing
  <2> QED BY <2>2, <2>3
<1>7. Clear'
  <2>1. CASE p = "poll" BY <1>2, <2>1 DEF Clear
  <2>2. CASE p # "poll" BY <1>0, <1>2, <2>2 DEF IInv, Clear, Erasing
  <2> QED BY <2>1, <2>2
<1> QED BY <1>3, <1>5, <1>6, <1>7 DEF IInv, Spared

LEMMA EditKeeps ==
    ASSUME IInv, NEW d \in Documents, NEW r \in Rows, r.state # "gone", Edit(d, r),
           requests' \subseteq {"document.delete", "document.force_delete"} \X Documents
    PROVE  IInv' /\ Spared
<1>0. TypeOK BY DEF IInv
<1>1. edits' \in 0..MaxEdits BY <1>0, Edits DEF Edit
<1>2. faults' \in 0..MaxFaults BY <1>0 DEF Edit, TypeOK
<1> QED BY <1>1, <1>2, RowActions DEF Edit

LEMMA UserKeeps == ASSUME IInv, UserStep PROVE IInv' /\ Spared
<1>0. TypeOK BY DEF IInv
<1>1. PICK d \in Documents :
          \/ \E plan \in Plans \cup {"none"} : SetRetention(d, plan)
          \/ SetHold(d) \/ ReleaseHold(d)
          \/ \E term \in {"open", "timed"} : SetQuarantine(d, term)
          \/ ReleaseQuarantine(d)
          \/ Trash(d) \/ Restore(d)
          \/ Purge(d) \/ ReconcileDeletion(d)
  BY DEF UserStep
<1>2. requests \subseteq {"document.delete", "document.force_delete"} \X Documents
      /\ doc[d] \in Rows
  BY <1>0 DEF TypeOK
<1>3. ASSUME NEW plan \in Plans \cup {"none"}, SetRetention(d, plan) PROVE IInv' /\ Spared
  <2>1. doc[d].state # "gone" BY <1>3 DEF SetRetention, Edit, Exists
  <2>2. plan \in {"none", "trash", "erase", "pseudonymize"} BY RetentionAssumption
  <2> DEFINE r == [doc[d] EXCEPT !.plan = plan, !.due = FALSE, !.asked = FALSE]
  <2>3. r \in Rows /\ r.state # "gone" BY <1>2, <2>1, <2>2 DEF Rows
  <2> QED BY <1>2, <1>3, <2>3, EditKeeps DEF SetRetention
<1>4. ASSUME NEW on \in BOOLEAN, Edit(d, [doc[d] EXCEPT !.held = on]), UNCHANGED requests
      PROVE  IInv' /\ Spared
  <2>1. doc[d].state # "gone" BY <1>4 DEF Edit, Exists
  <2> DEFINE r == [doc[d] EXCEPT !.held = on]
  <2>2. r \in Rows /\ r.state # "gone" BY <1>2, <2>1 DEF Rows
  <2> QED BY <1>2, <1>4, <2>2, EditKeeps
<1>5. ASSUME NEW term \in {"none", "open", "timed"},
             Edit(d, [doc[d] EXCEPT !.quarantine = term]), UNCHANGED requests
      PROVE  IInv' /\ Spared
  <2>1. doc[d].state # "gone" BY <1>5 DEF Edit, Exists
  <2> DEFINE r == [doc[d] EXCEPT !.quarantine = term]
  <2>2. r \in Rows /\ r.state # "gone" BY <1>2, <2>1 DEF Rows
  <2> QED BY <1>2, <1>5, <2>2, EditKeeps
<1>6. ASSUME NEW state \in {"live", "trashed"},
             Edit(d, [doc[d] EXCEPT !.state = state]), UNCHANGED requests
      PROVE  IInv' /\ Spared
  <2> DEFINE r == [doc[d] EXCEPT !.state = state]
  <2>1. r \in Rows /\ r.state # "gone" BY <1>2 DEF Rows
  <2> QED BY <1>2, <1>6, <2>1, EditKeeps
<1>7. CASE Trash(d)
  <2>1. CASE "document.delete" \in needsApproval
    <3>1. Edit(d, doc[d]) /\ requests' = requests \cup {<<"document.delete", d>>}
      BY <1>7, <2>1 DEF Trash
    <3>2. doc[d].state # "gone" BY <3>1 DEF Edit, Exists
    <3> QED BY <1>2, <3>1, <3>2, EditKeeps
  <2>2. CASE "document.delete" \notin needsApproval
    BY <1>6, <1>7, <2>2 DEF Trash
  <2> QED BY <2>1, <2>2
<1>8. ASSUME NEW bypass \in BOOLEAN, AdminErases(d, bypass) PROVE IInv' /\ Spared
  <2>1. edits' \in 0..MaxEdits BY <1>0, <1>8, Edits DEF AdminErases
  <2>2. poll' = poll /\ poll \in Polls /\ (\A t \in poll.todo : t.doc \notin poll.held)
    BY <1>0, <1>8 DEF AdminErases, TypeOK
  <2>3. "admin" \in Workers /\ "admin" # "poll" BY DEF Workers
  <2> QED BY <1>8, <2>1, <2>2, <2>3, BeginKeeps DEF AdminErases
<1>9. CASE Purge(d) BY <1>8, <1>9 DEF Purge
<1>10. CASE ReconcileDeletion(d) BY <1>8, <1>10 DEF ReconcileDeletion
<1> QED
  BY <1>1, <1>3, <1>4, <1>5, <1>6, <1>7, <1>9, <1>10
  DEF SetHold, ReleaseHold, SetQuarantine, ReleaseQuarantine, Restore

LEMMA RequestsKeep ==
    ASSUME IInv, PutApprovalConfig \/ \E r \in requests : Reject(r)
    PROVE  IInv' /\ Spared
<1>0. TypeOK BY DEF IInv
<1>1. UNCHANGED <<doc, content, locked, register, derived, poll, job, faults>>
      /\ requests' \subseteq requests
  BY DEF PutApprovalConfig, Reject, given
<1>2. edits' \in 0..MaxEdits BY <1>0, Edits DEF PutApprovalConfig, Reject, TypeOK
<1>3. needsApproval' \in Configs BY <1>0 DEF PutApprovalConfig, Reject, given, TypeOK
<1>4. TypeOK' BY <1>0, <1>1, <1>2, <1>3 DEF TypeOK, Erasing
<1> QED BY <1>1, <1>4, Quiet DEF Spared, Exists

LEMMA ConsumerKeeps == ASSUME IInv, ConsumerStep PROVE IInv' /\ Spared
<1>0. TypeOK /\ "consumer" \in Workers /\ "consumer" # "poll" BY DEF IInv, Workers
<1>1. PICK d \in Documents : TrashApproved(d) \/ EraseApproved(d) \/ EraseMoot(d)
  BY DEF ConsumerStep
<1>2. CASE TrashApproved(d)
  <2>1. requests' \subseteq {"document.delete", "document.force_delete"} \X Documents
    BY <1>0, <1>2 DEF TrashApproved, TypeOK
  <2>2. faults' \in 0..MaxFaults /\ edits' \in 0..MaxEdits
    BY <1>0, <1>2, Faults DEF TrashApproved, TypeOK
  <2>3. UNCHANGED <<content, locked, register, poll, job, given>> BY <1>2 DEF TrashApproved
  <2>4. CASE Exists(d)
    <3> DEFINE r == [doc[d] EXCEPT !.state = "trashed"]
    <3>1. r \in Rows /\ r.state # "gone" BY <1>0 DEF TypeOK, Rows
    <3>2. doc' = [doc EXCEPT ![d] = r] BY <1>2, <2>4 DEF TrashApproved
    <3> HIDE DEF r
    <3> QED BY <2>1, <2>2, <2>3, <2>4, <3>1, <3>2, RowActions
  <2>5. CASE ~Exists(d)
    <3>1. doc' = doc BY <1>2, <2>5 DEF TrashApproved
    <3>2. TypeOK' BY <1>0, <2>1, <2>2, <2>3, <3>1 DEF TypeOK, given, Erasing
    <3> QED BY <2>3, <3>1, <3>2, Quiet DEF Spared, Exists
  <2> QED BY <2>4, <2>5
<1>3. CASE EraseApproved(d)
  <2>1. edits' \in 0..MaxEdits /\ poll' = poll /\ poll \in Polls
        /\ \A t \in poll.todo : t.doc \notin poll.held
    BY <1>0, <1>3 DEF EraseApproved, TypeOK
  <2> QED BY <1>0, <1>3, <2>1, BeginKeeps DEF EraseApproved
<1>4. CASE EraseMoot(d)
  <2>1. UNCHANGED <<doc, content, locked, register, poll, job, edits, faults, given>>
        /\ requests' \subseteq requests
    BY <1>4 DEF EraseMoot
  <2>2. TypeOK' BY <1>0, <2>1 DEF TypeOK, given, Erasing
  <2> QED BY <2>1, <2>2, Quiet DEF Spared, Exists
<1> QED BY <1>1, <1>2, <1>3, <1>4

(***************************************************************************)
(* Physical deletion.                                                      *)
(***************************************************************************)
LEMMA Deleting ==
    ASSUME TypeOK, NEW p \in Workers, Erasing(p)
    PROVE  /\ job[p].at \in Documents /\ job[p].parts \in SUBSET Parts
           /\ job[p] = [at |-> job[p].at, parts |-> job[p].parts, bypass |-> job[p].bypass]
           /\ job[p].bypass \in BOOLEAN
BY DEF TypeOK, Erasing

LEMMA DeleteKeeps ==
    ASSUME IInv, NEW p \in Workers, NEW v \in Parts, DeletePart(p, v)
    PROVE  IInv' /\ Spared
<1> DEFINE d == job[p].at
           j == [at |-> d, parts |-> job[p].parts \ {v}, bypass |-> job[p].bypass]
<1>0. TypeOK /\ Erasing(p) /\ "poll" \in Workers BY DEF IInv, DeletePart, Workers
<1>1. d \in Documents /\ j \in Jobs BY <1>0, Deleting DEF Jobs
<1>2. job' = [job EXCEPT ![p] = j]
  <2>0. \A a, b, c, n : [[at |-> a, parts |-> b, bypass |-> c] EXCEPT !.parts = n]
                            = [at |-> a, parts |-> n, bypass |-> c]
    OBVIOUS
  <2>1. [job[p] EXCEPT !.parts = job[p].parts \ {v}] = j
    <3>1. job[p] = [at |-> d, parts |-> job[p].parts, bypass |-> job[p].bypass]
      BY <1>0, Deleting
    <3> QED BY <2>0, <3>1
  <2> QED BY <2>1 DEF DeletePart
<1> HIDE DEF j
<1>3. job' \in [Workers -> Jobs] /\ job'[p] = j /\ \A q \in Workers \ {p} : job'[q] = job[q]
  BY <1>0, <1>1, <1>2 DEF TypeOK, Jobs
<1>4. /\ content' = [content EXCEPT ![d] = content[d] \ {v}]
      /\ UNCHANGED <<doc, locked, register, requests, poll, edits, faults, given>>
  BY DEF DeletePart
<1>5. /\ content' \in [Documents -> SUBSET Parts] /\ content'[d] = content[d] \ {v}
      /\ \A e \in Documents : content'[e] \subseteq content[e]
      /\ \A e \in Documents \ {d} : content'[e] = content[e]
  BY <1>0, <1>1, <1>4 DEF TypeOK
<1>6. TypeOK'
  <2>1. poll.phase = "asleep" => ~Erasing("poll")'
    BY <1>0, <1>3 DEF TypeOK, Erasing
  <2> QED BY <1>0, <1>3, <1>4, <1>5, <2>1 DEF TypeOK, given, Jobs
<1>7. Accounted' BY <1>4, <1>5 DEF IInv, Accounted, Exists
<1>8. Remaining'
  <2> SUFFICES ASSUME NEW q \in Workers, Erasing(q)'
               PROVE  content'[job'[q].at] \subseteq job'[q].parts
    BY DEF Remaining
  <2>1. CASE q = p
    <3>1. content[d] \subseteq job[p].parts BY <1>0 DEF IInv, Remaining
    <3> QED BY <1>3, <1>5, <2>1, <3>1 DEF j
  <2>2. CASE q # p
    <3>1. job'[q] = job[q] /\ Erasing(q) BY <1>3, <2>2 DEF Erasing
    <3>2. content[job[q].at] \subseteq job[q].parts /\ job[q].at \in Documents
      BY <1>0, <3>1, Deleting DEF IInv, Remaining
    <3> QED BY <1>5, <3>1, <3>2
  <2> QED BY <2>1, <2>2
<1>9. Clear'
  <2>1. CASE p = "poll" BY <1>0, <1>3, <1>4, <2>1 DEF IInv, Clear, j
  <2>2. CASE p # "poll" BY <1>0, <1>3, <1>4, <2>2 DEF IInv, Clear, Erasing
  <2> QED BY <2>1, <2>2
<1>10. Spared
  <2>1. CASE p = "poll"
    <3>1. d \notin poll.held /\ poll.held \subseteq Documents
      BY <1>0, <2>1 DEF IInv, Clear, TypeOK, Polls
    <3> QED BY <1>4, <1>5, <3>1 DEF Spared
  <2>2. CASE p # "poll" BY <1>0, <1>3, <1>4, <2>2 DEF Spared
  <2> QED BY <2>1, <2>2
<1> QED BY <1>6, <1>7, <1>8, <1>9, <1>10 DEF IInv

LEMMA CommitKeeps ==
    ASSUME IInv, NEW p \in Workers, CommitErase(p)
    PROVE  IInv' /\ Spared
<1> DEFINE d == job[p].at
<1>0. TypeOK /\ Erasing(p) /\ "poll" \in Workers BY DEF IInv, CommitErase, Workers
<1>1. d \in Documents BY <1>0, Deleting
<1>2. /\ doc' = [doc EXCEPT ![d] = Gone]
      /\ register' = [register EXCEPT ![d] = register[d] + 1]
      /\ requests' = Answered(p, d) /\ Done(p)
      /\ UNCHANGED <<content, locked, poll, edits, faults, given>>
  BY DEF CommitErase
<1>3. job' \in [Workers -> Jobs] /\ job'[p] = NoJob /\ \A q \in Workers \ {p} : job'[q] = job[q]
  BY <1>0, <1>2, JobEnds
<1>4. Gone \in Rows /\ Gone.state = "gone" BY DEF Gone, New, Rows
<1>5. doc' \in [Documents -> Rows] /\ doc'[d] = Gone
      /\ \A e \in Documents \ {d} : doc'[e] = doc[e]
  BY <1>0, <1>1, <1>2, <1>4 DEF TypeOK
<1>6. register' \in [Documents -> Nat] /\ register'[d] # 0
      /\ \A e \in Documents \ {d} : register'[e] = register[e]
  BY <1>0, <1>1, <1>2 DEF TypeOK
<1>7. TypeOK'
  <2>1. poll.phase = "asleep" => ~Erasing("poll")'
    BY <1>0, <1>3 DEF TypeOK, Erasing
  <2>2. requests' \subseteq {"document.delete", "document.force_delete"} \X Documents
    BY <1>0, <1>2 DEF TypeOK, Answered
  <2> QED BY <1>0, <1>2, <1>3, <1>5, <1>6, <2>1, <2>2 DEF TypeOK, given, Jobs
<1>8. Accounted'
  <2>1. content[d] = {}
    <3>1. job[p].parts = {} BY DEF CommitErase
    <3> QED BY <1>0, <3>1 DEF IInv, Remaining
  <2> SUFFICES ASSUME NEW e \in Documents
               PROVE  /\ Exists(e)' <=> register'[e] = 0
                      /\ ~Exists(e)' => content'[e] = {}
    BY DEF Accounted
  <2>2. CASE e = d BY <1>2, <1>4, <1>5, <1>6, <2>1, <2>2 DEF Exists
  <2>3. CASE e # d BY <1>2, <1>5, <1>6, <2>3 DEF IInv, Accounted, Exists
  <2> QED BY <2>2, <2>3
<1>9. Remaining' BY <1>2, <1>3 DEF IInv, Remaining, Erasing
<1>10. Clear' BY <1>0, <1>2, <1>3 DEF IInv, Clear, Erasing
<1>11. Spared
  <2>1. CASE p = "poll"
    <3>1. d \notin poll.held /\ poll.held \subseteq Documents
      BY <1>0, <2>1 DEF IInv, Clear, TypeOK, Polls
    <3> QED BY <1>2, <1>5, <3>1 DEF Spared
  <2>2. CASE p # "poll" BY <1>0, <1>2, <1>3, <2>2 DEF Spared
  <2> QED BY <2>1, <2>2
<1> QED BY <1>7, <1>8, <1>9, <1>10, <1>11 DEF IInv

(* What ends a deletion before its commit.                                 *)
LEMMA BrokenOff ==
    ASSUME IInv, NEW p \in Workers, Blocked(p) \/ EraseRefused(p) \/ JobLost(p)
    PROVE  IInv' /\ Spared
<1>0. TypeOK /\ "poll" \in Workers BY DEF IInv, Workers
<1>1. UNCHANGED <<doc, content, locked, register, requests, edits, given>>
  BY DEF Blocked, EraseRefused, JobLost
<1>2. faults' \in 0..MaxFaults BY <1>0, Faults DEF Blocked, EraseRefused, JobLost, TypeOK
<1>3. Raise(p) \/ (Done(p) /\ UNCHANGED poll)
  BY Zenon DEF Blocked, EraseRefused, JobLost
<1>4. job' \in [Workers -> Jobs] /\ job'[p] = NoJob /\ \A q \in Workers \ {p} : job'[q] = job[q]
  BY <1>0, <1>3, Raised, JobEnds
<1>5. poll' \in Polls /\ (\A t \in poll'.todo : t.doc \notin poll'.held)
      /\ (poll'.phase = "asleep" => poll' = Asleep /\ ~Erasing("poll")')
      /\ (poll' = poll \/ p = "poll")
  <2>1. CASE Raise(p) BY <1>0, <2>1, Raised
  <2>2. CASE Done(p) /\ UNCHANGED poll
    BY <1>0, <1>4, <2>2 DEF TypeOK, Erasing
  <2> QED BY <1>3, <2>1, <2>2
<1>6. TypeOK' BY <1>0, <1>1, <1>2, <1>4, <1>5 DEF TypeOK, given, Jobs
<1>7. Erasing("poll")' => poll'.held = poll.held BY <1>4, <1>5 DEF Erasing
<1> QED BY <1>1, <1>4, <1>6, <1>7, Quiet DEF Spared, Exists

(***************************************************************************)
(* The poll loop.                                                          *)
(***************************************************************************)
LEMMA ListKeeps ==
    ASSUME IInv, NEW phase, NEW next \in {"due", "trash", "quarantine"},
           NEW due \in SUBSET (Documents \ Held), List(phase, next, due)
    PROVE  IInv' /\ Spared
<1>0. TypeOK BY DEF IInv
<1>1. /\ poll' = [phase |-> next, todo |-> {Listed(d) : d \in due}, held |-> Held]
      /\ ~Erasing("poll")
      /\ UNCHANGED <<doc, content, locked, register, requests, job, edits, faults, given>>
  BY DEF List
<1>2. \A d \in due : Listed(d) \in [doc : Documents, asked : BOOLEAN,
                                    plan : {"none", "trash", "erase", "pseudonymize"}]
                     /\ Listed(d).doc = d
  BY <1>0 DEF TypeOK, Rows, Listed
<1>3. poll' \in Polls /\ \A t \in poll'.todo : t.doc \notin poll'.held
  BY <1>1, <1>2 DEF Polls, Held
<1>4. TypeOK' BY <1>0, <1>1, <1>3 DEF TypeOK, given
<1> QED BY <1>1, <1>4, Quiet DEF Spared, Exists, Erasing

(* One that was listed is taken up.                                        *)
LEMMA TakenUp ==
    ASSUME TypeOK, NEW phase \in {"due", "trash", "quarantine"}, NEW t, Takes(phase, t), Taken(t)
    PROVE  /\ poll' \in Polls /\ poll'.held = poll.held /\ poll'.phase = poll.phase
           /\ poll'.phase # "asleep" /\ \A s \in poll'.todo : s.doc \notin poll'.held
BY DEF TypeOK, Takes, Taken, Polls

LEMMA ToDo ==
    ASSUME TypeOK, NEW phase, NEW t, Takes(phase, t)
    PROVE  t.doc \in Documents /\ t.doc \notin poll.held
BY DEF TypeOK, Takes, Polls

LEMMA UpdateKeeps ==
    ASSUME IInv, NEW phase \in {"due", "trash", "quarantine"}, NEW t, Takes(phase, t),
           NEW r, Exists(t.doc) => r \in Rows /\ r.state # "gone", Update(t, r),
           requests' \subseteq {"document.delete", "document.force_delete"} \X Documents
    PROVE  IInv' /\ Spared
<1>0. TypeOK /\ t.doc \in Documents /\ t.doc \notin poll.held BY ToDo DEF IInv
<1>1. UNCHANGED <<content, locked, register, edits, faults, given, job>> /\ ~Erasing("poll")
  BY DEF Takes, Update
<1>2. CASE Exists(t.doc)
  <2>1. doc' = [doc EXCEPT ![t.doc] = r] /\ Taken(t) BY <1>2 DEF Update
  <2>2. /\ doc' \in [Documents -> Rows]
        /\ \A e \in Documents : Exists(e)' <=> Exists(e)
        /\ \A e \in Documents \ {t.doc} : doc'[e] = doc[e]
    BY <1>0, <1>2, <2>1, RowChanges
  <2>3. /\ poll' \in Polls /\ poll'.held = poll.held
        /\ poll'.phase # "asleep" /\ \A s \in poll'.todo : s.doc \notin poll'.held
    BY <1>0, <2>1, TakenUp
  <2>4. TypeOK' BY <1>0, <1>1, <2>2, <2>3 DEF TypeOK, given
  <2>5. poll.held \subseteq Documents BY <1>0 DEF TypeOK, Polls
  <2> QED BY <1>0, <1>1, <2>2, <2>3, <2>4, <2>5, Quiet DEF Spared
<1>3. CASE ~Exists(t.doc)
  <2>1. poll' = Asleep /\ doc' = doc BY <1>3 DEF Update
  <2>2. Asleep \in Polls /\ Asleep.todo = {} BY DEF Asleep, Polls
  <2>3. ~Erasing("poll")' BY <1>1 DEF Erasing
  <2>4. TypeOK' BY <1>0, <1>1, <2>1, <2>2, <2>3 DEF TypeOK, given
  <2> QED BY <1>1, <2>1, <2>3, <2>4, Quiet DEF Spared, Exists
<1> QED BY <1>2, <1>3

LEMMA ProcessKeeps == ASSUME IInv, NEW t \in poll.todo, Process(t) PROVE IInv' /\ Spared
<1>0. TypeOK /\ "poll" \in Workers BY DEF IInv, Workers
<1>1. t.doc \in Documents /\ doc[t.doc] \in Rows
      /\ requests \subseteq {"document.delete", "document.force_delete"} \X Documents
  BY <1>0 DEF TypeOK, Polls
<1>2. CASE PseudonymizeDue(t)
  <2> DEFINE r == [doc[t.doc] EXCEPT !.plan = "none", !.due = FALSE]
  <2>1. Exists(t.doc) => r \in Rows /\ r.state # "gone" BY <1>1 DEF Exists, Rows
  <2>2. Takes("due", t) /\ Update(t, r) /\ requests' = requests BY <1>2 DEF PseudonymizeDue
  <2> HIDE DEF r
  <2> QED BY <1>1, <2>1, <2>2, UpdateKeeps
<1>3. CASE TrashDue(t)
  <2> DEFINE r == [doc[t.doc] EXCEPT !.state = "trashed"]
  <2>1. r \in Rows /\ r.state # "gone" BY <1>1 DEF Rows
  <2>2. Takes("due", t) /\ Update(t, r) /\ requests' = requests BY <1>3 DEF TrashDue
  <2> HIDE DEF r
  <2> QED BY <1>1, <2>1, <2>2, UpdateKeeps
<1>4. CASE AskForErasure(t)
  <2>1. Takes("due", t) BY <1>4 DEF AskForErasure
  <2>2. CASE t.asked
    <3>1. Taken(t) /\ UNCHANGED <<doc, job, requests, content, locked, register, edits, faults, given>>
      BY <1>4, <2>2 DEF AskForErasure, Takes
    <3>2. /\ poll' \in Polls /\ poll'.held = poll.held
          /\ poll'.phase # "asleep" /\ \A s \in poll'.todo : s.doc \notin poll'.held
      BY <1>0, <2>1, <3>1, TakenUp
    <3>3. TypeOK' BY <1>0, <3>1, <3>2 DEF TypeOK, given
    <3> QED BY <3>1, <3>2, <3>3, Quiet DEF Spared, Exists
  <2>3. CASE ~t.asked
    <3> DEFINE r == [doc[t.doc] EXCEPT !.asked = TRUE]
    <3>1. Exists(t.doc) => r \in Rows /\ r.state # "gone" BY <1>1 DEF Exists, Rows
    <3>2. requests' = requests \cup {<<"document.force_delete", t.doc>>} /\ Update(t, r)
      BY <1>4, <2>3 DEF AskForErasure
    <3> HIDE DEF r
    <3> QED BY <1>1, <2>1, <3>1, <3>2, UpdateKeeps
  <2> QED BY <2>2, <2>3
<1>5. ASSUME NEW phase \in {"due", "trash", "quarantine"}, NEW bypass \in BOOLEAN,
             Takes(phase, t), Taken(t), Erase("poll", t.doc, bypass), UNCHANGED <<doc, requests>>
      PROVE  IInv' /\ Spared
  <2>1. t.doc \notin poll.held BY <1>0, <1>5, ToDo
  <2>2. /\ poll' \in Polls /\ poll'.held = poll.held /\ poll'.phase = poll.phase
        /\ poll'.phase # "asleep" /\ \A s \in poll'.todo : s.doc \notin poll'.held
    BY <1>0, <1>5, TakenUp
  <2>3. edits' \in 0..MaxEdits BY <1>0, <1>5 DEF Takes, TypeOK
  <2>4. ~Erasing("poll") /\ UNCHANGED <<doc, content, locked, register, requests, faults, given>>
    BY <1>5 DEF Takes
  <2> QED BY <1>0, <1>1, <1>5, <2>1, <2>2, <2>3, <2>4, BeginKeeps
<1>6. CASE EraseDue(t) BY <1>5, <1>6 DEF EraseDue
<1>7. CASE PurgeExpired(t) BY <1>5, <1>7 DEF PurgeExpired
<1>8. CASE AutoDelete(t)
  <2>1. CASE Exists(t.doc) BY <1>5, <1>8, <2>1 DEF AutoDelete
  <2>2. CASE ~Exists(t.doc)
    <3>1. /\ poll' = Asleep /\ ~Erasing("poll")
          /\ UNCHANGED <<doc, job, requests, content, locked, register, edits, faults, given>>
      BY <1>8, <2>2 DEF AutoDelete, Takes
    <3>2. Asleep \in Polls /\ Asleep.todo = {} BY DEF Asleep, Polls
    <3>3. ~Erasing("poll")' BY <3>1 DEF Erasing
    <3>4. TypeOK' BY <1>0, <3>1, <3>2, <3>3 DEF TypeOK, given
    <3> QED BY <3>1, <3>3, <3>4, Quiet DEF Spared, Exists
  <2> QED BY <2>1, <2>2
<1> QED BY <1>2, <1>3, <1>4, <1>6, <1>7, <1>8 DEF Process

LEMMA PollKeeps == ASSUME IInv, PollStep PROVE IInv' /\ Spared
<1>0. TypeOK BY DEF IInv
<1>1. CASE ListDue BY <1>1, ListKeeps DEF ListDue
<1>2. CASE ListExpiredTrash BY <1>2, ListKeeps DEF ListExpiredTrash
<1>3. CASE ListExpiredQuarantine BY <1>3, ListKeeps DEF ListExpiredQuarantine
<1>4. CASE EndTick
  <2>1. /\ poll' = Asleep /\ ~Erasing("poll")
        /\ UNCHANGED <<doc, content, locked, register, requests, job, edits, faults, given>>
    BY <1>4 DEF EndTick
  <2>2. Asleep \in Polls /\ Asleep.todo = {} BY DEF Asleep, Polls
  <2>3. ~Erasing("poll")' BY <2>1 DEF Erasing
  <2>4. TypeOK' BY <1>0, <2>1, <2>2, <2>3 DEF TypeOK, given
  <2> QED BY <2>1, <2>3, <2>4, Quiet DEF Spared, Exists
<1>5. ASSUME NEW t \in poll.todo, Process(t) PROVE IInv' /\ Spared
  BY <1>5, ProcessKeeps
<1> QED BY <1>1, <1>2, <1>3, <1>4, <1>5 DEF PollStep

LEMMA EveryStepKeeps == ASSUME IInv, [Next]_vars PROVE IInv' /\ Spared
<1>0. TypeOK BY DEF IInv
<1>1. CASE UNCHANGED vars
  <2>1. UNCHANGED <<doc, content, locked, register, given, requests, poll, job, edits, faults>>
    BY <1>1 DEF vars
  <2>2. TypeOK' BY <1>0, <2>1 DEF TypeOK, given, Erasing
  <2> QED BY <2>1, <2>2, Quiet DEF Spared, Exists
<1>2. CASE Next
  <2>1. ASSUME NEW p \in Workers, ErasureStep(p) \/ JobLost(p) PROVE IInv' /\ Spared
    BY <2>1, DeleteKeeps, CommitKeeps, BrokenOff DEF ErasureStep
  <2> QED
    BY <1>2, <2>1, TimeKeeps, UserKeeps, RequestsKeep, ConsumerKeeps, PollKeeps, Zenon DEF Next
<1> QED BY <1>1, <1>2

LEMMA Invariance == Spec => []IInv
<1>1. Init => IInv BY Initially
<1>2. IInv /\ [Next]_vars => IInv' BY EveryStepKeeps
<1> QED BY <1>1, <1>2, PTL DEF Spec

(***************************************************************************)
(* The theorems.                                                           *)
(***************************************************************************)
(* Rows, register, requests and workers of document-service are well       *)
(* typed, and the poll loop works only on what had no hold.                *)
THEOREM TypeCorrect == Spec => []TypeOK
<1>1. IInv => TypeOK BY DEF IInv
<1> QED BY <1>1, Invariance, PTL

(* Whoever deletes a document and whatever fails on the way, it is gone    *)
(* exactly when deletion_register has an entry, and then all its objects   *)
(* are gone from the storage.                                              *)
THEOREM ErasuresAreAccounted == Spec => []Accounted
<1>1. IInv => Accounted BY DEF IInv
<1> QED BY <1>1, Invariance, PTL

(* _retention_poll_loop neither trashes nor deletes, nor takes content     *)
(* from, a document that was under a hold when it listed the phase.        *)
THEOREM HoldsAreHonoured == Spec => HoldHonoured
<1>1. IInv /\ [Next]_vars => [Spared]_vars BY EveryStepKeeps
<1> QED BY <1>1, Invariance, PTL DEF Spec, HoldHonoured, Spared
=============================================================================
