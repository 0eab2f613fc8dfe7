--------------------------- MODULE DocumentCheckin ---------------------------
(***************************************************************************)
(* Editing a document of document-service: the editing lock, and the       *)
(* check-in of a new version with its conflict detection.                  *)
(*                                                                         *)
(* A check-in is one HTTP request: it reads the document, has the upload   *)
(* scanned and stored, and only then looks at lock and base version, adds  *)
(* the row and commits.  The row of the document stays in the session's    *)
(* identity map all that time, so the main version the base is compared    *)
(* with is the one of the first read; the lock is read anew.               *)
(***************************************************************************)
EXTENDS Naturals, Sequences, FiniteSets, FiniteSetsExt

CONSTANTS
    Users,          \* people, and the services that check in (OCR, signatures)
    Overlapping,    \* may check-ins overlap, and the statements of short transactions?
    MaxVersions,    \* bound: rows of document_version
    MaxFaults       \* bound: failed uploads and lost responses

ASSUME CheckinAssumption ==
    /\ "creator" \notin Users /\ "none" \notin Users
    /\ Overlapping \in BOOLEAN
    /\ MaxVersions \in Nat \ {0}
    /\ MaxFaults \in Nat

VARIABLES
    current,        \* document.current_version_number
    versions,       \* the rows of document_version, in the order of their ids
    lock,           \* the row of document_lock, or None
    request,        \* request[u]: the request u is waiting for
    base,           \* base[u]: the version u's edit is based on
    holding,        \* those who were told they have the lock, and not that it ended
    objects,        \* uploads in the object storage, by uploader and base
    faults

None == [by |-> "none"]
Idle == [pc |-> "idle"]

client == <<base, holding>>
vars == <<current, versions, lock, request, client, objects, faults>>

Row(n, b, conflict, u) == [number |-> n, base |-> b, conflict |-> conflict, by |-> u]

Init ==
    /\ current = 1
    /\ versions = <<Row(1, 0, FALSE, "creator")>>
    /\ lock = None
    /\ request = [u \in Users |-> Idle]
    /\ base = [u \in Users |-> 1]
    /\ holding = {}
    /\ objects = {}
    /\ faults = 0

Fault == faults < MaxFaults /\ faults' = faults + 1

(* The short transactions read and write at once; a check-in takes long.   *)
Transacting(u) == request[u].pc \in {"acquire", "release", "commit"}
CheckingIn(u) == request[u].pc \in {"upload", "check", "commit", "respond"}

MayTransact(u) == Overlapping \/ \A v \in Users \ {u} : ~Transacting(v)

Begins(u) == request[u] = Idle /\ MayTransact(u)

Ends(u) == request' = [request EXCEPT ![u] = Idle]

LockedByOther(u) == lock # None /\ lock.active /\ lock.by # u

(***************************************************************************)
(* The editing lock.  Every operation reads the row and writes it later.   *)
(***************************************************************************)
(* Opening the document for an edit takes the main version as its base.    *)
Download(u) ==
    /\ request[u] = Idle
    /\ base[u] # current
    /\ base' = [base EXCEPT ![u] = current]
    /\ UNCHANGED <<current, versions, lock, request, holding, objects, faults>>

AcquireRead(u) ==
    /\ Begins(u)
    /\ ~LockedByOther(u)
    /\ request' = [request EXCEPT ![u] = [pc |-> "acquire", found |-> lock # None]]
    /\ UNCHANGED <<current, versions, lock, client, objects, faults>>

(* An UPDATE of the row that was found, or an INSERT; either fails when    *)
(* the row has gone or come meanwhile.                                     *)
AcquireWrite(u) ==
    /\ request[u].pc = "acquire"
    /\ IF request[u].found = (lock # None)
       THEN /\ lock' = [by |-> u, active |-> TRUE]
            /\ holding' = holding \cup {u}
       ELSE UNCHANGED <<lock, holding>>
    /\ Ends(u)
    /\ UNCHANGED <<current, versions, base, objects, faults>>

(* Releasing is refused to all but the holder, expired or not.             *)
ReleaseRead(u) ==
    /\ Begins(u)
    /\ lock # None /\ lock.by = u
    /\ request' = [request EXCEPT ![u] = [pc |-> "release", forced |-> FALSE]]
    /\ UNCHANGED <<current, versions, lock, client, objects, faults>>

(* The force unlock, asked for or approved, asks for no holder.            *)
ForceReleaseRead(u) ==
    /\ Begins(u)
    /\ lock # None
    /\ request' = [request EXCEPT ![u] = [pc |-> "release", forced |-> TRUE]]
    /\ UNCHANGED <<current, versions, lock, client, objects, faults>>

(* The DELETE names the document only.  Of a force unlock the holder is    *)
(* notified.                                                               *)
ReleaseWrite(u) ==
    /\ request[u].pc = "release"
    /\ lock' = None
    /\ holding' = IF request[u].forced THEN {} ELSE holding \ {u}
    /\ Ends(u)
    /\ UNCHANGED <<current, versions, base, objects, faults>>

(* The holder knows when the lock ends.                                    *)
LockExpires ==
    /\ lock # None /\ lock.active
    /\ lock' = [lock EXCEPT !.active = FALSE]
    /\ holding' = holding \ {lock.by}
    /\ UNCHANGED <<current, versions, request, base, objects, faults>>

(***************************************************************************)
(* Check-in.                                                               *)
(***************************************************************************)
CheckinRead(u) ==
    /\ request[u] = Idle
    /\ Overlapping \/ \A v \in Users : ~CheckingIn(v)
    /\ Len(versions) < MaxVersions
    /\ ~LockedByOther(u)
    /\ request' = [request EXCEPT ![u] = [pc |-> "upload", base |-> base[u], seen |-> current]]
    /\ UNCHANGED <<current, versions, lock, client, objects, faults>>

(* The scan accepts the content, and the storage has it before any row.    *)
Upload(u) ==
    /\ request[u].pc = "upload"
    /\ objects' = objects \cup {<<u, request[u].base>>}
    /\ request' = [request EXCEPT ![u].pc = "check"]
    /\ UNCHANGED <<current, versions, lock, client, faults>>

UploadRefused(u) ==
    /\ request[u].pc = "upload"
    /\ Fault
    /\ Ends(u)
    /\ UNCHANGED <<current, versions, lock, client, objects>>

NextNumber == Max({versions[i].number : i \in DOMAIN versions}) + 1

Prepare(u, number, conflict) ==
    request' = [request EXCEPT ![u] =
        [pc |-> "commit", row |-> Row(number, request[u].base, conflict, u),
         unlock |-> lock # None /\ lock.by = u]]

(* Mutant: the number after the main version's.                            *)
CheckAfterMain(u) ==
    /\ request[u].pc = "check"
    /\ MayTransact(u)
    /\ ~LockedByOther(u)
    /\ Prepare(u, current + 1, request[u].base # request[u].seen)
    /\ UNCHANGED <<current, versions, lock, client, objects, faults>>

(* Mutant: the base is not compared.                                       *)
CheckNoBase(u) ==
    /\ request[u].pc = "check"
    /\ MayTransact(u)
    /\ ~LockedByOther(u)
    /\ Prepare(u, NextNumber, FALSE)
    /\ UNCHANGED <<current, versions, lock, client, objects, faults>>

(* The lock and the greatest number are read anew, the main version is not.*)
Check(u) ==
    /\ request[u].pc = "check"
    /\ MayTransact(u)
    /\ ~LockedByOther(u)
    /\ Prepare(u, NextNumber, request[u].base # request[u].seen)
    /\ UNCHANGED <<current, versions, lock, client, objects, faults>>

(* Locked meanwhile: what was uploaded stays in the storage.               *)
CheckRefused(u) ==
    /\ request[u].pc = "check"
    /\ LockedByOther(u)
    /\ Ends(u)
    /\ UNCHANGED <<current, versions, lock, client, objects, faults>>

(* Mutant: a conflict copy becomes the main version.                       *)
CommitAsMain(u) ==
    /\ request[u].pc = "commit"
    /\ LET row == [request[u].row EXCEPT !.conflict = FALSE] IN
       /\ versions' = Append(versions, row)
       /\ current' = row.number
       /\ lock' = IF request[u].unlock THEN None ELSE lock
       /\ request' = [request EXCEPT ![u] = [pc |-> "respond", row |-> row,
                                             unlocked |-> request[u].unlock]]
    /\ UNCHANGED <<client, objects, faults>>

(* Mutant: a conflict copy ends nobody's editing session.                  *)
CommitKeepsLock(u) ==
    /\ request[u].pc = "commit"
    /\ LET row == request[u].row IN
       /\ versions' = Append(versions, row)
       /\ current' = IF row.conflict THEN current ELSE row.number
       /\ lock' = IF request[u].unlock /\ ~row.conflict THEN None ELSE lock
       /\ request' = [request EXCEPT ![u] = [pc |-> "respond", row |-> row,
                                             unlocked |-> request[u].unlock]]
    /\ UNCHANGED <<client, objects, faults>>

(* The row, the main version and the end of the own lock in one commit.    *)
Commit(u) ==
    /\ request[u].pc = "commit"
    /\ LET row == request[u].row IN
       /\ versions' = Append(versions, row)
       /\ current' = IF row.conflict THEN current ELSE row.number
       /\ lock' = IF request[u].unlock THEN None ELSE lock
       /\ request' = [request EXCEPT ![u] = [pc |-> "respond", row |-> row,
                                             unlocked |-> request[u].unlock]]
    /\ UNCHANGED <<client, objects, faults>>

(* The event is published and the response sent: who checked in the main   *)
(* version works on with it.                                               *)
Respond(u) ==
    /\ request[u].pc = "respond"
    /\ base' = IF request[u].row.conflict THEN base
               ELSE [base EXCEPT ![u] = request[u].row.number]
    /\ holding' = IF request[u].unlocked THEN holding \ {u} ELSE holding
    /\ Ends(u)
    /\ UNCHANGED <<current, versions, lock, objects, faults>>

(* The response is lost, or the event cannot be published: the client may  *)
(* send the same again.                                                    *)
ResponseLost(u) ==
    /\ request[u].pc = "respond"
    /\ Fault
    /\ holding' = IF request[u].unlocked THEN holding \ {u} ELSE holding
    /\ Ends(u)
    /\ UNCHANGED <<current, versions, lock, base, objects>>

Next ==
    \/ \E u \in Users :
          \/ Download(u)
          \/ AcquireRead(u) \/ AcquireWrite(u)
          \/ ReleaseRead(u) \/ ForceReleaseRead(u) \/ ReleaseWrite(u)
          \/ CheckinRead(u) \/ Upload(u) \/ UploadRefused(u)
          \/ Check(u) \/ CheckRefused(u) \/ Commit(u) \/ Respond(u) \/ ResponseLost(u)
    \/ LockExpires

Spec == Init /\ [][Next]_vars

----------------------------------------------------------------------------
(***************************************************************************)
(* Properties.                                                             *)
(***************************************************************************)
Rows == [number : Nat, base : Nat, conflict : BOOLEAN, by : Users \cup {"creator"}]

Requests ==
    {Idle} \cup [pc : {"acquire"}, found : BOOLEAN] \cup [pc : {"release"}, forced : BOOLEAN]
    \cup [pc : {"upload", "check"}, base : Nat, seen : Nat]
    \cup [pc : {"commit"}, row : Rows, unlock : BOOLEAN]
    \cup [pc : {"respond"}, row : Rows, unlocked : BOOLEAN]

(* The rows and requests have their types; a check-in that goes on to the  *)
(* database has its content in the storage.                                *)
TypeOK ==
    /\ current \in Nat
    /\ versions \in Seq(Rows)
    /\ lock \in {None} \cup [by : Users, active : BOOLEAN]
    /\ request \in [Users -> Requests]
    /\ base \in [Users -> Nat]
    /\ \A u \in Users : request[u].pc = "check" => <<u, request[u].base>> \in objects
    /\ holding \subseteq Users
    /\ objects \subseteq Users \X Nat
    /\ faults \in 0..MaxFaults

(* A version that became the main one was based on the one before it: what *)
(* somebody else checked in meanwhile is never displaced unseen.           *)
NoLostUpdate ==
    \A i \in DOMAIN versions : versions[i].conflict \/
        versions[i].base = Max({0} \cup
            {versions[j].number : j \in {k \in 1..(i - 1) : ~versions[k].conflict}})

(* Every row a version can be fetched by: no number twice, and content in  *)
(* the storage for each.                                                   *)
VersionsRetrievable ==
    /\ \A i, j \in DOMAIN versions : versions[i].number = versions[j].number => i = j
    /\ \A i \in DOMAIN versions :
          versions[i].by \in Users => <<versions[i].by, versions[i].base>> \in objects

(* A check-in ends the editing session of who made it, conflict or not.    *)
CheckinEndsSession ==
    [][\A u \in Users :
         request[u].pc = "respond" /\ request'[u] = Idle => lock.by # u \/ ~lock.active]_vars

(* The versions implement the compare-and-set history.                     *)
MainVersions ==
    {[number |-> versions[i].number, base |-> versions[i].base] :
        i \in {j \in DOMAIN versions : ~versions[j].conflict}}

ConflictCopies == {versions[i].number : i \in {j \in DOMAIN versions : versions[j].conflict}}

History ==
    INSTANCE VersionHistory WITH
        VersionNumbers <- 1..MaxVersions, last <- current,
        main <- MainVersions, copies <- ConflictCopies

ImplementsHistory == History!Spec
=============================================================================
