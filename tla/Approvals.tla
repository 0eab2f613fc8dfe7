------------------------------ MODULE Approvals ------------------------------
(***************************************************************************)
(* The four-eyes mechanism: approval requests of permission-service, and   *)
(* the services that execute what was approved.                            *)
(*                                                                         *)
(* A decision is a request of its own: it reads the row, writes it and     *)
(* commits, and only then publishes permission.approval.approved.  The     *)
(* service that owns the action consumes the message, at least once, and   *)
(* executes the action in a transaction of its own.  Meanwhile the same    *)
(* objects are changed directly, by those who need no approval.            *)
(***************************************************************************)
EXTENDS Naturals, FiniteSets

CONSTANTS
    Requests,       \* approval requests
    ActionOf,       \* the action_type of a request
    InitiatorOf,    \* who initiates it
    People,
    Holders,        \* the people who hold the permission the configuration requires
    Serialised,     \* does a request have one decision under way at a time?
    MaxFaults       \* bound: configuration changes, stops, failed handlers, duplicates

(* The gated actions, by what a second execution does.                     *)
Actions == {"scope_lock.create", "scope_lock.release", "not_shutdown.trigger",
            "role_assignment.create", "role.create", "superuser.activate", "force_unlock"}

ASSUME ApprovalsAssumption ==
    /\ ActionOf \in [Requests -> Actions]
    /\ InitiatorOf \in [Requests -> People]
    /\ Holders \subseteq People
    /\ Serialised \in BOOLEAN
    /\ MaxFaults \in Nat

VARIABLES
    request,        \* request[r]: the approval_request row
    requires,       \* the actions whose configuration says requires_approval
    decision,       \* decision[p]: the approve or reject request p is waiting for
    published,      \* the messages <<request, approver>> in the stream
    acked,          \* those acknowledged
    executor,       \* executor[s]: the message the service s handles
    objects,        \* of what the actions make and end, what exists
    outcome,        \* outcome[r]: has the action been executed, or found its target gone?
    faults

deciding == <<request, decision>>
bus == <<published, acked, executor>>
vars == <<deciding, requires, bus, objects, outcome, faults>>

None == "none"

(***************************************************************************)
(* What the actions act on: one scope lock, maintenance mode, one role and *)
(* its assignment, the active break-glass account and one document lock.   *)
(***************************************************************************)
Objects == {"scopeLock", "maintenance", "assignment", "role", "superuser", "documentLock"}

ObjectOf(a) ==
    CASE a \in {"scope_lock.create", "scope_lock.release"} -> "scopeLock"
      [] a = "not_shutdown.trigger" -> "maintenance"
      [] a = "role_assignment.create" -> "assignment"
      [] a = "role.create" -> "role"
      [] a = "superuser.activate" -> "superuser"
      [] a = "force_unlock" -> "documentLock"

Ends(a) == a \in {"scope_lock.release", "force_unlock"}

Services == {"permission-service", "auth-service", "document-service"}

Executes(s, a) ==
    s = CASE a = "superuser.activate" -> "auth-service"
          [] a = "force_unlock" -> "document-service"
          [] OTHER -> "permission-service"

(* A target that is gone is logged, and the message acknowledged.          *)
Gone(a, o) == Ends(a) /\ ObjectOf(a) \notin o

(* The second role of a name is an IntegrityError nobody catches.          *)
Raises(a, o) == a = "role.create" /\ "role" \in o

Effect(a, o) == IF Ends(a) THEN o \ {ObjectOf(a)} ELSE o \cup {ObjectOf(a)}

NoRequest == [status |-> "none", approvedBy |-> None, rejectedBy |-> None]
Undecided == [pc |-> "idle"]
Waiting == [pc |-> "idle"]

Init ==
    /\ request = [r \in Requests |-> NoRequest]
    /\ requires \in {{}, {"superuser.activate"}}
    /\ decision = [p \in People |-> Undecided]
    /\ published = {}
    /\ acked = {}
    /\ executor = [s \in Services |-> Waiting]
    /\ objects = {}
    /\ outcome = [r \in Requests |-> "none"]
    /\ faults = 0

Fault == faults < MaxFaults /\ faults' = faults + 1

(***************************************************************************)
(* Configuration and requests.                                             *)
(***************************************************************************)
PutApprovalConfig(a) ==
    /\ Fault
    /\ requires' \in {requires \cup {a}, requires \ {a}}
    /\ requires' # requires
    /\ UNCHANGED <<deciding, bus, objects, outcome>>

CreateApprovalRequest(r) ==
    /\ request[r].status = "none"
    /\ InitiatorOf[r] \in Holders
    /\ request' = [request EXCEPT ![r].status = "pending"]
    /\ UNCHANGED <<decision, requires, bus, objects, outcome, faults>>

(* Mutant: the break-glass account has the direct path of the others.      *)
ExecuteAnyDirectly(a) ==
    /\ a \notin requires
    /\ ~Gone(a, objects) /\ ~Raises(a, objects)
    /\ objects' = Effect(a, objects)
    /\ UNCHANGED <<deciding, requires, bus, outcome, faults>>

(* The gated endpoints execute at once when no approval is configured; the *)
(* break-glass account has no such path.                                   *)
ExecuteDirectly(a) ==
    /\ a \notin requires
    /\ a # "superuser.activate"
    /\ ~Gone(a, objects) /\ ~Raises(a, objects)
    /\ objects' = Effect(a, objects)
    /\ UNCHANGED <<deciding, requires, bus, outcome, faults>>

(***************************************************************************)
(* Decisions.  Who approves is not the initiator and holds the required    *)
(* permission; who rejects may be anyone.                                  *)
(***************************************************************************)
InFlight(r) == {p \in People : decision[p].pc # "idle" /\ decision[p].request = r}

(* Mutant: no look at the status.                                          *)
ReadAnyStatus(p, r, verb) ==
    /\ decision[p].pc = "idle"
    /\ request[r].status # "none"
    /\ Serialised => InFlight(r) = {}
    /\ verb = "approved" => p # InitiatorOf[r] /\ p \in Holders
    /\ decision' = [decision EXCEPT ![p] = [pc |-> "read", request |-> r, verb |-> verb]]
    /\ UNCHANGED <<request, requires, bus, objects, outcome, faults>>

ReadRequest(p, r, verb) ==
    /\ decision[p].pc = "idle"
    /\ request[r].status = "pending"
    /\ Serialised => InFlight(r) = {}
    /\ verb = "approved" => p # InitiatorOf[r] /\ p \in Holders
    /\ decision' = [decision EXCEPT ![p] = [pc |-> "read", request |-> r, verb |-> verb]]
    /\ UNCHANGED <<request, requires, bus, objects, outcome, faults>>

(* The UPDATE names the row only: it asks for no status.                   *)
CommitDecision(p) ==
    /\ decision[p].pc = "read"
    /\ request' = [request EXCEPT ![decision[p].request] =
          IF decision[p].verb = "approved"
          THEN [@ EXCEPT !.status = "approved", !.approvedBy = p]
          ELSE [@ EXCEPT !.status = "rejected", !.rejectedBy = p]]
    /\ decision' = [decision EXCEPT ![p].pc = "committed"]
    /\ UNCHANGED <<requires, bus, objects, outcome, faults>>

(* Mutant: the event of a rejection is taken for one of an approval.       *)
PublishAnyDecision(p) ==
    /\ decision[p].pc = "committed"
    /\ published' = published \cup {<<decision[p].request, p>>}
    /\ decision' = [decision EXCEPT ![p] = Undecided]
    /\ UNCHANGED <<request, requires, acked, executor, objects, outcome, faults>>

PublishDecision(p) ==
    /\ decision[p].pc = "committed"
    /\ published' = IF decision[p].verb = "approved"
                    THEN published \cup {<<decision[p].request, p>>} ELSE published
    /\ decision' = [decision EXCEPT ![p] = Undecided]
    /\ UNCHANGED <<request, requires, acked, executor, objects, outcome, faults>>

(* The service stops, or the bus refuses: an approval that is committed is *)
(* never published then.                                                   *)
DecisionLost(p) ==
    /\ decision[p].pc # "idle"
    /\ Fault
    /\ decision' = [decision EXCEPT ![p] = Undecided]
    /\ UNCHANGED <<request, requires, bus, objects, outcome>>

(***************************************************************************)
(* Execution.                                                              *)
(***************************************************************************)
ActionIn(s) == ActionOf[executor[s].msg[1]]

Deliver(s, m) ==
    /\ executor[s].pc = "idle"
    /\ m \in published
    /\ Executes(s, ActionOf[m[1]])
    /\ IF m \in acked THEN Fault ELSE UNCHANGED faults
    /\ executor' = [executor EXCEPT ![s] = [pc |-> "run", msg |-> m]]
    /\ UNCHANGED <<deciding, requires, published, acked, objects, outcome>>

Finish(s, how) ==
    /\ outcome' = [outcome EXCEPT ![executor[s].msg[1]] = IF @ = "done" THEN @ ELSE how]
    /\ executor' = [executor EXCEPT ![s].pc = "ack"]

(* Mutant: the message is dropped when no approval is configured any more. *)
ExecuteIfRequired(s) ==
    /\ executor[s].pc = "run"
    /\ ~Raises(ActionIn(s), objects)
    /\ IF ActionIn(s) \notin requires
       THEN executor' = [executor EXCEPT ![s].pc = "ack"] /\ UNCHANGED <<objects, outcome>>
       ELSE Finish(s, "done") /\ objects' = Effect(ActionIn(s), objects)
    /\ UNCHANGED <<deciding, requires, published, acked, faults>>

Execute(s) ==
    /\ executor[s].pc = "run"
    /\ ~Raises(ActionIn(s), objects)
    /\ IF Gone(ActionIn(s), objects)
       THEN Finish(s, "gone") /\ UNCHANGED objects
       ELSE Finish(s, "done") /\ objects' = Effect(ActionIn(s), objects)
    /\ UNCHANGED <<deciding, requires, published, acked, faults>>

Ack(s) ==
    /\ executor[s].pc = "ack"
    /\ acked' = acked \cup {executor[s].msg}
    /\ executor' = [executor EXCEPT ![s] = Waiting]
    /\ UNCHANGED <<deciding, requires, published, objects, outcome, faults>>

ExecutionRaises(s) ==
    /\ executor[s].pc = "run"
    /\ Raises(ActionIn(s), objects)
    /\ executor' = [executor EXCEPT ![s] = Waiting]
    /\ UNCHANGED <<deciding, requires, published, acked, objects, outcome, faults>>

(* The transaction or the event that reports it fails, the acknowledgement *)
(* is lost, the service stops: the message comes again.                    *)
ExecutionLost(s) ==
    /\ executor[s].pc # "idle"
    /\ Fault
    /\ executor' = [executor EXCEPT ![s] = Waiting]
    /\ UNCHANGED <<deciding, requires, published, acked, objects, outcome>>

(***************************************************************************)
(* What ends the effects without an approval: the superuser lifts          *)
(* maintenance mode or expires, an assignment is revoked, the holder       *)
(* releases the lock of a document.                                        *)
(***************************************************************************)
EndDirectly(o) ==
    /\ o \in objects \cap {"maintenance", "superuser", "assignment", "documentLock"}
    /\ o = "maintenance" => "superuser" \in objects
    /\ objects' = objects \ {o}
    /\ UNCHANGED <<deciding, requires, bus, outcome, faults>>

AcquireLock ==
    /\ "documentLock" \notin objects
    /\ objects' = objects \cup {"documentLock"}
    /\ UNCHANGED <<deciding, requires, bus, outcome, faults>>

Next ==
    \/ \E r \in Requests :
          \/ CreateApprovalRequest(r)
          \/ PutApprovalConfig(ActionOf[r]) \/ ExecuteDirectly(ActionOf[r])
    \/ \E p \in People :
          \/ \E r \in Requests, verb \in {"approved", "rejected"} : ReadRequest(p, r, verb)
          \/ CommitDecision(p) \/ PublishDecision(p) \/ DecisionLost(p)
    \/ \E s \in Services :
          \/ \E m \in published : Deliver(s, m)
          \/ Execute(s) \/ Ack(s) \/ ExecutionRaises(s) \/ ExecutionLost(s)
    \/ AcquireLock \/ \E o \in Objects : EndDirectly(o)

(* The services run, and JetStream delivers what is not acknowledged; of   *)
(* several such messages it passes over none for ever.                     *)
Fairness ==
    /\ \A r \in Requests :
          SF_vars(\E s \in Services, p \in People : <<r, p>> \notin acked /\ Deliver(s, <<r, p>>))
    /\ \A s \in Services : WF_vars(Execute(s) \/ Ack(s) \/ ExecutionRaises(s))

Spec == Init /\ [][Next]_vars
FairSpec == Spec /\ Fairness

----------------------------------------------------------------------------
(***************************************************************************)
(* Properties.                                                             *)
(***************************************************************************)
(* Every row, message and request has its type; only what was published is *)
(* ever handled or acknowledged, and only with an approver's name.         *)
TypeOK ==
    /\ request \in [Requests -> [status : {"none", "pending", "approved", "rejected"},
                                 approvedBy : People \cup {None}, rejectedBy : People \cup {None}]]
    /\ requires \subseteq Actions
    /\ decision \in [People -> {Undecided} \cup [pc : {"read", "committed"}, request : Requests,
                                                verb : {"approved", "rejected"}]]
    /\ published \subseteq Requests \X People
    /\ acked \subseteq published
    /\ executor \in [Services -> {Waiting} \cup [pc : {"run", "ack"}, msg : published]]
    /\ objects \subseteq Objects
    /\ outcome \in [Requests -> {"none", "done", "gone"}]
    /\ faults \in 0..MaxFaults

(* What has been executed is a request that stands approved, by somebody   *)
(* other than its initiator: not one that ended as rejected.               *)
OnlyApprovedExecuted ==
    \A r \in Requests : outcome[r] = "done" =>
        /\ request[r].status = "approved"
        /\ request[r].approvedBy \in People \ {InitiatorOf[r]}

(* A second decision is not possible: a decided row never changes again.   *)
DecisionIsFinal ==
    [][\A r \in Requests :
         request[r].status \in {"approved", "rejected"} => UNCHANGED request[r]]_vars

(* The break-glass account becomes active only on the approval of a second *)
(* person, however often a message is delivered and an account expires.    *)
BreakGlassNeedsTwo ==
    []["superuser" \in objects' \ objects =>
         \E r \in Requests :
             /\ ActionOf[r] = "superuser.activate"
             /\ request[r].approvedBy \in People \ {InitiatorOf[r]}]_vars

(* An approval that was published takes effect, finds its target gone, or  *)
(* runs into a role that exists already.                                   *)
ApprovedTakesEffect ==
    \A r \in Requests, p \in People :
        <<r, p>> \in published ~> (outcome[r] # "none" \/ "role" \in objects)
=============================================================================
