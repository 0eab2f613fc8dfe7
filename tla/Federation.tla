----------------------------- MODULE Federation -----------------------------
(***************************************************************************)
(* federation-hub-service and the workflow-service of two installations: a *)
(* federated task of a process at the origin is handed over, through the   *)
(* hub, to a process of the target, whose answer completes the task.       *)
(*                                                                         *)
(* The hub stores nothing but the status of a handover and, while a leg of *)
(* it has to be repeated, its encrypted payload.  It calls the target      *)
(* (forward leg) and the origin (result leg) synchronously, while it holds *)
(* the row it has loaded before: what it writes afterwards is computed     *)
(* from that, and a column is written only when its value differs from the *)
(* loaded one.                                                             *)
(***************************************************************************)
EXTENDS Naturals, FiniteSets

CONSTANTS
    Tasks,          \* federated tasks of processes at the origin
    Handovers,      \* handover ids the origin may draw
    Operators,      \* who may restart a failed handover, one request each at a time
    MaxAttempts,    \* max_handover_delivery_attempts
    Overlapping,    \* may the hub deliver one handover twice at a time, in either
                    \* direction, and may two requests dispatch one task at a time?
    MaxRetries,     \* bound: restarts by the operators
    MaxFaults       \* bound: lost calls and answers, restarts of the hub

None == "none"

ASSUME FederationAssumption ==
    /\ MaxAttempts \in Nat \ {0}
    /\ MaxRetries \in Nat /\ MaxFaults \in Nat
    /\ Overlapping \in BOOLEAN
    /\ None \notin Tasks
    /\ Operators \cap {"create", "tick", "submit"} = {}

VARIABLES
    task,           \* task[t]: the federated task at the origin
    dispatch,       \* dispatch[h]: the task a request of the origin is dispatching
    row,            \* row[h]: the task of the outbound federation_task row of h
    posted,         \* requests on their way to the hub
    hub,            \* hub[h]: the handover row
    cached,         \* handover_retry_payload: <<h, leg>>
    job,            \* job[h][k]: a request or a tick of the hub at work on h
    calls,          \* calls of the hub that the installations have to deal with
    target,         \* target[h]: the process started for h, with its inbound row
    return,         \* return[h]: whether its result has been sent to the hub
    retries, faults

origin == <<task, dispatch, row>>
hubState == <<hub, cached, job>>
targetState == <<target, return>>
bounds == <<retries, faults>>
vars == <<origin, posted, hubState, calls, targetState, bounds>>

Kinds == {"create", "tick", "submit"} \cup Operators
Idle == [pc |-> "idle", leg |-> "forward", status |-> "absent", attempts |-> 0, ok |-> FALSE]
Absent == [status |-> "absent", attempts |-> 0, resultAttempts |-> 0]

Init ==
    /\ task = [t \in Tasks |-> "waiting"]
    /\ dispatch = [h \in Handovers |-> None]
    /\ row = [h \in Handovers |-> None]
    /\ posted = {}
    /\ hub = [h \in Handovers |-> Absent]
    /\ cached = {}
    /\ job = [h \in Handovers |-> [k \in Kinds |-> Idle]]
    /\ calls = {}
    /\ target = [h \in Handovers |-> None]
    /\ return = [h \in Handovers |-> "none"]
    /\ retries = 0 /\ faults = 0

Fault == faults < MaxFaults /\ faults' = faults + 1

Busy(h, k) == job[h][k].pc # "idle"
Forwarding(h) == \E k \in Kinds : Busy(h, k) /\ job[h][k].leg = "forward"
MayDeliver(h) == Overlapping \/ \A k \in Kinds : ~Busy(h, k)
Returning(h) == return[h] = "waiting" \/ <<h, "submit">> \in posted \/ Busy(h, "submit")

(***************************************************************************)
(* The origin.                                                             *)
(***************************************************************************)
TaskReady(t) ==
    /\ task[t] = "waiting"
    /\ task' = [task EXCEPT ![t] = "ready"]
    /\ UNCHANGED <<dispatch, row, posted, hubState, calls, targetState, bounds>>

(* Whatever request made the task ready finds no row for it.               *)
DispatchBegins(h, t) ==
    /\ task[t] = "ready"
    /\ dispatch[h] = None /\ row[h] = None
    /\ \A g \in Handovers : row[g] # t
    /\ ~Overlapping => \A g \in Handovers : dispatch[g] # t
    /\ dispatch' = [dispatch EXCEPT ![h] = t]
    /\ UNCHANGED <<task, row, posted, hubState, calls, targetState, bounds>>

(* The row is committed before the hub is called.  When that call fails,   *)
(* nobody repeats it.                                                      *)
DispatchCommits(h) ==
    /\ dispatch[h] # None
    /\ row' = [row EXCEPT ![h] = dispatch[h]]
    /\ dispatch' = [dispatch EXCEPT ![h] = None]
    /\ \/ posted' = posted \cup {<<h, "create">>} /\ UNCHANGED faults
       \/ Fault /\ UNCHANGED posted
    /\ UNCHANGED <<task, hubState, calls, targetState, retries>>

(***************************************************************************)
(* The hub.  Each handler loads the row, calls, and writes what came of it.*)
(***************************************************************************)
Call(h, k, leg, status, attempts) ==
    /\ job' = [job EXCEPT ![h][k] = [pc |-> "call", leg |-> leg, status |-> status,
                                     attempts |-> attempts, ok |-> FALSE]]
    /\ calls' = calls \cup {[handover |-> h, leg |-> leg, by |-> k, pc |-> "sent"]}

Attempts(h, leg) == IF leg = "forward" THEN hub[h].attempts ELSE hub[h].resultAttempts

(* POST /handovers commits the new row, then delivers.                     *)
CreateHandover(h) ==
    /\ <<h, "create">> \in posted
    /\ posted' = posted \ {<<h, "create">>}
    /\ hub' = [hub EXCEPT ![h].status = "pending"]
    /\ Call(h, "create", "forward", "pending", 0)
    /\ UNCHANGED <<origin, cached, targetState, bounds>>

(* POST /handovers/{id}/result asks for no status; an unknown handover is  *)
(* a 404.                                                                  *)
SubmitHandoverResult(h) ==
    /\ <<h, "submit">> \in posted
    /\ ~Busy(h, "submit") /\ MayDeliver(h)
    /\ posted' = posted \ {<<h, "submit">>}
    /\ IF hub[h].status = "purged"
       THEN /\ return' = [return EXCEPT ![h] = IF @ = "waiting" THEN "none" ELSE @]
            /\ UNCHANGED <<job, calls>>
       ELSE /\ Call(h, "submit", "result", hub[h].status, hub[h].resultAttempts)
            /\ UNCHANGED return
    /\ UNCHANGED <<origin, hub, cached, target, bounds>>

RetryLeg == [pending_retry |-> "forward", result_pending_retry |-> "result"]
GivenUp == [forward |-> "delivery_failed", result |-> "result_delivery_failed"]
Awaiting == [forward |-> "pending_retry", result |-> "result_pending_retry"]
Success == [forward |-> "delivered", result |-> "completed"]

MayForward(h) == Overlapping \/ ~Returning(h)

(* Mutant: the tick as it was before the return path had one.              *)
RetryTickForward(h) ==
    /\ \A g \in Handovers : ~Busy(g, "tick")
    /\ hub[h].status = "pending_retry"
    /\ MayDeliver(h) /\ MayForward(h)
    /\ Call(h, "tick", "forward", hub[h].status, hub[h].attempts)
    /\ UNCHANGED <<origin, posted, hub, cached, targetState, bounds>>

(* The poll loop takes one handover after the other, the forward leg       *)
(* first, and reads each anew.  Without a payload it gives up.             *)
RetryTick(h) ==
    /\ \A g \in Handovers : ~Busy(g, "tick")
    /\ hub[h].status \in DOMAIN RetryLeg
    /\ LET leg == RetryLeg[hub[h].status] IN
       /\ MayDeliver(h) /\ (leg = "forward" => MayForward(h))
       /\ IF <<h, leg>> \in cached
          THEN Call(h, "tick", leg, hub[h].status, Attempts(h, leg)) /\ UNCHANGED hub
          ELSE hub' = [hub EXCEPT ![h].status = GivenUp[leg]] /\ UNCHANGED <<job, calls>>
    /\ UNCHANGED <<origin, posted, cached, targetState, bounds>>

(* POST /handovers/{id}/retry resets the counter, commits, and delivers.   *)
RetryHandover(h, o) ==
    /\ retries < MaxRetries /\ retries' = retries + 1
    /\ ~Busy(h, o) /\ MayDeliver(h)
    /\ \E leg \in {"forward", "result"} :
          /\ hub[h].status = GivenUp[leg]
          /\ <<h, leg>> \in cached
          /\ leg = "forward" => MayForward(h)
          /\ hub' = [hub EXCEPT ![h] = IF leg = "forward" THEN [@ EXCEPT !.attempts = 0]
                                                         ELSE [@ EXCEPT !.resultAttempts = 0]]
          /\ Call(h, o, leg, GivenUp[leg], 0)
    /\ UNCHANGED <<origin, posted, cached, targetState, faults>>

(* mark_handover_delivered and mark_handover_result_delivered.             *)
Outcome(j) ==
    IF j.ok THEN Success[j.leg]
    ELSE IF j.attempts + 1 >= MaxAttempts THEN GivenUp[j.leg] ELSE Awaiting[j.leg]

(* The UPDATE of the columns that differ from the loaded row.              *)
Written(j, r) ==
    [status |-> IF Outcome(j) = j.status THEN r.status ELSE Outcome(j),
     attempts |-> IF ~j.ok /\ j.leg = "forward" THEN j.attempts + 1 ELSE r.attempts,
     resultAttempts |-> IF ~j.ok /\ j.leg = "result" THEN j.attempts + 1 ELSE r.resultAttempts]

(* Mutant: the payload is dropped once the attempts are exhausted.         *)
KeptUntilExhausted(h, k, j) ==
    IF j.ok \/ Outcome(j) = GivenUp[j.leg] THEN cached \ {<<h, j.leg>>}
    ELSE IF k \in {"create", "submit"} THEN cached \cup {<<h, j.leg>>}
    ELSE cached

(* A first attempt that fails caches its payload; only a repeated one that *)
(* succeeds removes it.                                                    *)
Kept(h, k, j) ==
    IF k \in {"create", "submit"}
    THEN IF j.ok THEN cached ELSE cached \cup {<<h, j.leg>>}
    ELSE IF j.ok THEN cached \ {<<h, j.leg>>} ELSE cached

(* A row that was purged meanwhile makes the UPDATE fail.                  *)
Commits(h, k) ==
    /\ job[h][k].pc = "answered"
    /\ job' = [job EXCEPT ![h][k] = Idle]
    /\ LET j == job[h][k] IN
       IF hub[h].status = "purged"
       THEN /\ return' = [return EXCEPT ![h] = IF k = "submit" /\ @ = "waiting" THEN "none" ELSE @]
            /\ UNCHANGED <<hub, cached>>
       ELSE /\ hub' = [hub EXCEPT ![h] = Written(j, @)]
            /\ cached' = Kept(h, k, j)
            /\ return' = [return EXCEPT ![h] =
                             IF k = "submit" /\ @ = "waiting" THEN "answered" ELSE @]
    /\ UNCHANGED <<origin, posted, calls, target, bounds>>

(* The cleanup loop.                                                       *)
Purge(h) ==
    /\ hub[h].status \in {"completed", "delivery_failed", "result_delivery_failed"}
    /\ hub' = [hub EXCEPT ![h].status = "purged"]
    /\ cached' = cached \ {<<h, "forward">>, <<h, "result">>}
    /\ UNCHANGED <<origin, posted, job, calls, targetState, bounds>>

(***************************************************************************)
(* Faults.                                                                 *)
(***************************************************************************)
Orphaned(c) == [c EXCEPT !.by = None]

(* A call never arrives, or its answer comes too late or not at all: then  *)
(* the installation deals with it nevertheless.                            *)
CallFails(c) ==
    /\ c.by # None
    /\ Fault
    /\ job' = [job EXCEPT ![c.handover][c.by].pc = "answered"]
    /\ \/ c.pc = "sent" /\ calls' = calls \ {c}
       \/ calls' = (calls \ {c}) \cup {Orphaned(c)}
    /\ UNCHANGED <<origin, posted, hub, cached, targetState, retries>>

(* What the hub was doing is lost, what it had committed is not.           *)
HubRestarts ==
    /\ \E h \in Handovers, k \in Kinds : Busy(h, k)
    /\ Fault
    /\ job' = [h \in Handovers |-> [k \in Kinds |-> Idle]]
    /\ calls' = {Orphaned(c) : c \in calls}
    /\ posted' = {}
    /\ return' = [h \in Handovers |-> IF return[h] = "waiting" THEN "none" ELSE return[h]]
    /\ UNCHANGED <<origin, hub, cached, target, retries>>

(***************************************************************************)
(* The target: POST /federation/inbound.                                   *)
(***************************************************************************)
Resolve(c, ok) ==
    /\ calls' = calls \ {c}
    /\ job' = IF c.by = None THEN job
              ELSE [job EXCEPT ![c.handover][c.by] = [@ EXCEPT !.pc = "answered", !.ok = ok]]

(* Mutant: no unique constraint on (handover_id, direction).               *)
InboundAgain(c) ==
    /\ c.leg = "forward" /\ c.pc = "sent"
    /\ target' = [target EXCEPT ![c.handover] = "working"]
    /\ calls' = (calls \ {c}) \cup {[c EXCEPT !.pc = "accepted"]}
    /\ UNCHANGED <<origin, posted, hubState, return, bounds>>

(* The process and the inbound row are committed together.  The process    *)
(* may have come to its federated_return task at once.                     *)
InboundAccepted(c) ==
    /\ c.leg = "forward" /\ c.pc = "sent"
    /\ target[c.handover] = None
    /\ \E state \in IF Overlapping THEN {"working", "ready"} ELSE {"working"} :
          target' = [target EXCEPT ![c.handover] = state]
    /\ calls' = (calls \ {c}) \cup {[c EXCEPT !.pc = "accepted"]}
    /\ UNCHANGED <<origin, posted, hubState, return, bounds>>

(* A handover that has been accepted before violates a unique constraint:  *)
(* a 500, like any other failure to the hub.                               *)
InboundDuplicate(c) ==
    /\ c.leg = "forward" /\ c.pc = "sent"
    /\ target[c.handover] # None
    /\ Resolve(c, FALSE)
    /\ UNCHANGED <<origin, posted, hub, cached, targetState, bounds>>

InboundAnswered(c) ==
    /\ c.pc = "accepted"
    /\ Resolve(c, TRUE)
    /\ UNCHANGED <<origin, posted, hub, cached, targetState, bounds>>

WorkDone(h) ==
    /\ target[h] = "working"
    /\ target' = [target EXCEPT ![h] = "ready"]
    /\ UNCHANGED <<origin, posted, hubState, calls, return, bounds>>

(* Any later request for the process tries again what was not sent.        *)
ReturnBegins(h) ==
    /\ target[h] = "ready"
    /\ return[h] = "none"
    /\ Overlapping \/ ~Forwarding(h)
    /\ return' = [return EXCEPT ![h] = "waiting"]
    /\ posted' = posted \cup {<<h, "submit">>}
    /\ UNCHANGED <<origin, hubState, calls, target, bounds>>

(* Delivered or not, what the hub has accepted is not sent again.          *)
ReturnMarked(h) ==
    /\ return[h] = "answered"
    /\ return' = [return EXCEPT ![h] = "returned"]
    /\ UNCHANGED <<origin, posted, hubState, calls, target, bounds>>

ReturnLost(h) ==
    /\ return[h] \in {"waiting", "answered"}
    /\ Fault
    /\ return' = [return EXCEPT ![h] = "none"]
    /\ \/ UNCHANGED posted
       \/ posted' = posted \ {<<h, "submit">>}
    /\ UNCHANGED <<origin, hubState, calls, target, retries>>

(***************************************************************************)
(* The origin again: POST /federation/inbound-result.                      *)
(***************************************************************************)
ResultAccepted(c) ==
    LET t == row[c.handover] IN
    /\ c.leg = "result"
    /\ task[t] = "ready"
    /\ task' = [task EXCEPT ![t] = "done"]
    /\ Resolve(c, TRUE)
    /\ UNCHANGED <<dispatch, row, posted, hub, cached, targetState, bounds>>

(* A task that is no longer ready is a 409.                                *)
ResultRefused(c) ==
    /\ c.leg = "result"
    /\ task[row[c.handover]] # "ready"
    /\ Resolve(c, FALSE)
    /\ UNCHANGED <<origin, posted, hub, cached, targetState, bounds>>

----------------------------------------------------------------------------
Handle(c) ==
    \/ InboundAccepted(c) \/ InboundDuplicate(c) \/ InboundAnswered(c)
    \/ ResultAccepted(c) \/ ResultRefused(c)

Next ==
    \/ \E t \in Tasks : TaskReady(t) \/ \E h \in Handovers : DispatchBegins(h, t)
    \/ \E h \in Handovers :
          \/ DispatchCommits(h)
          \/ CreateHandover(h) \/ SubmitHandoverResult(h)
          \/ RetryTick(h) \/ Purge(h)
          \/ \E o \in Operators : RetryHandover(h, o)
          \/ \E k \in Kinds : Commits(h, k)
          \/ WorkDone(h) \/ ReturnBegins(h) \/ ReturnMarked(h) \/ ReturnLost(h)
    \/ \E c \in calls : Handle(c) \/ CallFails(c)
    \/ HubRestarts

(* The poll loop goes on and takes every handover that is due in its turn; *)
(* calls are dealt with, and what was answered is committed.               *)
Fairness ==
    /\ \A h \in Handovers :
          /\ SF_vars(RetryTick(h))
          /\ \A k \in Kinds : WF_vars(Commits(h, k))
    /\ WF_vars(\E c \in calls : Handle(c))
    /\ \A h \in Handovers : WF_vars(SubmitHandoverResult(h))

Spec == Init /\ [][Next]_vars
FairSpec == Spec /\ Fairness

----------------------------------------------------------------------------
(***************************************************************************)
(* Properties.                                                             *)
(***************************************************************************)
Legs == {"forward", "result"}

Statuses ==
    {"absent", "pending", "pending_retry", "delivered", "delivery_failed",
     "result_pending_retry", "completed", "result_delivery_failed", "purged"}

Jobs ==
    [pc : {"idle", "call", "answered"}, leg : Legs, status : Statuses,
     attempts : Nat, ok : BOOLEAN]

(* The types; and a call that somebody waits for is known to its caller.   *)
TypeOK ==
    /\ task \in [Tasks -> {"waiting", "ready", "done"}]
    /\ dispatch \in [Handovers -> Tasks \cup {None}]
    /\ row \in [Handovers -> Tasks \cup {None}]
    /\ posted \subseteq Handovers \X {"create", "submit"}
    /\ hub \in [Handovers -> [status : Statuses, attempts : Nat, resultAttempts : Nat]]
    /\ cached \subseteq Handovers \X Legs
    /\ job \in [Handovers -> [Kinds -> Jobs]]
    /\ calls \subseteq [handover : Handovers, leg : Legs, by : Kinds \cup {None},
                        pc : {"sent", "accepted"}]
    /\ \A c \in calls : c.by # None =>
          job[c.handover][c.by].pc = "call" /\ job[c.handover][c.by].leg = c.leg
    /\ target \in [Handovers -> {None, "working", "ready"}]
    /\ return \in [Handovers -> {"none", "waiting", "answered", "returned"}]
    /\ retries \in 0..MaxRetries /\ faults \in 0..MaxFaults

(* A leg that is to be repeated, or that an operator may have repeated,    *)
(* has its payload, across restarts of the hub and whatever the other leg  *)
(* does: nobody has to hand over anew (handover_retry_payload).            *)
PayloadKept ==
    \A h \in Handovers, leg \in Legs :
        hub[h].status \in {Awaiting[leg], GivenUp[leg]} => <<h, leg>> \in cached

(* The retries of either leg come to an end that the hub shows, by success *)
(* or by giving up (max_handover_delivery_attempts).                       *)
RetriesEnd ==
    \A h \in Handovers :
        /\ hub[h].status = "pending_retry" ~> hub[h].status # "pending_retry"
        /\ hub[h].status = "result_pending_retry" ~>
               hub[h].status \in {"completed", "result_delivery_failed"}

(* One process elsewhere for each task, and its answer completes the task. *)
Started(t) == {h \in Handovers : row[h] = t /\ target[h] # None}

Stage ==
    [t \in Tasks |->
        IF task[t] = "ready" /\ Started(t) # {}
        THEN IF \E h \in Started(t) : target[h] = "ready" THEN "answered" ELSE "working"
        ELSE task[t]]

Promise == INSTANCE Exchange WITH stage <- Stage, processes <- [t \in Tasks |-> Started(t)]

ImplementsExchange == Promise!Spec
=============================================================================
