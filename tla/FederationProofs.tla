-------------------------- MODULE FederationProofs --------------------------
(***************************************************************************)
(* Theorems about Federation, for any tasks, handovers, operators, retries *)
(* and faults: when the hub delivers a handover once at a time, a payload  *)
(* is there as long as its leg may be repeated, and the handovers          *)
(* implement the abstract exchange.                                        *)
(***************************************************************************)
EXTENDS Federation, TLAPS

(* Somebody who waits for an answer waits for one call.                    *)
OneCall ==
    \A c, d \in calls : c.by # None /\ c.by = d.by /\ c.handover = d.handover => c = d

(* Before the hub knows a handover, nobody works on it.                    *)
Unknown(h) ==
    /\ hub[h].status = "absent" /\ target[h] = None
    /\ \A k \in Kinds : ~Busy(h, k)
    /\ \A c \in calls : c.handover # h
    /\ <<h, "submit">> \notin posted

Begun ==
    \A h \in Handovers :
        /\ <<h, "create">> \in posted => row[h] # None
        /\ row[h] = None \/ <<h, "create">> \in posted => Unknown(h)

OneJob == \A h \in Handovers, k, l \in Kinds : Busy(h, k) /\ Busy(h, l) => k = l

(* What a repeated attempt was begun with.                                 *)
Repeats(h, k) ==
    /\ job[h][k].status \in {Awaiting[job[h][k].leg], GivenUp[job[h][k].leg]}
    /\ hub[h].status # "purged" => <<h, job[h][k].leg>> \in cached

Backed == \A h \in Handovers, k \in Kinds \ {"create", "submit"} : Busy(h, k) => Repeats(h, k)

(* A task is dispatched once.                                              *)
Sole ==
    /\ \A g, h \in Handovers :
          /\ row[g] # None /\ row[g] = row[h] => g = h
          /\ dispatch[g] # None /\ dispatch[g] = dispatch[h] => g = h
          /\ dispatch[g] # None => row[h] # dispatch[g]
    /\ \A h \in Handovers :
          /\ dispatch[h] # None => row[h] = None /\ task[dispatch[h]] # "waiting"
          /\ row[h] # None => task[row[h]] # "waiting"

(* Only what has been done elsewhere is on its way back.                   *)
OnItsWayBack(h) ==
    \/ <<h, "submit">> \in posted
    \/ \E k \in Kinds : Busy(h, k) /\ job[h][k].leg = "result"
    \/ \E c \in calls : c.handover = h /\ c.leg = "result"
    \/ hub[h].status \in {"result_pending_retry", "result_delivery_failed"}

Answered ==
    /\ \A h \in Handovers : OnItsWayBack(h) => target[h] = "ready"
    /\ \A t \in Tasks : task[t] = "done" => \E h \in Handovers : row[h] = t /\ target[h] = "ready"

IInv ==
    /\ TypeOK /\ OneCall /\ Begun /\ OneJob /\ Backed /\ PayloadKept
    /\ Sole /\ Answered

LEMMA Initially == ASSUME Init PROVE IInv
<1>1. Absent \in [status : Statuses, attempts : Nat, resultAttempts : Nat] /\ Idle \in Jobs
  BY DEF Absent, Statuses, Idle, Jobs, Legs
<1>2. retries \in 0..MaxRetries /\ faults \in 0..MaxFaults BY FederationAssumption DEF Init
<1>3. \A h \in Handovers : /\ row[h] = None /\ dispatch[h] = None /\ target[h] = None
                          /\ hub[h].status = "absent" /\ \A k \in Kinds : ~Busy(h, k)
  BY DEF Init, Absent, Busy, Idle
<1>4. TypeOK BY <1>1, <1>2 DEF Init, TypeOK
<1>5. OneCall /\ Begun /\ OneJob /\ Backed
  BY <1>3 DEF Init, OneCall, Begun, Unknown, OneJob, Backed
<1>6. PayloadKept BY <1>3 DEF PayloadKept, Awaiting, GivenUp, Legs
<1>7. Sole BY <1>3 DEF Sole
<1>8. Answered BY <1>3 DEF Init, Answered, OnItsWayBack
<1> QED BY <1>4, <1>5, <1>6, <1>7, <1>8 DEF IInv

(***************************************************************************)
(* Operators.                                                              *)
(***************************************************************************)
LEMMA Faults == ASSUME TypeOK, Fault PROVE faults' \in 0..MaxFaults
BY FederationAssumption DEF TypeOK, Fault

(* A job is idle, or has all its fields.                                   *)
LEMMA JobFields ==
    ASSUME TypeOK, NEW h \in Handovers, NEW k \in Kinds
    PROVE  /\ Busy(h, k) <=> job[h][k].pc # "idle"
           /\ Busy(h, k) => /\ job[h][k].pc \in {"call", "answered"} /\ job[h][k].leg \in Legs
                            /\ job[h][k].status \in Statuses /\ job[h][k].attempts \in Nat
                            /\ job[h][k].ok \in BOOLEAN
<1>1. job[h][k] \in Jobs BY DEF TypeOK
<1> QED BY <1>1 DEF Jobs, Idle, Busy

(* A call is made for a handover that somebody has dispatched.             *)
LEMMA CallMade ==
    ASSUME TypeOK, OneCall, NEW h \in Handovers, NEW k \in Kinds, NEW leg \in Legs,
           NEW s \in Statuses, NEW n \in Nat,
           ~Busy(h, k), Call(h, k, leg, s, n)
    PROVE  /\ job' \in [Handovers -> [Kinds -> Jobs]]
           /\ job'[h][k] = [pc |-> "call", leg |-> leg, status |-> s, attempts |-> n, ok |-> FALSE]
           /\ Busy(h, k)'
           /\ \A g \in Handovers, l \in Kinds : <<g, l>> # <<h, k>> => job'[g][l] = job[g][l]
           /\ calls' \subseteq [handover : Handovers, leg : Legs, by : Kinds \cup {None},
                                pc : {"sent", "accepted"}]
           /\ \A c \in calls' : c.by # None =>
                 job'[c.handover][c.by].pc = "call" /\ job'[c.handover][c.by].leg = c.leg
           /\ \A c \in calls' : c \in calls \/ (c.handover = h /\ c.leg = leg)
           /\ OneCall'
<1> DEFINE new == [handover |-> h, leg |-> leg, by |-> k, pc |-> "sent"]
<1>1. [pc |-> "call", leg |-> leg, status |-> s, attempts |-> n, ok |-> FALSE] \in Jobs
  BY DEF Jobs
<1>2. calls' = calls \cup {new} BY DEF Call
<1>3. new \in [handover : Handovers, leg : Legs, by : Kinds \cup {None}, pc : {"sent", "accepted"}]
  OBVIOUS
<1>4. /\ job' \in [Handovers -> [Kinds -> Jobs]]
      /\ job'[h][k] = [pc |-> "call", leg |-> leg, status |-> s, attempts |-> n, ok |-> FALSE]
      /\ \A g \in Handovers, l \in Kinds : <<g, l>> # <<h, k>> => job'[g][l] = job[g][l]
  BY <1>1 DEF Call, TypeOK
<1>5. Busy(h, k)' BY <1>4 DEF Busy, Idle
<1>6. \A c \in calls : c.by # None =>
          c.by \in Kinds /\ c.handover \in Handovers /\ job[c.handover][c.by].pc = "call"
          /\ <<c.handover, c.by>> # <<h, k>>
  BY JobFields DEF TypeOK
<1>7. \A c \in calls' : c.by # None =>
          job'[c.handover][c.by].pc = "call" /\ job'[c.handover][c.by].leg = c.leg
  BY <1>2, <1>4, <1>6 DEF TypeOK
<1>8. OneCall'
  BY <1>2, <1>6 DEF OneCall
<1> QED BY <1>2, <1>3, <1>4, <1>5, <1>7, <1>8 DEF TypeOK

(* What does not concern the hub.                                          *)
LEMMA HubAtRest ==
    ASSUME IInv, UNCHANGED hubState, UNCHANGED calls
    PROVE  OneCall' /\ OneJob' /\ Backed' /\ PayloadKept'
BY DEF IInv, OneCall, OneJob, Backed, PayloadKept, Repeats, Busy, hubState

(* The hub delivers a leg of h, on which nobody else is at work.           *)
LEMMA Delivery ==
    ASSUME IInv, NEW h \in Handovers, NEW k \in Kinds, NEW leg \in Legs,
           NEW s \in Statuses, NEW n \in Nat, NEW r,
           Call(h, k, leg, s, n),
           \A l \in Kinds : ~Busy(h, l),
           row[h] # None, <<h, "create">> \notin posted', posted' \subseteq posted,
           r \in [status : Statuses, attempts : Nat, resultAttempts : Nat],
           hub' = [hub EXCEPT ![h] = r],
           r.status \in {hub[h].status, "pending"},
           leg = "result" => target[h] = "ready",
           k \in {"create", "submit"} \/ (<<h, leg>> \in cached /\ s \in {Awaiting[leg], GivenUp[leg]}),
           UNCHANGED <<origin, cached, target>>
    PROVE  /\ OneCall' /\ Begun' /\ OneJob' /\ Backed' /\ PayloadKept' /\ Sole' /\ Answered'
           /\ hub' \in [Handovers -> [status : Statuses, attempts : Nat, resultAttempts : Nat]]
           /\ job' \in [Handovers -> [Kinds -> Jobs]]
           /\ calls' \subseteq [handover : Handovers, leg : Legs, by : Kinds \cup {None},
                                pc : {"sent", "accepted"}]
           /\ \A c \in calls' : c.by # None =>
                 job'[c.handover][c.by].pc = "call" /\ job'[c.handover][c.by].leg = c.leg
<1> DEFINE new == [pc |-> "call", leg |-> leg, status |-> s, attempts |-> n, ok |-> FALSE]
<1>0. TypeOK /\ OneCall /\ Begun /\ OneJob /\ Backed /\ PayloadKept /\ Sole /\ Answered
  BY DEF IInv
<1>1. /\ job' \in [Handovers -> [Kinds -> Jobs]]
      /\ job'[h][k] = new
      /\ \A g \in Handovers, l \in Kinds : <<g, l>> # <<h, k>> => job'[g][l] = job[g][l]
      /\ calls' \subseteq [handover : Handovers, leg : Legs, by : Kinds \cup {None},
                           pc : {"sent", "accepted"}]
      /\ \A c \in calls' : c.by # None =>
            job'[c.handover][c.by].pc = "call" /\ job'[c.handover][c.by].leg = c.leg
      /\ \A c \in calls' : c \in calls \/ (c.handover = h /\ c.leg = leg)
      /\ OneCall'
  BY <1>0, CallMade
<1>2. /\ hub' \in [Handovers -> [status : Statuses, attempts : Nat, resultAttempts : Nat]]
      /\ hub'[h] = r /\ \A g \in Handovers \ {h} : hub'[g] = hub[g]
  BY <1>0 DEF TypeOK
<1>3. \A g \in Handovers, l \in Kinds : Busy(g, l)' <=> (Busy(g, l) \/ <<g, l>> = <<h, k>>)
  BY <1>1 DEF Busy
<1>4. Begun'
  <2> SUFFICES ASSUME NEW g \in Handovers
               PROVE  /\ <<g, "create">> \in posted' => row'[g] # None
                      /\ row'[g] = None \/ <<g, "create">> \in posted' => Unknown(g)'
    BY DEF Begun
  <2>1. <<g, "create">> \in posted' => row'[g] # None BY <1>0 DEF Begun, origin
  <2>2. ASSUME row'[g] = None \/ <<g, "create">> \in posted' PROVE Unknown(g)'
    <3>1. Unknown(g) /\ g # h BY <1>0, <2>2 DEF Begun, origin
    <3> QED BY <1>1, <1>2, <1>3, <3>1 DEF Unknown
  <2> QED BY <2>1, <2>2
<1>5. OneJob' BY <1>0, <1>3 DEF OneJob
<1>6. Backed'
  <2> SUFFICES ASSUME NEW g \in Handovers, NEW l \in Kinds \ {"create", "submit"}, Busy(g, l)'
               PROVE  Repeats(g, l)'
    BY DEF Backed
  <2>1. CASE <<g, l>> = <<h, k>> BY <1>1, <2>1 DEF Repeats
  <2>2. CASE <<g, l>> # <<h, k>>
    <3>1. g # h /\ Busy(g, l) BY <1>3, <2>2
    <3>2. Repeats(g, l) BY <1>0, <3>1 DEF Backed
    <3> QED BY <1>1, <1>2, <2>2, <3>1, <3>2 DEF Repeats
  <2> QED BY <2>1, <2>2
<1>7. PayloadKept'
  <2>1. \A x \in Legs : "pending" \notin {Awaiting[x], GivenUp[x]} BY DEF Legs, Awaiting, GivenUp
  <2> QED BY <1>0, <1>2, <2>1 DEF PayloadKept
<1>8. Sole' BY <1>0 DEF Sole, origin
<1>9. Answered'
  <2>1. ASSUME NEW g \in Handovers, OnItsWayBack(g)' PROVE target'[g] = "ready"
    <3>1. CASE g = h /\ leg = "result" BY <3>1
    <3>2. CASE g # h \/ leg # "result"
      <4>1. (\E l \in Kinds : Busy(g, l) /\ job[g][l].leg = "result")'
                => \E l \in Kinds : Busy(g, l) /\ job[g][l].leg = "result"
        BY <1>1, <1>3, <3>2
      <4>2. (\E c \in calls : c.handover = g /\ c.leg = "result")'
                => \E c \in calls : c.handover = g /\ c.leg = "result"
        BY <1>1, <3>2
      <4>3. hub'[g].status \in {"result_pending_retry", "result_delivery_failed"}
                => hub[g].status \in {"result_pending_retry", "result_delivery_failed"}
        BY <1>2
      <4> QED BY <1>0, <2>1, <4>1, <4>2, <4>3 DEF Answered, OnItsWayBack
    <3> QED BY <3>1, <3>2
  <2> QED BY <1>0, <2>1 DEF Answered, origin
<1> QED BY <1>1, <1>2, <1>4, <1>5, <1>6, <1>7, <1>8, <1>9

LEMMA KnownToHub ==
    ASSUME IInv, NEW h \in Handovers, ~Unknown(h)
    PROVE  row[h] # None /\ <<h, "create">> \notin posted
BY DEF IInv, Begun

LEMMA CreateStep == ASSUME IInv, NEW h \in Handovers, CreateHandover(h) PROVE IInv'
<1> DEFINE r == [hub[h] EXCEPT !.status = "pending"]
<1>1. Unknown(h) /\ row[h] # None BY DEF IInv, Begun, CreateHandover
<1>2. "create" \in Kinds /\ "forward" \in Legs /\ "pending" \in Statuses /\ 0 \in Nat
  BY DEF Kinds, Legs, Statuses
<1>3. r \in [status : Statuses, attempts : Nat, resultAttempts : Nat] /\ r.status = "pending"
  BY <1>2 DEF IInv, TypeOK
<1>4. /\ hub' = [hub EXCEPT ![h] = r] /\ Call(h, "create", "forward", "pending", 0)
      /\ posted' \subseteq posted /\ <<h, "create">> \notin posted'
      /\ UNCHANGED <<origin, cached, target, return, retries, faults>>
  BY DEF CreateHandover, targetState, bounds
<1>5. \A l \in Kinds : ~Busy(h, l) BY <1>1 DEF Unknown
<1> HIDE DEF r
<1>6. /\ OneCall' /\ Begun' /\ OneJob' /\ Backed' /\ PayloadKept' /\ Sole' /\ Answered'
      /\ hub' \in [Handovers -> [status : Statuses, attempts : Nat, resultAttempts : Nat]]
      /\ job' \in [Handovers -> [Kinds -> Jobs]]
      /\ calls' \subseteq [handover : Handovers, leg : Legs, by : Kinds \cup {None},
                           pc : {"sent", "accepted"}]
      /\ \A c \in calls' : c.by # None =>
            job'[c.handover][c.by].pc = "call" /\ job'[c.handover][c.by].leg = c.leg
  BY <1>1, <1>2, <1>3, <1>4, <1>5, Delivery
<1>7. TypeOK' BY <1>4, <1>6 DEF IInv, TypeOK, origin
<1> QED BY <1>6, <1>7 DEF IInv

LEMMA SubmitStep ==
    ASSUME IInv, ~Overlapping, NEW h \in Handovers, SubmitHandoverResult(h) PROVE IInv'
<1>1. target[h] = "ready" /\ <<h, "submit">> \in posted
  BY DEF IInv, Answered, OnItsWayBack, SubmitHandoverResult
<1>2. row[h] # None /\ <<h, "create">> \notin posted BY <1>1, KnownToHub DEF Unknown
<1>3. "submit" \in Kinds /\ "result" \in Legs BY DEF Kinds, Legs
<1>4. /\ posted' \subseteq posted /\ <<h, "create">> \notin posted'
      /\ UNCHANGED <<origin, hub, cached, target, retries, faults>>
  BY <1>2 DEF SubmitHandoverResult, bounds
<1>5. return' \in [Handovers -> {"none", "waiting", "answered", "returned"}]
  BY DEF SubmitHandoverResult, IInv, TypeOK
<1>6. CASE UNCHANGED <<job, calls>>
  <2>1. OneCall' /\ OneJob' /\ Backed' /\ PayloadKept' BY <1>4, <1>6, HubAtRest DEF hubState
  <2>2. TypeOK' BY <1>4, <1>5, <1>6 DEF IInv, TypeOK, origin
  <2>3. Begun' BY <1>4, <1>6 DEF IInv, Begun, Unknown, Busy, origin
  <2>4. Sole' BY <1>4 DEF IInv, Sole, origin
  <2>5. Answered' BY <1>4, <1>6 DEF IInv, Answered, OnItsWayBack, Busy, origin
  <2> QED BY <2>1, <2>2, <2>3, <2>4, <2>5 DEF IInv
<1>7. CASE Call(h, "submit", "result", hub[h].status, hub[h].resultAttempts)
  <2> DEFINE r == hub[h]
  <2>1. r \in [status : Statuses, attempts : Nat, resultAttempts : Nat]
        /\ r.status \in Statuses /\ r.resultAttempts \in Nat
    BY DEF IInv, TypeOK
  <2>2. hub' = [hub EXCEPT ![h] = r] BY <1>4 DEF IInv, TypeOK
  <2>3. \A l \in Kinds : ~Busy(h, l) BY DEF SubmitHandoverResult, MayDeliver
  <2>4. Call(h, "submit", "result", r.status, r.resultAttempts) BY <1>7
  <2> HIDE DEF r
  <2>5. r.status \in {hub[h].status, "pending"} BY DEF r
  <2>6. /\ OneCall' /\ Begun' /\ OneJob' /\ Backed' /\ PayloadKept' /\ Sole' /\ Answered'
        /\ job' \in [Handovers -> [Kinds -> Jobs]]
        /\ calls' \subseteq [handover : Handovers, leg : Legs, by : Kinds \cup {None},
                             pc : {"sent", "accepted"}]
        /\ \A c \in calls' : c.by # None =>
              job'[c.handover][c.by].pc = "call" /\ job'[c.handover][c.by].leg = c.leg
    BY <1>1, <1>2, <1>3, <1>4, <2>1, <2>2, <2>3, <2>4, <2>5, Delivery
  <2>7. TypeOK' BY <1>4, <1>5, <2>6 DEF IInv, TypeOK, origin
  <2> QED BY <2>6, <2>7 DEF IInv
<1> QED BY <1>6, <1>7 DEF SubmitHandoverResult

(* A repeated attempt: the payload of its leg is there.                    *)
LEMMA Repeated ==
    ASSUME IInv, NEW h \in Handovers, NEW k \in Kinds, NEW leg \in Legs, NEW r, NEW n \in Nat,
           k \notin {"create", "submit"}, \A l \in Kinds : ~Busy(h, l),
           hub[h].status \in {Awaiting[leg], GivenUp[leg]},
           Call(h, k, leg, hub[h].status, n),
           r \in [status : Statuses, attempts : Nat, resultAttempts : Nat],
           r.status = hub[h].status, hub' = [hub EXCEPT ![h] = r],
           retries' \in 0..MaxRetries,
           UNCHANGED <<origin, posted, cached, targetState, faults>>
    PROVE  IInv'
<1>1. hub[h].status # "absent" BY DEF Legs, Awaiting, GivenUp
<1>2. row[h] # None /\ <<h, "create">> \notin posted BY <1>1, KnownToHub DEF Unknown
<1>3. <<h, leg>> \in cached BY DEF IInv, PayloadKept
<1>4. leg = "result" => target[h] = "ready"
  <2>1. leg = "result" => hub[h].status \in {"result_pending_retry", "result_delivery_failed"}
    BY DEF Awaiting, GivenUp
  <2> QED BY <2>1 DEF IInv, Answered, OnItsWayBack
<1>5. hub[h].status \in Statuses BY DEF IInv, TypeOK
<1>6. UNCHANGED target /\ posted' \subseteq posted /\ <<h, "create">> \notin posted'
  BY <1>2 DEF targetState
<1>7. /\ OneCall' /\ Begun' /\ OneJob' /\ Backed' /\ PayloadKept' /\ Sole' /\ Answered'
      /\ hub' \in [Handovers -> [status : Statuses, attempts : Nat, resultAttempts : Nat]]
      /\ job' \in [Handovers -> [Kinds -> Jobs]]
      /\ calls' \subseteq [handover : Handovers, leg : Legs, by : Kinds \cup {None},
                           pc : {"sent", "accepted"}]
      /\ \A c \in calls' : c.by # None =>
            job'[c.handover][c.by].pc = "call" /\ job'[c.handover][c.by].leg = c.leg
  BY <1>2, <1>3, <1>4, <1>5, <1>6, Delivery
<1>8. TypeOK' BY <1>7 DEF IInv, TypeOK, origin, targetState
<1> QED BY <1>7, <1>8 DEF IInv

LEMMA TickStep == ASSUME IInv, ~Overlapping, NEW h \in Handovers, RetryTick(h) PROVE IInv'
<1> DEFINE leg == RetryLeg[hub[h].status]
           r == hub[h]
<1>1. leg \in Legs /\ hub[h].status = Awaiting[leg]
  BY DEF RetryTick, RetryLeg, Legs, Awaiting
<1>2. <<h, leg>> \in cached BY <1>1 DEF IInv, PayloadKept
<1>3. /\ Call(h, "tick", leg, hub[h].status, Attempts(h, leg)) /\ UNCHANGED hub
      /\ \A l \in Kinds : ~Busy(h, l)
      /\ UNCHANGED <<origin, posted, cached, targetState, bounds>>
  BY <1>2 DEF RetryTick, MayDeliver
<1>4. "tick" \in Kinds /\ Attempts(h, leg) \in Nat
  BY DEF Kinds, Attempts, IInv, TypeOK
<1>5. r \in [status : Statuses, attempts : Nat, resultAttempts : Nat]
      /\ hub' = [hub EXCEPT ![h] = r]
  BY <1>3 DEF IInv, TypeOK
<1>6. retries' \in 0..MaxRetries /\ UNCHANGED faults BY <1>3 DEF IInv, TypeOK, bounds
<1>7. r.status = hub[h].status OBVIOUS
<1> HIDE DEF leg, r
<1> QED BY <1>1, <1>3, <1>4, <1>5, <1>6, <1>7, Repeated

LEMMA RetryStep ==
    ASSUME IInv, ~Overlapping, NEW h \in Handovers, NEW o \in Operators, RetryHandover(h, o)
    PROVE  IInv'
<1>1. PICK leg \in Legs :
          /\ hub[h].status = GivenUp[leg]
          /\ hub' = [hub EXCEPT ![h] = IF leg = "forward" THEN [@ EXCEPT !.attempts = 0]
                                                         ELSE [@ EXCEPT !.resultAttempts = 0]]
          /\ Call(h, o, leg, GivenUp[leg], 0)
  BY DEF RetryHandover, Legs
<1> DEFINE r == IF leg = "forward" THEN [hub[h] EXCEPT !.attempts = 0]
                                   ELSE [hub[h] EXCEPT !.resultAttempts = 0]
<1>2. o \in Kinds /\ o \notin {"create", "submit"} BY FederationAssumption DEF Kinds
<1>3. /\ r \in [status : Statuses, attempts : Nat, resultAttempts : Nat]
      /\ r.status = hub[h].status
  BY DEF IInv, TypeOK
<1>4. hub' = [hub EXCEPT ![h] = r] BY <1>1
<1> HIDE DEF r
<1>5. retries' \in 0..MaxRetries BY FederationAssumption DEF RetryHandover, IInv, TypeOK
<1>6. \A l \in Kinds : ~Busy(h, l) BY DEF RetryHandover, MayDeliver
<1>7. UNCHANGED <<origin, posted, cached, targetState, faults>> BY DEF RetryHandover
<1>8. Call(h, o, leg, hub[h].status, 0) /\ 0 \in Nat BY <1>1
<1> QED BY <1>1, <1>2, <1>3, <1>4, <1>5, <1>6, <1>7, <1>8, Repeated

(***************************************************************************)
(* The origin dispatches.                                                  *)
(***************************************************************************)
LEMMA TaskStep == ASSUME IInv, NEW t \in Tasks, TaskReady(t) PROVE IInv'
<1>1. /\ task[t] = "waiting" /\ task' = [task EXCEPT ![t] = "ready"]
      /\ UNCHANGED <<dispatch, row, posted, hub, cached, job, calls, target, return, retries, faults>>
  BY DEF TaskReady, hubState, targetState, bounds
<1>2. OneCall' /\ OneJob' /\ Backed' /\ PayloadKept' BY <1>1, HubAtRest DEF hubState
<1>3. TypeOK' BY <1>1 DEF IInv, TypeOK
<1>4. Begun' BY <1>1 DEF IInv, Begun, Unknown, Busy
<1>5. \A u \in Tasks : task[u] # "waiting" => task'[u] = task[u] BY <1>1 DEF IInv, TypeOK
<1>6. Sole' BY <1>1, <1>5 DEF IInv, Sole, TypeOK
<1>7. \A u \in Tasks : task'[u] = "done" => task[u] = "done" BY <1>1 DEF IInv, TypeOK
<1>8. Answered' BY <1>1, <1>7 DEF IInv, Answered, OnItsWayBack, Busy
<1> QED BY <1>2, <1>3, <1>4, <1>6, <1>8 DEF IInv

LEMMA DispatchStep ==
    ASSUME IInv, ~Overlapping, NEW h \in Handovers, NEW t \in Tasks, DispatchBegins(h, t)
    PROVE  IInv'
<1>1. /\ task[t] = "ready" /\ dispatch[h] = None /\ row[h] = None
      /\ \A g \in Handovers : row[g] # t /\ dispatch[g] # t
      /\ dispatch' = [dispatch EXCEPT ![h] = t]
      /\ UNCHANGED <<task, row, posted, hub, cached, job, calls, target, return, retries, faults>>
  BY DEF DispatchBegins, hubState, targetState, bounds
<1>2. OneCall' /\ OneJob' /\ Backed' /\ PayloadKept' BY <1>1, HubAtRest DEF hubState
<1>3. TypeOK' BY <1>1 DEF IInv, TypeOK
<1>4. Begun' BY <1>1 DEF IInv, Begun, Unknown, Busy
<1>5. /\ dispatch'[h] = t /\ \A g \in Handovers \ {h} : dispatch'[g] = dispatch[g]
      /\ t # None
  BY <1>1, FederationAssumption DEF IInv, TypeOK
<1>6. Sole' BY <1>1, <1>5 DEF IInv, Sole
<1>7. Answered' BY <1>1 DEF IInv, Answered, OnItsWayBack, Busy
<1> QED BY <1>2, <1>3, <1>4, <1>6, <1>7 DEF IInv

LEMMA DispatchCommitStep ==
    ASSUME IInv, NEW h \in Handovers, DispatchCommits(h)
    PROVE  IInv'
<1>1. /\ dispatch[h] # None /\ row' = [row EXCEPT ![h] = dispatch[h]]
      /\ dispatch' = [dispatch EXCEPT ![h] = None]
      /\ posted' \in {posted, posted \cup {<<h, "create">>}}
      /\ UNCHANGED <<task, hub, cached, job, calls, target, return, retries>>
  BY DEF DispatchCommits, hubState, targetState
<1>2. faults' \in 0..MaxFaults BY Faults DEF DispatchCommits, IInv, TypeOK
<1>3. OneCall' /\ OneJob' /\ Backed' /\ PayloadKept' BY <1>1, HubAtRest DEF hubState
<1>4. TypeOK' BY <1>1, <1>2 DEF IInv, TypeOK
<1>5. /\ row[h] = None /\ row'[h] = dispatch[h] /\ dispatch'[h] = None
      /\ \A g \in Handovers \ {h} : row'[g] = row[g] /\ dispatch'[g] = dispatch[g]
  BY <1>1 DEF IInv, TypeOK, Sole
<1>6. Begun'
  <2> SUFFICES ASSUME NEW g \in Handovers
               PROVE  /\ <<g, "create">> \in posted' => row'[g] # None
                      /\ row'[g] = None \/ <<g, "create">> \in posted' => Unknown(g)'
    BY DEF Begun
  <2>1. Unknown(g) => Unknown(g)' BY <1>1 DEF Unknown, Busy
  <2>2. CASE g = h BY <1>1, <1>5, <2>1, <2>2 DEF IInv, Begun
  <2>3. CASE g # h
    <3>1. row'[g] = row[g] /\ (<<g, "create">> \in posted' => <<g, "create">> \in posted)
      BY <1>1, <1>5, <2>3
    <3> QED BY <2>1, <3>1 DEF IInv, Begun
  <2> QED BY <2>2, <2>3
<1>7. Sole' BY <1>1, <1>5 DEF IInv, Sole
<1>8. \A g \in Handovers : OnItsWayBack(g)' => OnItsWayBack(g)
  BY <1>1 DEF OnItsWayBack, Busy
<1>9. Unknown(h) BY <1>5 DEF IInv, Begun
<1>10. Answered' BY <1>1, <1>5, <1>8, <1>9 DEF IInv, Answered, Unknown, None
<1> QED BY <1>3, <1>4, <1>6, <1>7, <1>10 DEF IInv

(***************************************************************************)
(* The hub commits, cleans up, fails and restarts.                         *)
(***************************************************************************)
LEMMA CommitStep ==
    ASSUME IInv, NEW h \in Handovers, NEW k \in Kinds, Commits(h, k) PROVE IInv'
<1> DEFINE j == job[h][k]
<1>0. TypeOK /\ OneCall /\ Begun /\ OneJob /\ Backed /\ PayloadKept /\ Sole /\ Answered
  BY DEF IInv
<1>1. /\ j.pc = "answered" /\ Busy(h, k) /\ j.leg \in Legs /\ j.status \in Statuses
      /\ j.attempts \in Nat /\ j.ok \in BOOLEAN
  BY <1>0, JobFields DEF Commits, Busy
<1>2. /\ job' = [job EXCEPT ![h][k] = Idle]
      /\ UNCHANGED <<task, dispatch, row, posted, calls, target, retries, faults>>
  BY DEF Commits, origin, bounds
<1>3. Idle \in Jobs BY DEF Idle, Jobs, Legs, Statuses
<1>4. /\ job' \in [Handovers -> [Kinds -> Jobs]]
      /\ job'[h][k] = Idle
      /\ \A g \in Handovers, l \in Kinds : <<g, l>> # <<h, k>> => job'[g][l] = job[g][l]
  BY <1>0, <1>2, <1>3 DEF TypeOK
<1>5. \A g \in Handovers, l \in Kinds :
          Busy(g, l)' <=> (Busy(g, l) /\ <<g, l>> # <<h, k>>)
  BY <1>4 DEF Busy, Idle
<1>6. /\ return' \in [Handovers -> {"none", "waiting", "answered", "returned"}]
      /\ \/ hub[h].status = "purged" /\ UNCHANGED <<hub, cached>>
         \/ /\ hub[h].status # "purged"
            /\ hub' = [hub EXCEPT ![h] = Written(j, hub[h])] /\ cached' = Kept(h, k, j)
  <2>1. CASE hub[h].status = "purged"
    <3>1. return' = [return EXCEPT ![h] = IF k = "submit" /\ @ = "waiting" THEN "none" ELSE @]
          /\ UNCHANGED <<hub, cached>>
      BY <2>1 DEF Commits
    <3> QED BY <1>0, <2>1, <3>1 DEF TypeOK
  <2>2. CASE hub[h].status # "purged"
    <3>1. /\ hub' = [hub EXCEPT ![h] = Written(j, hub[h])] /\ cached' = Kept(h, k, j)
          /\ return' = [return EXCEPT ![h] =
                           IF k = "submit" /\ @ = "waiting" THEN "answered" ELSE @]
      BY <2>2 DEF Commits
    <3>2. return' \in [Handovers -> {"none", "waiting", "answered", "returned"}]
      BY <1>0, <3>1 DEF TypeOK
    <3> QED BY <2>2, <3>1, <3>2
  <2> QED BY <2>1, <2>2
<1>7. /\ Outcome(j) \in Statuses
      /\ j.ok => Outcome(j) = Success[j.leg]
      /\ ~j.ok => Outcome(j) \in {GivenUp[j.leg], Awaiting[j.leg]}
  BY <1>1 DEF Outcome, Legs, Success, GivenUp, Awaiting, Statuses
<1>8. Written(j, hub[h]) \in [status : Statuses, attempts : Nat, resultAttempts : Nat]
      /\ Written(j, hub[h]).status = IF Outcome(j) = j.status THEN hub[h].status ELSE Outcome(j)
  BY <1>0, <1>1, <1>7 DEF Written, TypeOK
<1>9. /\ hub' \in [Handovers -> [status : Statuses, attempts : Nat, resultAttempts : Nat]]
      /\ \A g \in Handovers \ {h} : hub'[g] = hub[g]
      /\ hub'[h].status \in {hub[h].status, Outcome(j)}
      /\ cached' \subseteq Handovers \X Legs
      /\ \A g \in Handovers \ {h}, x \in Legs : <<g, x>> \in cached' <=> <<g, x>> \in cached
  <2>1. cached \subseteq Handovers \X Legs /\ <<h, j.leg>> \in Handovers \X Legs
    BY <1>0, <1>1 DEF TypeOK
  <2>2. cached' \in {cached, cached \cup {<<h, j.leg>>}, cached \ {<<h, j.leg>>}}
    BY <1>6 DEF Kept
  <2>3. /\ hub' \in [Handovers -> [status : Statuses, attempts : Nat, resultAttempts : Nat]]
        /\ \A g \in Handovers \ {h} : hub'[g] = hub[g]
        /\ hub'[h] \in {hub[h], Written(j, hub[h])}
    <3> HIDE DEF j
    <3>0. PICK w : w = Written(j, hub[h]) OBVIOUS
    <3>1. w \in [status : Statuses, attempts : Nat, resultAttempts : Nat] BY <1>8, <3>0
    <3>2. UNCHANGED hub \/ hub' = [hub EXCEPT ![h] = w] BY <1>6, <3>0
    <3>3. /\ hub' \in [Handovers -> [status : Statuses, attempts : Nat, resultAttempts : Nat]]
          /\ \A g \in Handovers \ {h} : hub'[g] = hub[g]
          /\ hub'[h] \in {hub[h], w}
      BY <1>0, <3>1, <3>2 DEF TypeOK
    <3> QED BY <3>0, <3>3
  <2>4. hub'[h].status \in {hub[h].status, Outcome(j)}
    <3>1. CASE hub'[h] = hub[h] BY <3>1
    <3>2. CASE hub'[h] = Written(j, hub[h]) BY <1>8, <3>2
    <3> QED BY <2>3, <3>1, <3>2
  <2>5. /\ cached' \subseteq Handovers \X Legs
        /\ \A g \in Handovers \ {h}, x \in Legs : <<g, x>> \in cached' <=> <<g, x>> \in cached
    <3> HIDE DEF j
    <3> QED BY <2>1, <2>2
  <2> QED BY <2>3, <2>4, <2>5
<1>10. TypeOK'
  <2>1. \A c \in calls' : c.by # None =>
            job'[c.handover][c.by].pc = "call" /\ job'[c.handover][c.by].leg = c.leg
    BY <1>0, <1>1, <1>2, <1>4 DEF TypeOK
  <2> QED BY <1>0, <1>2, <1>4, <1>6, <1>9, <2>1 DEF TypeOK
<1>11. OneCall' BY <1>0, <1>2 DEF OneCall
<1>12. ~Unknown(h) BY <1>1 DEF Unknown
<1>13. Begun' BY <1>0, <1>2, <1>5, <1>9, <1>12 DEF Begun, Unknown
<1>14. OneJob' BY <1>0, <1>5 DEF OneJob
<1>15. Backed'
  <2> SUFFICES ASSUME NEW g \in Handovers, NEW l \in Kinds \ {"create", "submit"}, Busy(g, l)'
               PROVE  Repeats(g, l)'
    BY DEF Backed
  <2>1. g # h /\ Busy(g, l) /\ job'[g][l] = job[g][l]
    BY <1>0, <1>1, <1>4, <1>5 DEF OneJob
  <2>2. Repeats(g, l) BY <1>0, <2>1 DEF Backed
  <2>3. job[g][l].leg \in Legs BY <1>0, <2>1, JobFields
  <2> QED BY <1>9, <2>1, <2>2, <2>3 DEF Repeats
<1>16. PayloadKept'
  <2> SUFFICES ASSUME NEW g \in Handovers, NEW x \in Legs,
                      hub'[g].status \in {Awaiting[x], GivenUp[x]}
               PROVE  <<g, x>> \in cached'
    BY DEF PayloadKept
  <2>1. CASE g # h BY <1>0, <1>9, <2>1 DEF PayloadKept
  <2>2. CASE g = h /\ hub[h].status = "purged" /\ UNCHANGED <<hub, cached>>
    BY <1>0, <2>2 DEF PayloadKept
  <2>3. CASE g = h /\ hub[h].status # "purged"
    <3>1. hub'[h].status = IF Outcome(j) = j.status THEN hub[h].status ELSE Outcome(j)
      BY <1>0, <1>6, <1>8, <2>3 DEF TypeOK
    <3>2. cached' = Kept(h, k, j) BY <1>6, <2>3
    <3>3. Success[j.leg] \notin {Awaiting[x], GivenUp[x]}
      BY <1>1 DEF Legs, Success, Awaiting, GivenUp
    <3>4. CASE k \in {"create", "submit"}
      <4>1. cached \subseteq cached' /\ (~j.ok => <<h, j.leg>> \in cached')
        BY <3>2, <3>4 DEF Kept
      <4>2. ~j.ok /\ Outcome(j) \in {Awaiting[x], GivenUp[x]} => x = j.leg
        BY <1>1, <1>7 DEF Legs, Awaiting, GivenUp
      <4> QED BY <1>0, <1>7, <2>3, <3>1, <3>3, <4>1, <4>2 DEF PayloadKept
    <3>5. CASE k \notin {"create", "submit"}
      <4>1. Repeats(h, k) BY <1>0, <1>1, <3>5 DEF Backed
      <4>2. j.ok => Outcome(j) # j.status
        BY <1>1, <1>7, <4>1 DEF Repeats, Legs, Success, Awaiting, GivenUp
      <4>3. ~j.ok => cached' = cached /\ <<h, j.leg>> \in cached
        BY <2>3, <3>2, <3>5, <4>1 DEF Kept, Repeats
      <4>4. ~j.ok /\ Outcome(j) \in {Awaiting[x], GivenUp[x]} => x = j.leg
        BY <1>1, <1>7 DEF Legs, Awaiting, GivenUp
      <4> QED BY <1>0, <1>7, <2>3, <3>1, <3>3, <4>2, <4>3, <4>4 DEF PayloadKept
    <3> QED BY <3>4, <3>5
  <2> QED BY <1>6, <2>1, <2>2, <2>3
<1>17. Sole' BY <1>0, <1>2 DEF Sole
<1>18. Answered'
  <2>1. ASSUME NEW g \in Handovers, OnItsWayBack(g)' PROVE OnItsWayBack(g)
    <3>1. (\E l \in Kinds : Busy(g, l) /\ job[g][l].leg = "result")'
              => \E l \in Kinds : Busy(g, l) /\ job[g][l].leg = "result"
      BY <1>4, <1>5
    <3>2. g = h /\ Outcome(j) \in {"result_pending_retry", "result_delivery_failed"}
              => Busy(h, k) /\ job[h][k].leg = "result"
      BY <1>1, <1>7 DEF Legs, Success, Awaiting, GivenUp
    <3> QED BY <1>2, <1>9, <2>1, <3>1, <3>2 DEF OnItsWayBack
  <2> QED BY <1>0, <1>2, <2>1 DEF Answered
<1> QED BY <1>10, <1>11, <1>13, <1>14, <1>15, <1>16, <1>17, <1>18 DEF IInv

LEMMA PurgeStep == ASSUME IInv, NEW h \in Handovers, Purge(h) PROVE IInv'
<1>0. TypeOK /\ OneCall /\ Begun /\ OneJob /\ Backed /\ PayloadKept /\ Sole /\ Answered
  BY DEF IInv
<1>1. /\ hub' = [hub EXCEPT ![h].status = "purged"]
      /\ cached' = cached \ {<<h, "forward">>, <<h, "result">>}
      /\ UNCHANGED <<task, dispatch, row, posted, job, calls, target, return, retries, faults>>
  BY DEF Purge, origin, targetState, bounds
<1>2. /\ hub' \in [Handovers -> [status : Statuses, attempts : Nat, resultAttempts : Nat]]
      /\ hub'[h].status = "purged" /\ \A g \in Handovers \ {h} : hub'[g] = hub[g]
      /\ \A g \in Handovers \ {h}, x \in Legs : <<g, x>> \in cached' <=> <<g, x>> \in cached
  BY <1>0, <1>1 DEF TypeOK, Statuses
<1>3. TypeOK' BY <1>0, <1>1, <1>2 DEF TypeOK
<1>4. ~Unknown(h) BY DEF Purge, Unknown
<1>5. Begun'
  <2>1. \A g \in Handovers \ {h} : Unknown(g) => Unknown(g)' BY <1>1, <1>2 DEF Unknown, Busy
  <2> QED BY <1>0, <1>1, <1>4, <2>1 DEF Begun
<1>6. OneCall' /\ OneJob' BY <1>0, <1>1 DEF OneCall, OneJob, Busy
<1>7. Backed'
  <2> SUFFICES ASSUME NEW g \in Handovers, NEW l \in Kinds \ {"create", "submit"}, Busy(g, l)'
               PROVE  Repeats(g, l)'
    BY DEF Backed
  <2>1. Busy(g, l) /\ job'[g][l] = job[g][l] BY <1>1 DEF Busy
  <2>2. Repeats(g, l) /\ job[g][l].leg \in Legs BY <1>0, <2>1, JobFields DEF Backed
  <2> QED BY <1>2, <2>1, <2>2 DEF Repeats
<1>8. PayloadKept'
  <2>1. \A x \in Legs : "purged" \notin {Awaiting[x], GivenUp[x]} BY DEF Legs, Awaiting, GivenUp
  <2> QED BY <1>0, <1>2, <2>1 DEF PayloadKept
<1>9. Sole' BY <1>0, <1>1 DEF Sole
<1>10. Answered' BY <1>0, <1>1, <1>2 DEF Answered, OnItsWayBack, Busy
<1> QED BY <1>3, <1>5, <1>6, <1>7, <1>8, <1>9, <1>10 DEF IInv

LEMMA RestartStep == ASSUME IInv, HubRestarts PROVE IInv'
<1>0. TypeOK /\ Begun /\ PayloadKept /\ Sole /\ Answered BY DEF IInv
<1>1. /\ job' = [h \in Handovers |-> [k \in Kinds |-> Idle]]
      /\ calls' = {Orphaned(c) : c \in calls} /\ posted' = {}
      /\ UNCHANGED <<task, dispatch, row, hub, cached, target, retries>>
  BY DEF HubRestarts, origin
<1>2. faults' \in 0..MaxFaults BY <1>0, Faults DEF HubRestarts
<1>3. return' \in [Handovers -> {"none", "waiting", "answered", "returned"}]
  BY <1>0 DEF HubRestarts, TypeOK
<1>4. \A c \in calls : Orphaned(c) \in [handover : Handovers, leg : Legs, by : Kinds \cup {None},
                                        pc : {"sent", "accepted"}]
                       /\ Orphaned(c).by = None
                       /\ Orphaned(c).handover = c.handover /\ Orphaned(c).leg = c.leg
  BY <1>0 DEF TypeOK, Orphaned
<1>5. Idle \in Jobs /\ \A d \in calls' : \E c \in calls : d.handover = c.handover /\ d.leg = c.leg
  BY <1>1, <1>4 DEF Idle, Jobs, Legs, Statuses
<1>6. \A g \in Handovers, l \in Kinds : ~Busy(g, l)' BY <1>1 DEF Busy, Idle
<1>7. TypeOK' BY <1>0, <1>1, <1>2, <1>3, <1>4, <1>5 DEF TypeOK
<1>8. OneCall' /\ OneJob' /\ Backed' BY <1>1, <1>4, <1>6 DEF OneCall, OneJob, Backed
<1>9. Begun'
  <2>1. \A h \in Handovers : Unknown(h) => Unknown(h)' BY <1>1, <1>5, <1>6 DEF Unknown
  <2> QED BY <1>0, <1>1, <2>1 DEF Begun
<1>10. PayloadKept' /\ Sole' BY <1>0, <1>1 DEF PayloadKept, Sole
<1>11. Answered'
  <2>1. \A h \in Handovers : OnItsWayBack(h)' => OnItsWayBack(h)
    BY <1>1, <1>5, <1>6 DEF OnItsWayBack
  <2> QED BY <1>0, <1>1, <2>1 DEF Answered
<1> QED BY <1>7, <1>8, <1>9, <1>10, <1>11 DEF IInv

(* A call goes on, is answered, or is given up by the hub.                 *)
GoesOn(c, ok, cs) ==
    /\ calls' = (calls \ {c}) \cup cs
    /\ cs \subseteq [handover : {c.handover}, leg : {c.leg}, by : {c.by, None},
                     pc : {"sent", "accepted"}]
    /\ \A d, e \in cs : d = e
    /\ \/ UNCHANGED job
       \/ /\ c.by # None /\ \A d \in cs : d.by = None
          /\ job' = [job EXCEPT ![c.handover][c.by] =
                        [job[c.handover][c.by] EXCEPT !.pc = "answered", !.ok = ok]]

(* What else a call may change.                                            *)
Beside(c) ==
    /\ UNCHANGED <<dispatch, row, posted, hub, cached, return, retries>>
    /\ faults' \in 0..MaxFaults
    /\ \/ UNCHANGED target
       \/ target[c.handover] = None /\ target' = [target EXCEPT ![c.handover] = "working"]
    /\ \/ UNCHANGED task
       \/ c.leg = "result" /\ task' = [task EXCEPT ![row[c.handover]] = "done"]

LEMMA CallGoesOn ==
    ASSUME IInv, NEW c \in calls, NEW ok \in BOOLEAN, NEW cs, GoesOn(c, ok, cs)
    PROVE  /\ job' \in [Handovers -> [Kinds -> Jobs]]
           /\ \A h \in Handovers, k \in Kinds : /\ Busy(h, k)' <=> Busy(h, k)
                                                /\ job'[h][k].leg = job[h][k].leg
                                                /\ job'[h][k].status = job[h][k].status
           /\ calls' \subseteq [handover : Handovers, leg : Legs, by : Kinds \cup {None},
                                pc : {"sent", "accepted"}]
           /\ \A d \in calls' : d.by # None =>
                 job'[d.handover][d.by].pc = "call" /\ job'[d.handover][d.by].leg = d.leg
           /\ \A d \in calls' : \E e \in calls : e.handover = d.handover /\ e.leg = d.leg
           /\ OneCall'
<1>0. TypeOK /\ OneCall BY DEF IInv
<1> USE DEF GoesOn
<1>1. c \in [handover : Handovers, leg : Legs, by : Kinds \cup {None}, pc : {"sent", "accepted"}]
  BY <1>0 DEF TypeOK
<1>2. calls' \subseteq [handover : Handovers, leg : Legs, by : Kinds \cup {None},
                        pc : {"sent", "accepted"}]
  BY <1>0, <1>1 DEF TypeOK
<1>3. \A d \in cs : d.handover = c.handover /\ d.leg = c.leg /\ d.by \in {c.by, None} OBVIOUS
<1>4. \A d \in calls' : \E e \in calls : e.handover = d.handover /\ e.leg = d.leg
  BY <1>3
<1>5. OneCall' BY <1>0, <1>3 DEF OneCall
<1>6. c.by # None => job[c.handover][c.by].pc = "call" /\ job[c.handover][c.by].leg = c.leg
  BY <1>0 DEF TypeOK
<1>7. CASE UNCHANGED job
  <2>1. \A d \in calls' : d.by # None =>
            job'[d.handover][d.by].pc = "call" /\ job'[d.handover][d.by].leg = d.leg
    BY <1>0, <1>3, <1>6, <1>7 DEF TypeOK
  <2>2. job' \in [Handovers -> [Kinds -> Jobs]] BY <1>0, <1>7 DEF TypeOK
  <2> QED BY <1>2, <1>4, <1>5, <1>7, <2>1, <2>2 DEF Busy
<1>8. CASE ~UNCHANGED job
  <2> DEFINE h == c.handover
             k == c.by
             j == [job[h][k] EXCEPT !.pc = "answered", !.ok = ok]
  <2>1. k # None /\ (\A d \in cs : d.by = None) /\ job' = [job EXCEPT ![h][k] = j]
    BY <1>8
  <2>2. h \in Handovers /\ k \in Kinds /\ job[h][k] \in Jobs BY <1>0, <1>1, <2>1 DEF TypeOK
  <2>3. /\ j \in Jobs /\ j.pc = "answered"
        /\ j.leg = job[h][k].leg /\ j.status = job[h][k].status
    BY <2>2 DEF Jobs
  <2> HIDE DEF j
  <2>4. /\ job' \in [Handovers -> [Kinds -> Jobs]] /\ job'[h][k] = j
        /\ \A g \in Handovers, l \in Kinds : <<g, l>> # <<h, k>> => job'[g][l] = job[g][l]
    BY <1>0, <2>1, <2>2, <2>3 DEF TypeOK
  <2>5. \A g \in Handovers, l \in Kinds : /\ Busy(g, l)' <=> Busy(g, l)
                                          /\ job'[g][l].leg = job[g][l].leg
                                          /\ job'[g][l].status = job[g][l].status
    BY <1>6, <2>1, <2>3, <2>4 DEF Busy
  <2>6. ASSUME NEW d \in calls', d.by # None
        PROVE  job'[d.handover][d.by].pc = "call" /\ job'[d.handover][d.by].leg = d.leg
    <3>1. d \in calls /\ d # c BY <2>1, <2>6
    <3>2. d.handover \in Handovers /\ d.by \in Kinds BY <1>2, <2>6
    <3>3. <<d.handover, d.by>> # <<h, k>> BY <1>0, <2>1, <2>6, <3>1 DEF OneCall
    <3> QED BY <1>0, <2>4, <2>6, <3>1, <3>2, <3>3 DEF TypeOK
  <2> QED BY <1>2, <1>4, <1>5, <2>4, <2>5, <2>6
<1> QED BY <1>7, <1>8

(* A step that lets a call go on leaves the rest of the invariant alone,   *)
(* when the target and the task change as the call says.                   *)
LEMMA CallStep ==
    ASSUME IInv, NEW c \in calls, NEW ok \in BOOLEAN, NEW cs, GoesOn(c, ok, cs), Beside(c)
    PROVE  IInv'
<1>0. TypeOK /\ OneCall /\ Begun /\ OneJob /\ Backed /\ PayloadKept /\ Sole /\ Answered
  BY DEF IInv
<1>1. /\ job' \in [Handovers -> [Kinds -> Jobs]]
      /\ \A h \in Handovers, k \in Kinds : /\ Busy(h, k)' <=> Busy(h, k)
                                           /\ job'[h][k].leg = job[h][k].leg
                                           /\ job'[h][k].status = job[h][k].status
      /\ calls' \subseteq [handover : Handovers, leg : Legs, by : Kinds \cup {None},
                           pc : {"sent", "accepted"}]
      /\ \A d \in calls' : d.by # None =>
            job'[d.handover][d.by].pc = "call" /\ job'[d.handover][d.by].leg = d.leg
      /\ \A d \in calls' : \E e \in calls : e.handover = d.handover /\ e.leg = d.leg
      /\ OneCall'
  BY CallGoesOn
<1> USE DEF Beside
<1>2. c.handover \in Handovers /\ c.leg \in Legs BY <1>0 DEF TypeOK
<1>3. ~Unknown(c.handover) BY DEF Unknown
<1>4. row[c.handover] \in Tasks
  <2>1. row[c.handover] # None BY <1>0, <1>2, <1>3 DEF Begun
  <2>2. row[c.handover] \in Tasks \cup {None} BY <1>0, <1>2 DEF TypeOK
  <2> QED BY <2>1, <2>2
<1>5. /\ target' \in [Handovers -> {None, "working", "ready"}]
      /\ \A h \in Handovers \ {c.handover} : target'[h] = target[h]
      /\ \A h \in Handovers : target[h] = "ready" => target'[h] = "ready"
  BY <1>0, <1>2 DEF TypeOK, None
<1>6. /\ task' \in [Tasks -> {"waiting", "ready", "done"}]
      /\ \A t \in Tasks : task[t] # "waiting" => task'[t] # "waiting"
      /\ \A t \in Tasks : task'[t] = "done" =>
            task[t] = "done" \/ (c.leg = "result" /\ t = row[c.handover])
  BY <1>0, <1>4 DEF TypeOK
<1>7. TypeOK' BY <1>0, <1>1, <1>5, <1>6 DEF TypeOK
<1>8. Begun'
  <2>1. \A h \in Handovers : Unknown(h) => Unknown(h)' BY <1>1, <1>3, <1>5 DEF Unknown
  <2> QED BY <1>0, <2>1 DEF Begun
<1>9. OneJob' BY <1>0, <1>1 DEF OneJob
<1>10. Backed' BY <1>0, <1>1 DEF Backed, Repeats
<1>11. PayloadKept' BY <1>0 DEF PayloadKept
<1>12. Sole' BY <1>0, <1>6 DEF Sole, TypeOK
<1>13. Answered'
  <2>1. \A h \in Handovers : OnItsWayBack(h)' => OnItsWayBack(h) BY <1>1 DEF OnItsWayBack
  <2>2. c.leg = "result" => target[c.handover] = "ready" BY <1>0, <1>2 DEF Answered, OnItsWayBack
  <2>3. \A t \in Tasks : task'[t] = "done" => \E h \in Handovers : row[h] = t /\ target'[h] = "ready"
    BY <1>0, <1>2, <1>5, <1>6, <2>2 DEF Answered
  <2> QED BY <1>0, <1>5, <2>1, <2>3 DEF Answered
<1> QED BY <1>1, <1>7, <1>8, <1>9, <1>10, <1>11, <1>12, <1>13 DEF IInv

LEMMA ReplyStep ==
    ASSUME IInv, NEW c \in calls, NEW ok \in BOOLEAN, Resolve(c, ok), faults' \in 0..MaxFaults,
           UNCHANGED <<dispatch, row, posted, hub, cached, target, return, retries>>,
           \/ UNCHANGED task
           \/ c.leg = "result" /\ task' = [task EXCEPT ![row[c.handover]] = "done"]
    PROVE  IInv'
<1>1. GoesOn(c, ok, {}) BY DEF Resolve, GoesOn
<1>2. Beside(c) BY DEF Beside
<1> QED BY <1>1, <1>2, CallStep

LEMMA HandleStep == ASSUME IInv, ~Overlapping, NEW c \in calls, Handle(c) PROVE IInv'
<1>0. faults' = faults => faults' \in 0..MaxFaults BY DEF IInv, TypeOK
<1>1. CASE InboundAccepted(c)
  <2> DEFINE new == [c EXCEPT !.pc = "accepted"]
  <2>1. new \in [handover : {c.handover}, leg : {c.leg}, by : {c.by, None}, pc : {"sent", "accepted"}]
    BY DEF IInv, TypeOK
  <2>2. calls' = (calls \ {c}) \cup {new} BY <1>1 DEF InboundAccepted
  <2> HIDE DEF new
  <2>3. GoesOn(c, TRUE, {new}) BY <1>1, <2>1, <2>2 DEF InboundAccepted, GoesOn, hubState
  <2>4. target[c.handover] = None /\ target' = [target EXCEPT ![c.handover] = "working"]
    BY <1>1 DEF InboundAccepted
  <2>5. Beside(c) BY <1>0, <1>1, <2>4 DEF InboundAccepted, Beside, origin, hubState, bounds
  <2> QED BY <2>3, <2>5, CallStep
<1>2. CASE InboundDuplicate(c)
  BY <1>0, <1>2, ReplyStep DEF InboundDuplicate, origin, targetState, bounds
<1>3. CASE InboundAnswered(c)
  BY <1>0, <1>3, ReplyStep DEF InboundAnswered, origin, targetState, bounds
<1>4. CASE ResultAccepted(c)
  BY <1>0, <1>4, ReplyStep DEF ResultAccepted, targetState, bounds
<1>5. CASE ResultRefused(c)
  BY <1>0, <1>5, ReplyStep DEF ResultRefused, origin, targetState, bounds
<1> QED BY <1>1, <1>2, <1>3, <1>4, <1>5 DEF Handle

LEMMA CallFailsStep == ASSUME IInv, NEW c \in calls, CallFails(c) PROVE IInv'
<1> DEFINE h == c.handover
           k == c.by
           j == job[h][k]
<1>1. k # None /\ job' = [job EXCEPT ![h][k].pc = "answered"] BY DEF CallFails
<1>2. c \in [handover : Handovers, leg : Legs, by : Kinds \cup {None}, pc : {"sent", "accepted"}]
  BY DEF IInv, TypeOK
<1>3. h \in Handovers /\ k \in Kinds /\ j \in Jobs /\ j.ok \in BOOLEAN
  BY <1>1, <1>2 DEF IInv, TypeOK, Jobs
<1>4. [j EXCEPT !.pc = "answered"] = [j EXCEPT !.pc = "answered", !.ok = j.ok]
  BY <1>3 DEF Jobs
<1>5. job' = [job EXCEPT ![h][k] = [j EXCEPT !.pc = "answered", !.ok = j.ok]]
  BY <1>1, <1>4
<1>6. Orphaned(c) \in [handover : {h}, leg : {c.leg}, by : {k, None}, pc : {"sent", "accepted"}]
      /\ Orphaned(c).by = None
  BY <1>2 DEF Orphaned
<1>7. calls' = (calls \ {c}) \cup {} \/ calls' = (calls \ {c}) \cup {Orphaned(c)}
  BY DEF CallFails
<1>8. faults' \in 0..MaxFaults BY Faults DEF IInv, CallFails
<1>9. Beside(c) BY <1>8 DEF CallFails, Beside, origin, targetState
<1>10. CASE calls' = (calls \ {c}) \cup {}
  <2>1. GoesOn(c, j.ok, {}) BY <1>1, <1>5, <1>10 DEF GoesOn
  <2> QED BY <1>3, <1>9, <2>1, CallStep
<1>11. CASE calls' = (calls \ {c}) \cup {Orphaned(c)}
  <2>1. GoesOn(c, j.ok, {Orphaned(c)}) BY <1>1, <1>5, <1>6, <1>11 DEF GoesOn
  <2> QED BY <1>3, <1>9, <2>1, CallStep
<1> QED BY <1>7, <1>10, <1>11

(* The target, once the process for h has been started.                    *)
LEMMA TargetStep ==
    ASSUME IInv, NEW h \in Handovers, target[h] # None,
           UNCHANGED <<task, dispatch, row, hubState, calls, retries>>, faults' \in 0..MaxFaults,
           return' \in [Handovers -> {"none", "waiting", "answered", "returned"}],
           \/ posted' \subseteq posted
           \/ target[h] = "ready" /\ posted' = posted \cup {<<h, "submit">>},
           target' \in {target, [target EXCEPT ![h] = "ready"]}
    PROVE  IInv'
<1>0. TypeOK /\ OneCall /\ Begun /\ OneJob /\ Backed /\ PayloadKept /\ Sole /\ Answered
  BY DEF IInv
<1>1. /\ OneCall' /\ OneJob' /\ Backed' /\ PayloadKept'
  BY HubAtRest
<1>2. /\ target' \in [Handovers -> {None, "working", "ready"}]
      /\ \A g \in Handovers \ {h} : target'[g] = target[g]
      /\ \A g \in Handovers : target[g] = "ready" => target'[g] = "ready"
  BY <1>0 DEF TypeOK
<1>3. posted' \subseteq Handovers \X {"create", "submit"} BY <1>0 DEF TypeOK
<1>4. TypeOK' BY <1>0, <1>2, <1>3 DEF TypeOK, hubState
<1>5. Begun'
  <2>1. ~Unknown(h) BY DEF Unknown
  <2>2. \A g \in Handovers : <<g, "create">> \in posted' => <<g, "create">> \in posted OBVIOUS
  <2>3. \A g \in Handovers \ {h} : <<g, "submit">> \in posted' => <<g, "submit">> \in posted OBVIOUS
  <2>4. \A g \in Handovers \ {h} : Unknown(g) => Unknown(g)'
    BY <1>2, <2>3 DEF Unknown, Busy, hubState
  <2> QED BY <1>0, <2>1, <2>2, <2>4 DEF Begun
<1>6. Sole' BY <1>0 DEF Sole
<1>7. Answered'
  <2>1. \A g \in Handovers : OnItsWayBack(g)' => OnItsWayBack(g) \/ target[g] = "ready"
    BY DEF OnItsWayBack, Busy, hubState
  <2> QED BY <1>0, <1>2, <2>1 DEF Answered
<1> QED BY <1>1, <1>4, <1>5, <1>6, <1>7 DEF IInv

LEMMA WorkStep == ASSUME IInv, NEW h \in Handovers, WorkDone(h) PROVE IInv'
<1>1. return' \in [Handovers -> {"none", "waiting", "answered", "returned"}] /\ faults' \in 0..MaxFaults
  BY DEF IInv, TypeOK, WorkDone, bounds
<1> QED BY <1>1, TargetStep DEF WorkDone, origin, bounds, None

LEMMA ReturnStep ==
    ASSUME IInv, NEW h \in Handovers, ReturnBegins(h) \/ ReturnMarked(h) \/ ReturnLost(h)
    PROVE  IInv'
<1>1. return' \in [Handovers -> {"none", "waiting", "answered", "returned"}]
  BY DEF IInv, TypeOK, ReturnBegins, ReturnMarked, ReturnLost
<1>2. faults' \in 0..MaxFaults
  BY Faults DEF IInv, TypeOK, ReturnBegins, ReturnMarked, ReturnLost, bounds
<1>3. UNCHANGED <<task, dispatch, row, hubState, calls, target, retries>>
  BY DEF ReturnBegins, ReturnMarked, ReturnLost, origin, bounds
<1>4. CASE ReturnBegins(h)
  BY <1>1, <1>2, <1>3, <1>4, TargetStep DEF ReturnBegins, None
<1>5. CASE ReturnMarked(h) \/ ReturnLost(h)
  <2>1. posted' \subseteq posted BY <1>5 DEF ReturnMarked, ReturnLost
  <2>2. TypeOK' BY <1>1, <1>2, <1>3, <2>1 DEF IInv, TypeOK, hubState
  <2>3. OneCall' /\ OneJob' /\ Backed' /\ PayloadKept' BY <1>3, HubAtRest
  <2>4. Begun'
    <3>1. \A g \in Handovers : Unknown(g) => Unknown(g)'
      BY <1>3, <2>1 DEF Unknown, Busy, hubState
    <3> QED BY <1>3, <2>1, <3>1 DEF IInv, Begun
  <2>5. Sole' BY <1>3 DEF IInv, Sole
  <2>6. Answered'
    <3>1. \A g \in Handovers : OnItsWayBack(g)' => OnItsWayBack(g)
      BY <1>3, <2>1 DEF OnItsWayBack, Busy, hubState
    <3> QED BY <1>3, <3>1 DEF IInv, Answered
  <2> QED BY <2>2, <2>3, <2>4, <2>5, <2>6 DEF IInv
<1> QED BY <1>4, <1>5

LEMMA StutterStep == ASSUME IInv, UNCHANGED vars PROVE IInv'
BY HubAtRest
DEF vars, origin, hubState, targetState, bounds, IInv, TypeOK, Begun, Unknown, Sole, Answered,
    OnItsWayBack, Busy

LEMMA NextStep == ASSUME IInv, ~Overlapping, [Next]_vars PROVE IInv'
<1>1. CASE \E t \in Tasks : TaskReady(t) BY <1>1, TaskStep
<1>2. CASE \E t \in Tasks, h \in Handovers : DispatchBegins(h, t) BY <1>2, DispatchStep
<1>3. ASSUME NEW h \in Handovers,
             \/ DispatchCommits(h) \/ CreateHandover(h) \/ SubmitHandoverResult(h)
             \/ RetryTick(h) \/ Purge(h) \/ \E o \in Operators : RetryHandover(h, o)
             \/ \E k \in Kinds : Commits(h, k)
             \/ WorkDone(h) \/ ReturnBegins(h) \/ ReturnMarked(h) \/ ReturnLost(h)
      PROVE  IInv'
  BY <1>3, DispatchCommitStep, CreateStep, SubmitStep, TickStep, PurgeStep, RetryStep, CommitStep,
     WorkStep, ReturnStep
<1>4. CASE \E c \in calls : Handle(c) \/ CallFails(c) BY <1>4, HandleStep, CallFailsStep
<1>5. CASE HubRestarts BY <1>5, RestartStep
<1>6. CASE UNCHANGED vars BY <1>6, StutterStep
<1> QED BY <1>1, <1>2, <1>3, <1>4, <1>5, <1>6 DEF Next

LEMMA Invariance == ASSUME ~Overlapping PROVE Spec => []IInv
<1>1. Init => IInv BY Initially
<1>2. IInv /\ [Next]_vars => IInv' BY NextStep
<1> QED BY <1>1, <1>2, PTL DEF Spec

(***************************************************************************)
(* The abstract exchange.                                                  *)
(***************************************************************************)
(* A task has been dispatched by one handover, if any.                     *)
LEMMA OneProcess ==
    ASSUME IInv, NEW h \in Handovers, target[h] # None
    PROVE  /\ row[h] \in Tasks /\ task[row[h]] \in {"ready", "done"}
           /\ Started(row[h]) = {h}
           /\ target[h] # "ready" => task[row[h]] = "ready"
<1>1. ~Unknown(h) BY DEF Unknown
<1>2. row[h] # None BY <1>1, KnownToHub
<1>3. row[h] \in Tasks /\ task[row[h]] \in {"ready", "done"}
  BY <1>2 DEF IInv, TypeOK, Sole
<1>4. \A g \in Handovers : row[g] = row[h] => g = h BY <1>2 DEF IInv, Sole
<1>5. Started(row[h]) = {h} BY <1>4 DEF Started
<1>6. task[row[h]] = "done" => target[h] = "ready" BY <1>3, <1>4 DEF IInv, Answered
<1> QED BY <1>3, <1>5, <1>6

(* What changes neither a task nor a process changes nothing abstract.     *)
LEMMA AbstractStutter ==
    ASSUME TypeOK, UNCHANGED <<task, target>>,
           \A h \in Handovers : target[h] # None => row'[h] = row[h]
    PROVE  Stage' = Stage /\ \A t \in Tasks : Started(t)' = Started(t)
<1>1. \A t \in Tasks : Started(t)' = Started(t) BY DEF Started
<1>2. \A t \in Tasks : (\E h \in Started(t) : target[h] = "ready")'
                        <=> \E h \in Started(t) : target[h] = "ready"
  BY <1>1
<1> QED BY <1>1, <1>2 DEF Stage

(* One task comes from one stage to the next.                              *)
LEMMA AbstractAdvance ==
    ASSUME NEW t \in Tasks, NEW to,
           Stage'[t] = to, \A u \in Tasks \ {t} : Stage'[u] = Stage[u]
    PROVE  Stage' = [Stage EXCEPT ![t] = to]
<1>1. Stage = [u \in Tasks |-> Stage[u]] /\ Stage' = [u \in Tasks |-> Stage'[u]] BY DEF Stage
<1> QED BY <1>1

LEMMA ReachAbstract ==
    ASSUME IInv, NEW t \in Tasks, TaskReady(t)
    PROVE  Promise!Reach(t)
<1>1. /\ task[t] = "waiting" /\ task' = [task EXCEPT ![t] = "ready"] /\ UNCHANGED <<row, target>>
      /\ task \in [Tasks -> {"waiting", "ready", "done"}]
  BY DEF TaskReady, targetState, IInv, TypeOK
<1>2. \A u \in Tasks : Started(u)' = Started(u) BY <1>1 DEF Started
<1>3. Started(t) = {}
  <2>1. \A h \in Started(t) : FALSE BY <1>1, OneProcess DEF Started
  <2> QED BY <2>1
<1>4. Stage[t] = "waiting" /\ Stage'[t] = "ready" BY <1>1, <1>2, <1>3 DEF Stage
<1>5. \A u \in Tasks \ {t} : Stage'[u] = Stage[u] BY <1>1, <1>2 DEF Stage
<1>6. Stage' = [Stage EXCEPT ![t] = "ready"] BY <1>4, <1>5, AbstractAdvance
<1>7. [u \in Tasks |-> Started(u)]' = [u \in Tasks |-> Started(u)] BY <1>2
<1> QED BY <1>4, <1>6, <1>7 DEF Promise!Reach, Promise!Advance

LEMMA StartAbstract ==
    ASSUME IInv, ~Overlapping, NEW c \in calls, InboundAccepted(c)
    PROVE  \E t \in Tasks : Promise!Start(t, c.handover)
<1> DEFINE h == c.handover
           t == row[h]
<1>1. /\ h \in Handovers /\ target[h] = None /\ target' = [target EXCEPT ![h] = "working"]
      /\ target \in [Handovers -> {None, "working", "ready"}] /\ UNCHANGED <<task, row>>
  BY DEF InboundAccepted, origin, IInv, TypeOK
<1>2. ~Unknown(h) BY DEF Unknown
<1>3. t # None BY <1>1, <1>2, KnownToHub
<1>4. t \in Tasks /\ task[t] \in {"ready", "done"} /\ \A g \in Handovers : row[g] = t => g = h
  BY <1>1, <1>3 DEF IInv, TypeOK, Sole
<1>5. task[t] = "ready" BY <1>1, <1>4 DEF IInv, Answered, None
<1>6. Started(t) = {} /\ \A u \in Tasks : u = t => Started(u)' = {h}
  BY <1>1, <1>4 DEF Started, None
<1>7. \A u \in Tasks \ {t} : Started(u)' = Started(u) /\ h \notin Started(u)
  BY <1>1 DEF Started
<1>8. Stage[t] = "ready" /\ Stage'[t] = "working" BY <1>1, <1>4, <1>5, <1>6 DEF Stage, None
<1>9. \A u \in Tasks \ {t} : (\E g \in Started(u) : target[g] = "ready")'
                              <=> \E g \in Started(u) : target[g] = "ready"
  BY <1>1, <1>7 DEF Started
<1>10. \A u \in Tasks \ {t} : Stage'[u] = Stage[u] BY <1>1, <1>7, <1>9 DEF Stage
<1>11. Stage' = [Stage EXCEPT ![t] = "working"] BY <1>4, <1>8, <1>10, AbstractAdvance
<1>12. [u \in Tasks |-> Started(u)]' = [[u \in Tasks |-> Started(u)] EXCEPT ![t] = {h}]
  BY <1>4, <1>6, <1>7
<1>13. [u \in Tasks |-> Started(u)][t] = {} BY <1>4, <1>6
<1>14. Promise!Start(t, h) BY <1>8, <1>11, <1>12, <1>13 DEF Promise!Start, Promise!Advance
<1> QED BY <1>4, <1>14

LEMMA AnswerAbstract ==
    ASSUME IInv, NEW h \in Handovers, WorkDone(h)
    PROVE  \E t \in Tasks : Promise!Answer(t)
<1> DEFINE t == row[h]
<1>1. /\ target[h] = "working" /\ target' = [target EXCEPT ![h] = "ready"]
      /\ target \in [Handovers -> {None, "working", "ready"}] /\ UNCHANGED <<task, row>>
  BY DEF WorkDone, origin, IInv, TypeOK
<1>2. t \in Tasks /\ task[t] = "ready" /\ Started(t) = {h} BY <1>1, OneProcess DEF None
<1>3. \A u \in Tasks : Started(u)' = Started(u) BY <1>1 DEF Started, None
<1>4. \A u \in Tasks \ {t} : h \notin Started(u) BY DEF Started
<1>5. Stage[t] = "working" BY <1>1, <1>2 DEF Stage
<1>6. Stage'[t] = "answered" BY <1>1, <1>2, <1>3 DEF Stage
<1>7. \A u \in Tasks \ {t} : (\E g \in Started(u) : target[g] = "ready")'
                              <=> \E g \in Started(u) : target[g] = "ready"
  BY <1>1, <1>3, <1>4 DEF Started
<1>8. \A u \in Tasks \ {t} : Stage'[u] = Stage[u] BY <1>1, <1>3, <1>7 DEF Stage
<1>9. Stage' = [Stage EXCEPT ![t] = "answered"] BY <1>2, <1>6, <1>8, AbstractAdvance
<1>10. [u \in Tasks |-> Started(u)]' = [u \in Tasks |-> Started(u)] BY <1>3
<1>11. Promise!Answer(t) BY <1>5, <1>9, <1>10 DEF Promise!Answer, Promise!Advance
<1> QED BY <1>2, <1>11

LEMMA CompleteAbstract ==
    ASSUME IInv, NEW c \in calls, ResultAccepted(c)
    PROVE  \E t \in Tasks : Promise!Complete(t)
<1> DEFINE h == c.handover
           t == row[h]
<1>1. /\ h \in Handovers /\ c.leg = "result" /\ task[t] = "ready"
      /\ task' = [task EXCEPT ![t] = "done"] /\ UNCHANGED <<row, target>>
      /\ task \in [Tasks -> {"waiting", "ready", "done"}]
  BY DEF ResultAccepted, targetState, IInv, TypeOK
<1>2. target[h] = "ready" BY <1>1 DEF IInv, Answered, OnItsWayBack
<1>3. t \in Tasks /\ Started(t) = {h} BY <1>1, <1>2, OneProcess DEF None
<1>4. \A u \in Tasks : Started(u)' = Started(u) BY <1>1 DEF Started
<1>5. Stage[t] = "answered" BY <1>1, <1>2, <1>3 DEF Stage
<1>6. Stage'[t] = "done" BY <1>1, <1>3 DEF Stage
<1>7. \A u \in Tasks \ {t} : Stage'[u] = Stage[u] BY <1>1, <1>4 DEF Stage
<1>8. Stage' = [Stage EXCEPT ![t] = "done"] BY <1>3, <1>6, <1>7, AbstractAdvance
<1>9. [u \in Tasks |-> Started(u)]' = [u \in Tasks |-> Started(u)] BY <1>4
<1>10. Promise!Complete(t) BY <1>5, <1>8, <1>9 DEF Promise!Complete, Promise!Advance
<1> QED BY <1>3, <1>10

LEMMA AbstractStep ==
    ASSUME IInv, ~Overlapping, [Next]_vars
    PROVE  [Promise!Next]_<<Stage, [t \in Tasks |-> Started(t)]>>
<1> DEFINE Procs == [t \in Tasks |-> Started(t)]
<1>0. TypeOK BY DEF IInv
<1>1. ASSUME UNCHANGED <<task, row, target>> PROVE UNCHANGED <<Stage, Procs>>
  <2>1. Stage' = Stage /\ \A t \in Tasks : Started(t)' = Started(t)
    BY <1>0, <1>1, AbstractStutter
  <2> QED BY <2>1
<1>2. CASE \E t \in Tasks : TaskReady(t) BY <1>2, ReachAbstract DEF Promise!Next
<1>3. CASE \E t \in Tasks, h \in Handovers : DispatchBegins(h, t)
  BY <1>1, <1>3 DEF DispatchBegins, targetState
<1>4. CASE \E h \in Handovers : DispatchCommits(h)
  <2> PICK h \in Handovers : DispatchCommits(h) BY <1>4
  <2>1. row[h] = None BY DEF DispatchCommits, IInv, Sole
  <2>2. target[h] = None BY <2>1 DEF IInv, Begun, Unknown
  <2>3. /\ UNCHANGED <<task, target>> /\ \A g \in Handovers \ {h} : row'[g] = row[g]
    BY <1>0 DEF DispatchCommits, targetState, TypeOK
  <2>4. Stage' = Stage /\ \A t \in Tasks : Started(t)' = Started(t)
    BY <1>0, <2>2, <2>3, AbstractStutter
  <2> QED BY <2>4
<1>5. CASE \E h \in Handovers : WorkDone(h) BY <1>5, AnswerAbstract DEF Promise!Next
<1>6. ASSUME NEW h \in Handovers,
             \/ CreateHandover(h) \/ SubmitHandoverResult(h) \/ RetryTick(h) \/ Purge(h)
             \/ \E o \in Operators : RetryHandover(h, o)
             \/ \E k \in Kinds : Commits(h, k)
             \/ ReturnBegins(h) \/ ReturnMarked(h) \/ ReturnLost(h)
      PROVE  UNCHANGED <<task, row, target>>
  BY <1>6 DEF CreateHandover, SubmitHandoverResult, RetryTick, Purge, RetryHandover, Commits,
              ReturnBegins, ReturnMarked, ReturnLost, origin, targetState
<1>7. CASE \E c \in calls : Handle(c)
  <2> PICK c \in calls : Handle(c) BY <1>7
  <2>1. c.handover \in Handovers BY <1>0 DEF TypeOK
  <2>2. CASE InboundAccepted(c) BY <2>1, <2>2, StartAbstract DEF Promise!Next
  <2>3. CASE ResultAccepted(c) BY <2>3, CompleteAbstract DEF Promise!Next
  <2>4. CASE InboundDuplicate(c) \/ InboundAnswered(c) \/ ResultRefused(c)
    BY <1>1, <2>4 DEF InboundDuplicate, InboundAnswered, ResultRefused, origin, targetState
  <2> QED BY <2>2, <2>3, <2>4 DEF Handle
<1>8. CASE \E c \in calls : CallFails(c)
  BY <1>1, <1>8 DEF CallFails, origin, targetState
<1>9. CASE HubRestarts BY <1>1, <1>9 DEF HubRestarts, origin
<1>10. CASE UNCHANGED vars BY <1>1, <1>10 DEF vars, origin, targetState
<1> QED BY <1>1, <1>2, <1>3, <1>4, <1>5, <1>6, <1>7, <1>8, <1>9, <1>10 DEF Next

(* The types, for any number of tasks, handovers, operators and faults:    *)
(* among them that whoever waits for a call is known to it.                *)
THEOREM TypeCorrect == ASSUME ~Overlapping PROVE Spec => []TypeOK
<1>1. IInv => TypeOK BY DEF IInv
<1> QED BY <1>1, Invariance, PTL

(* As long as a leg is or may be repeated, the hub has its payload,        *)
(* whatever calls fail and whenever it restarts (handover_retry_payload).  *)
THEOREM PayloadsAreKept == ASSUME ~Overlapping PROVE Spec => []PayloadKept
<1>1. IInv => PayloadKept BY DEF IInv
<1> QED BY <1>1, Invariance, PTL

(* However calls fail, however often the hub and its operators try again,  *)
(* and wherever the hub restarts: one process is started elsewhere for a   *)
(* task, and its answer completes the task, once.                          *)
THEOREM ImplementsAbstractExchange == ASSUME ~Overlapping PROVE Spec => ImplementsExchange
<1>1. Init => Promise!Init
  <2> SUFFICES ASSUME Init PROVE Promise!Init OBVIOUS
  <2>1. \A t \in Tasks : Started(t) = {} /\ task[t] = "waiting" BY DEF Init, Started
  <2> QED BY <2>1 DEF Promise!Init, Stage
<1>2. IInv /\ [Next]_vars => [Promise!Next]_<<Stage, [t \in Tasks |-> Started(t)]>> BY AbstractStep
<1> QED BY <1>1, <1>2, Invariance, PTL DEF Spec, ImplementsExchange, Promise!Spec
=============================================================================
