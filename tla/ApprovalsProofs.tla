--------------------------- MODULE ApprovalsProofs ---------------------------
(***************************************************************************)
(* Theorems about Approvals, for any requests, people and faults: when a   *)
(* request has one decision under way at a time, what is executed stands   *)
(* approved by a second person, a decision is final, and the break-glass   *)
(* account needs two people.                                               *)
(***************************************************************************)
EXTENDS Approvals, TLAPS

(* The row of r says that p, who is not its initiator, approved it.        *)
ApprovedBy(r, p) ==
    request[r].status = "approved" /\ request[r].approvedBy = p /\ p # InitiatorOf[r]

OneDecision ==
    \A p, q \in People :
        decision[p].pc # "idle" /\ decision[q].pc # "idle"
          /\ decision[p].request = decision[q].request => p = q

(* What a decision under way has read still holds, and what it committed.  *)
UnderWay ==
    \A p \in People :
        /\ decision[p].pc = "read" => request[decision[p].request].status = "pending"
        /\ decision[p].pc # "idle" /\ decision[p].verb = "approved" =>
              p # InitiatorOf[decision[p].request]
        /\ decision[p].pc = "committed" /\ decision[p].verb = "approved" =>
              ApprovedBy(decision[p].request, p)

Announced == \A m \in published : ApprovedBy(m[1], m[2])

Executed == \A r \in Requests : outcome[r] = "done" => \E p \in People : ApprovedBy(r, p)

IInv == TypeOK /\ OneDecision /\ UnderWay /\ Announced /\ Executed

LEMMA Initially == ASSUME Init PROVE IInv
<1>1. TypeOK
  <2>1. NoRequest \in [status : {"none", "pending", "approved", "rejected"},
                       approvedBy : People \cup {None}, rejectedBy : People \cup {None}]
    BY DEF NoRequest
  <2>2. requires \subseteq Actions BY DEF Init, Actions
  <2>3. faults \in 0..MaxFaults BY ApprovalsAssumption DEF Init
  <2> QED BY <2>1, <2>2, <2>3 DEF Init, TypeOK
<1>2. OneDecision /\ UnderWay BY DEF Init, OneDecision, UnderWay, Undecided
<1>3. Announced /\ Executed BY DEF Init, Announced, Executed
<1> QED BY <1>1, <1>2, <1>3 DEF IInv

(***************************************************************************)
(* Operators.                                                              *)
(***************************************************************************)
LEMMA Faults == ASSUME TypeOK, Fault PROVE faults' \in 0..MaxFaults
BY ApprovalsAssumption DEF TypeOK, Fault

(* A service makes and ends no other objects, and only the activation of   *)
(* break-glass makes that account.                                         *)
LEMMA Effects ==
    ASSUME NEW a \in Actions, NEW o \in SUBSET Objects
    PROVE  /\ Effect(a, o) \subseteq Objects
           /\ "superuser" \in Effect(a, o) \ o => a = "superuser.activate"
<1>1. ObjectOf(a) \in Objects BY DEF ObjectOf, Objects, Actions
<1>2. ObjectOf(a) = "superuser" => a = "superuser.activate" BY DEF ObjectOf, Actions
<1> QED BY <1>1, <1>2 DEF Effect

(* A message in the hands of a service is one of those published.          *)
LEMMA InHand ==
    ASSUME TypeOK, NEW s \in Services, executor[s].pc # "idle"
    PROVE  /\ executor[s] = [pc |-> executor[s].pc, msg |-> executor[s].msg]
           /\ executor[s].pc \in {"run", "ack"}
           /\ executor[s].msg \in published
           /\ executor[s].msg[1] \in Requests /\ executor[s].msg[2] \in People
           /\ ActionIn(s) \in Actions
<1>1. executor[s] \in [pc : {"run", "ack"}, msg : published] BY DEF TypeOK, Waiting
<1>2. executor[s].msg \in Requests \X People BY <1>1 DEF TypeOK
<1>3. ActionIn(s) \in Actions BY <1>2, ApprovalsAssumption DEF ActionIn
<1> QED BY <1>1, <1>2, <1>3

(* The invariant is about the rows, the decisions, the messages and what   *)
(* they led to: a step that leaves those alone, or leaves fewer, keeps it. *)
LEMMA Quiet ==
    ASSUME IInv, TypeOK', UNCHANGED request,
           published' = published,
           \A p \in People : decision'[p] = decision[p] \/ decision'[p] = Undecided,
           \A r \in Requests : outcome'[r] = "done" =>
               outcome[r] = "done" \/ \E p \in People : <<r, p>> \in published
    PROVE  IInv'
<1>1. \A r, p : ApprovedBy(r, p)' <=> ApprovedBy(r, p) BY DEF ApprovedBy
<1>2. OneDecision' /\ UnderWay'
  <2>1. \A p \in People : decision'[p].pc # "idle" => decision'[p] = decision[p]
    BY DEF Undecided
  <2>2. OneDecision' BY <2>1 DEF IInv, OneDecision
  <2>3. UnderWay' BY <1>1, <2>1 DEF IInv, UnderWay
  <2> QED BY <2>2, <2>3
<1>3. Announced' BY <1>1 DEF IInv, Announced
<1>4. Executed'
  <2> SUFFICES ASSUME NEW r \in Requests, outcome'[r] = "done"
               PROVE  \E p \in People : ApprovedBy(r, p)
    BY <1>1 DEF Executed
  <2>1. CASE outcome[r] = "done" BY <2>1 DEF IInv, Executed
  <2>2. ASSUME NEW p \in People, <<r, p>> \in published PROVE ApprovedBy(r, p)
    BY <2>2 DEF IInv, Announced
  <2> QED BY <2>1, <2>2
<1> QED BY <1>2, <1>3, <1>4 DEF IInv

(***************************************************************************)
(* What touches neither rows nor messages.                                 *)
(***************************************************************************)
LEMMA DirectActions ==
    ASSUME TypeOK,
           \/ \E r \in Requests : PutApprovalConfig(ActionOf[r]) \/ ExecuteDirectly(ActionOf[r])
           \/ AcquireLock \/ \E o \in Objects : EndDirectly(o)
    PROVE  TypeOK' /\ UNCHANGED <<deciding, published, outcome>>
<1> USE DEF TypeOK
<1>1. ASSUME NEW r \in Requests, PutApprovalConfig(ActionOf[r])
      PROVE  TypeOK' /\ UNCHANGED <<deciding, published, outcome>>
  <2>1. ActionOf[r] \in Actions BY ApprovalsAssumption
  <2>2. faults' \in 0..MaxFaults BY <1>1, Faults DEF PutApprovalConfig
  <2> QED BY <1>1, <2>1, <2>2 DEF PutApprovalConfig, deciding, bus
<1>2. ASSUME NEW r \in Requests, ExecuteDirectly(ActionOf[r])
      PROVE  TypeOK' /\ UNCHANGED <<deciding, published, outcome>>
  <2>1. ActionOf[r] \in Actions BY ApprovalsAssumption
  <2>2. objects' \subseteq Objects BY <1>2, <2>1, Effects DEF ExecuteDirectly
  <2> QED BY <1>2, <2>2 DEF ExecuteDirectly, deciding, bus
<1>3. CASE AcquireLock BY <1>3 DEF AcquireLock, deciding, bus, Objects
<1>4. ASSUME NEW o \in Objects, EndDirectly(o)
      PROVE  TypeOK' /\ UNCHANGED <<deciding, published, outcome>>
  BY <1>4 DEF EndDirectly, deciding, bus
<1> QED BY <1>1, <1>2, <1>3, <1>4

LEMMA ExecutorActions ==
    ASSUME TypeOK, NEW s \in Services,
           \/ \E m \in published : Deliver(s, m)
           \/ Execute(s) \/ Ack(s) \/ ExecutionRaises(s) \/ ExecutionLost(s)
    PROVE  /\ TypeOK' /\ UNCHANGED <<deciding, published>>
           /\ \A r \in Requests : outcome'[r] = "done" =>
                 outcome[r] = "done" \/ \E p \in People : <<r, p>> \in published
<1> USE DEF TypeOK
<1>1. ASSUME NEW m \in published, Deliver(s, m)
      PROVE  TypeOK' /\ UNCHANGED <<deciding, published, outcome>>
  <2>1. faults' \in 0..MaxFaults BY <1>1, Faults DEF Deliver
  <2>2. [pc |-> "run", msg |-> m] \in [pc : {"run", "ack"}, msg : published] OBVIOUS
  <2> QED BY <1>1, <2>1, <2>2 DEF Deliver, deciding
<1>2. CASE Execute(s)
  <2>1. executor[s].pc = "run" BY <1>2 DEF Execute
  <2> DEFINE m == executor[s].msg
  <2>2. /\ executor[s] = [pc |-> "run", msg |-> m] /\ m \in published
        /\ m[1] \in Requests /\ m[2] \in People /\ m = <<m[1], m[2]>>
        /\ ActionIn(s) \in Actions
    BY <2>1, InHand
  <2>3. PICK how \in {"gone", "done"} : Finish(s, how) BY <1>2, Zenon DEF Execute
  <2>4. executor' \in [Services -> {Waiting} \cup [pc : {"run", "ack"}, msg : published]]
    <3>1. [executor[s] EXCEPT !.pc = "ack"] = [pc |-> "ack", msg |-> m] BY <2>2
    <3>2. [pc |-> "ack", msg |-> m] \in [pc : {"run", "ack"}, msg : published] BY <2>2
    <3> HIDE DEF m
    <3>3. executor' = [executor EXCEPT ![s] = [pc |-> "ack", msg |-> m]]
      BY <2>3, <3>1 DEF Finish
    <3> QED BY <3>2, <3>3
  <2>5. outcome' \in [Requests -> {"none", "done", "gone"}]
        /\ \A r \in Requests \ {m[1]} : outcome'[r] = outcome[r]
    BY <2>2, <2>3 DEF Finish
  <2>6. objects' \subseteq Objects
    <3>1. objects' = objects \/ objects' = Effect(ActionIn(s), objects)
      BY <1>2, Zenon DEF Execute
    <3> QED BY <2>2, <3>1, Effects
  <2>7. UNCHANGED <<deciding, requires, published, acked, faults>> BY <1>2 DEF Execute
  <2>8. TypeOK' BY <2>4, <2>5, <2>6, <2>7 DEF deciding
  <2>9. <<m[1], m[2]>> \in published BY <2>2
  <2> HIDE DEF m
  <2> QED BY <2>2, <2>5, <2>7, <2>8, <2>9
<1>3. CASE Ack(s)
  <2>1. executor[s].msg \in published BY <1>3, InHand DEF Ack
  <2> QED BY <1>3, <2>1 DEF Ack, deciding
<1>4. CASE ExecutionRaises(s) BY <1>4 DEF ExecutionRaises, deciding
<1>5. CASE ExecutionLost(s)
  <2>1. faults' \in 0..MaxFaults BY <1>5, Faults DEF ExecutionLost
  <2> QED BY <1>5, <2>1 DEF ExecutionLost, deciding
<1> QED BY <1>1, <1>2, <1>3, <1>4, <1>5

(***************************************************************************)
(* The life of a request.                                                  *)
(***************************************************************************)
LEMMA CreateKeeps ==
    ASSUME IInv, NEW r \in Requests, CreateApprovalRequest(r)
    PROVE  IInv'
<1>0. TypeOK /\ request[r].status = "none" BY DEF IInv, CreateApprovalRequest
<1>1. /\ request' = [request EXCEPT ![r].status = "pending"]
      /\ UNCHANGED <<decision, requires, bus, objects, outcome, faults>>
  BY DEF CreateApprovalRequest
<1>2. TypeOK' BY <1>0, <1>1 DEF TypeOK, bus
<1>3. request'[r].status = "pending" /\ \A q \in Requests \ {r} : request'[q] = request[q]
  BY <1>0, <1>1 DEF TypeOK
<1>4. \A q \in Requests : \A p : ApprovedBy(q, p) => ApprovedBy(q, p)'
  BY <1>0, <1>3 DEF ApprovedBy
<1>5. OneDecision' BY <1>1 DEF IInv, OneDecision
<1>6. UnderWay'
  <2> SUFFICES ASSUME NEW p \in People, decision[p].pc # "idle"
               PROVE  /\ decision[p].pc = "read" =>
                            request'[decision[p].request].status = "pending"
                      /\ decision[p].verb = "approved" => p # InitiatorOf[decision[p].request]
                      /\ decision[p].pc = "committed" /\ decision[p].verb = "approved" =>
                            ApprovedBy(decision[p].request, p)'
    BY <1>1 DEF UnderWay
  <2>1. decision[p].request \in Requests BY <1>0 DEF TypeOK, Undecided
  <2>2. decision[p].pc = "read" => request'[decision[p].request].status = "pending"
    BY <1>3, <2>1 DEF IInv, UnderWay
  <2>3. decision[p].verb = "approved" => p # InitiatorOf[decision[p].request]
    BY DEF IInv, UnderWay
  <2>4. decision[p].pc = "committed" /\ decision[p].verb = "approved" =>
            ApprovedBy(decision[p].request, p)'
    BY <1>1, <1>4, <2>1 DEF IInv, UnderWay
  <2> QED BY <2>2, <2>3, <2>4
<1>7. Announced'
  <2>1. \A m \in published : m[1] \in Requests BY <1>0 DEF TypeOK
  <2> QED BY <1>1, <1>4, <2>1 DEF IInv, Announced, bus
<1>8. Executed' BY <1>1, <1>4 DEF IInv, Executed
<1> QED BY <1>2, <1>5, <1>6, <1>7, <1>8 DEF IInv

LEMMA ReadKeeps ==
    ASSUME IInv, Serialised, NEW p \in People, NEW r \in Requests,
           NEW verb \in {"approved", "rejected"}, ReadRequest(p, r, verb)
    PROVE  IInv'
<1> DEFINE d == [pc |-> "read", request |-> r, verb |-> verb]
<1>0. TypeOK BY DEF IInv
<1>1. decision' \in [People -> {Undecided} \cup
          [pc : {"read", "committed"}, request : Requests, verb : {"approved", "rejected"}]]
      /\ decision'[p] = d /\ \A q \in People \ {p} : decision'[q] = decision[q]
  BY <1>0 DEF ReadRequest, TypeOK
<1>2. UNCHANGED <<request, requires, bus, objects, outcome, faults>> BY DEF ReadRequest
<1>3. TypeOK' BY <1>0, <1>1, <1>2 DEF TypeOK, bus
<1>4. OneDecision'
  <2>1. \A q \in People : ~(decision[q].pc # "idle" /\ decision[q].request = r)
    BY DEF ReadRequest, InFlight
  <2> QED BY <1>1, <2>1 DEF IInv, OneDecision
<1>5. \A q, x : ApprovedBy(q, x)' <=> ApprovedBy(q, x) BY <1>2 DEF ApprovedBy
<1>6. UnderWay'
  <2>1. request[r].status = "pending" /\ (verb = "approved" => p # InitiatorOf[r])
    BY DEF ReadRequest
  <2> QED BY <1>1, <1>2, <1>5, <2>1 DEF IInv, UnderWay
<1>7. Announced' /\ Executed' BY <1>2, <1>5 DEF IInv, Announced, Executed, bus
<1> QED BY <1>3, <1>4, <1>6, <1>7 DEF IInv

LEMMA CommitKeeps ==
    ASSUME IInv, NEW p \in People, CommitDecision(p)
    PROVE  IInv'
<1> DEFINE r == decision[p].request
           verb == decision[p].verb
           row == IF verb = "approved"
                  THEN [request[r] EXCEPT !.status = "approved", !.approvedBy = p]
                  ELSE [request[r] EXCEPT !.status = "rejected", !.rejectedBy = p]
<1>0. TypeOK /\ decision[p].pc = "read" BY DEF IInv, CommitDecision
<1>1. decision[p] = [pc |-> "read", request |-> r, verb |-> verb]
      /\ r \in Requests /\ verb \in {"approved", "rejected"}
  BY <1>0 DEF TypeOK, Undecided
<1>2. request[r].status = "pending" /\ (verb = "approved" => p # InitiatorOf[r])
  BY <1>0 DEF IInv, UnderWay
<1>3. UNCHANGED <<requires, bus, objects, outcome, faults>> BY DEF CommitDecision
<1>4. request' = [request EXCEPT ![r] = row] BY <1>0, <1>1 DEF CommitDecision, TypeOK
<1>5. row \in [status : {"none", "pending", "approved", "rejected"},
               approvedBy : People \cup {None}, rejectedBy : People \cup {None}]
      /\ (verb = "approved" => row.status = "approved" /\ row.approvedBy = p)
  <2>1. request[r] \in [status : {"none", "pending", "approved", "rejected"},
               approvedBy : People \cup {None}, rejectedBy : People \cup {None}]
    BY <1>0, <1>1 DEF TypeOK
  <2> QED BY <2>1
<1>6. decision' = [decision EXCEPT ![p] = [pc |-> "committed", request |-> r, verb |-> verb]]
  <2>1. [decision[p] EXCEPT !.pc = "committed"]
          = [pc |-> "committed", request |-> r, verb |-> verb]
    BY <1>1
  <2> QED BY <2>1 DEF CommitDecision
<1> HIDE DEF r, verb, row
<1>7. decision' \in [People -> {Undecided} \cup
          [pc : {"read", "committed"}, request : Requests, verb : {"approved", "rejected"}]]
      /\ decision'[p] = [pc |-> "committed", request |-> r, verb |-> verb]
      /\ \A q \in People \ {p} : decision'[q] = decision[q]
  BY <1>0, <1>1, <1>6 DEF TypeOK
<1>8. request'[r] = row /\ \A q \in Requests \ {r} : request'[q] = request[q]
  BY <1>0, <1>1, <1>4 DEF TypeOK
<1>9. TypeOK' BY <1>0, <1>3, <1>4, <1>5, <1>7 DEF TypeOK, bus
<1>10. \A q \in Requests : \A x : ApprovedBy(q, x) => q # r /\ ApprovedBy(q, x)'
  BY <1>2, <1>8 DEF ApprovedBy
<1>11. OneDecision' BY <1>0, <1>1, <1>7 DEF IInv, OneDecision
<1>12. UnderWay'
  <2> SUFFICES ASSUME NEW q \in People, decision'[q].pc # "idle"
               PROVE  /\ decision'[q].pc = "read" =>
                            request'[decision'[q].request].status = "pending"
                      /\ decision'[q].verb = "approved" => q # InitiatorOf[decision'[q].request]
                      /\ decision'[q].pc = "committed" /\ decision'[q].verb = "approved" =>
                            ApprovedBy(decision[q].request, q)'
    BY DEF UnderWay
  <2>1. CASE q = p BY <1>2, <1>5, <1>7, <1>8, <2>1 DEF ApprovedBy
  <2>2. CASE q # p
    <3>1. decision'[q] = decision[q] BY <1>7, <2>2
    <3>2. decision[q].request \in Requests BY <1>0, <3>1 DEF TypeOK, Undecided
    <3>3. decision[q].request # r BY <1>0, <1>1, <2>2, <3>1 DEF IInv, OneDecision
    <3>4. request'[decision[q].request] = request[decision[q].request] BY <1>8, <3>2, <3>3
    <3> QED BY <1>10, <3>1, <3>2, <3>4 DEF IInv, UnderWay
  <2> QED BY <2>1, <2>2
<1>13. Announced'
  <2>1. \A m \in published : m[1] \in Requests BY <1>0 DEF TypeOK
  <2> QED BY <1>3, <1>10, <2>1 DEF IInv, Announced, bus
<1>14. Executed' BY <1>3, <1>10 DEF IInv, Executed
<1> QED BY <1>9, <1>11, <1>12, <1>13, <1>14 DEF IInv

LEMMA PublishKeeps ==
    ASSUME IInv, NEW p \in People, PublishDecision(p)
    PROVE  IInv'
<1> DEFINE r == decision[p].request
<1>0. TypeOK /\ decision[p].pc = "committed" BY DEF IInv, PublishDecision
<1>1. r \in Requests BY <1>0 DEF TypeOK, Undecided
<1>2. /\ decision' = [decision EXCEPT ![p] = Undecided]
      /\ UNCHANGED <<request, requires, acked, executor, objects, outcome, faults>>
  BY DEF PublishDecision
<1>3. published \subseteq published' /\ published' \subseteq published \cup {<<r, p>>}
      /\ (published' # published => decision[p].verb = "approved")
  BY DEF PublishDecision
<1>4. \A q, x : ApprovedBy(q, x)' <=> ApprovedBy(q, x) BY <1>2 DEF ApprovedBy
<1>5. decision' \in [People -> {Undecided} \cup
          [pc : {"read", "committed"}, request : Requests, verb : {"approved", "rejected"}]]
      /\ \A q \in People : decision'[q] = decision[q] \/ decision'[q] = Undecided
  BY <1>0, <1>2 DEF TypeOK
<1>6. TypeOK'
  <2>1. published' \subseteq Requests \X People BY <1>0, <1>1, <1>3 DEF TypeOK
  <2>2. executor' \in [Services -> {Waiting} \cup [pc : {"run", "ack"}, msg : published']]
    BY <1>0, <1>2, <1>3 DEF TypeOK
  <2> QED BY <1>0, <1>2, <1>3, <1>5, <2>1, <2>2 DEF TypeOK
<1>7. OneDecision' /\ UnderWay'
  BY <1>2, <1>4, <1>5, Zenon DEF IInv, OneDecision, UnderWay, Undecided
<1>8. Announced'
  <2> SUFFICES ASSUME NEW m \in published' PROVE ApprovedBy(m[1], m[2])
    BY <1>4 DEF Announced
  <2>1. CASE m \in published BY <2>1 DEF IInv, Announced
  <2>2. CASE m \notin published
    <3>1. m = <<r, p>> /\ decision[p].verb = "approved" BY <1>3, <2>2
    <3> QED BY <1>0, <3>1 DEF IInv, UnderWay
  <2> QED BY <2>1, <2>2
<1>9. Executed' BY <1>2, <1>4 DEF IInv, Executed
<1> QED BY <1>6, <1>7, <1>8, <1>9 DEF IInv

LEMMA LostKeeps ==
    ASSUME IInv, NEW p \in People, DecisionLost(p)
    PROVE  IInv'
<1>0. TypeOK BY DEF IInv
<1>1. faults' \in 0..MaxFaults BY <1>0, Faults DEF DecisionLost
<1>2. decision' \in [People -> {Undecided} \cup
          [pc : {"read", "committed"}, request : Requests, verb : {"approved", "rejected"}]]
      /\ \A q \in People : decision'[q] = decision[q] \/ decision'[q] = Undecided
  BY <1>0 DEF TypeOK, DecisionLost
<1>3. UNCHANGED <<request, requires, bus, objects, outcome>> BY DEF DecisionLost
<1>4. TypeOK' BY <1>0, <1>1, <1>2, <1>3 DEF TypeOK, bus
<1> QED BY <1>2, <1>3, <1>4, Quiet DEF bus

LEMMA EveryStepKeeps ==
    ASSUME IInv, Serialised, [Next]_vars
    PROVE  IInv'
<1>0. TypeOK BY DEF IInv
<1>1. CASE UNCHANGED vars
  <2>1. TypeOK' BY <1>0, <1>1 DEF vars, deciding, bus, TypeOK
  <2> QED BY <1>1, <2>1, Quiet DEF vars, deciding, bus
<1>2. ASSUME \/ \E r \in Requests : PutApprovalConfig(ActionOf[r]) \/ ExecuteDirectly(ActionOf[r])
             \/ AcquireLock \/ \E o \in Objects : EndDirectly(o)
      PROVE  IInv'
  <2>1. TypeOK' /\ UNCHANGED <<deciding, published, outcome>> BY <1>0, <1>2, DirectActions, Zenon
  <2> QED BY <2>1, Quiet DEF deciding
<1>3. ASSUME NEW s \in Services,
             \/ \E m \in published : Deliver(s, m)
             \/ Execute(s) \/ Ack(s) \/ ExecutionRaises(s) \/ ExecutionLost(s)
      PROVE  IInv'
  <2>1. /\ TypeOK' /\ UNCHANGED <<deciding, published>>
        /\ \A r \in Requests : outcome'[r] = "done" =>
              outcome[r] = "done" \/ \E p \in People : <<r, p>> \in published
    BY <1>0, <1>3, ExecutorActions, Zenon
  <2> QED BY <2>1, Quiet DEF deciding
<1>4. ASSUME NEW p \in People,
             \/ \E r \in Requests, verb \in {"approved", "rejected"} : ReadRequest(p, r, verb)
             \/ CommitDecision(p) \/ PublishDecision(p) \/ DecisionLost(p)
      PROVE  IInv'
  BY <1>4, ReadKeeps, CommitKeeps, PublishKeeps, LostKeeps
<1>5. ASSUME NEW r \in Requests, CreateApprovalRequest(r) PROVE IInv'
  BY <1>5, CreateKeeps
<1> QED BY <1>1, <1>2, <1>3, <1>4, <1>5, Zenon DEF Next

LEMMA Invariance == ASSUME Serialised PROVE Spec => []IInv
<1>1. Init => IInv BY Initially
<1>2. IInv /\ [Next]_vars => IInv' BY EveryStepKeeps
<1> QED BY <1>1, <1>2, PTL DEF Spec

(***************************************************************************)
(* The theorems.                                                           *)
(***************************************************************************)
(* Approval rows, messages and what the services hold are well typed; only *)
(* published messages are ever handled or acknowledged.                    *)
THEOREM TypeCorrect == ASSUME Serialised PROVE Spec => []TypeOK
<1>1. IInv => TypeOK BY DEF IInv
<1> QED BY <1>1, Invariance, PTL

(* What a service executes off the bus stands approved in approval_request *)
(* by somebody other than its initiator, whatever is lost or delivered     *)
(* twice.                                                                  *)
THEOREM OnlyApprovedIsExecuted == ASSUME Serialised PROVE Spec => []OnlyApprovedExecuted
<1>1. IInv => OnlyApprovedExecuted
  BY DEF IInv, Executed, ApprovedBy, OnlyApprovedExecuted
<1> QED BY <1>1, Invariance, PTL

(* approve and reject change no row that is decided.                       *)
THEOREM DecisionsAreFinal == ASSUME Serialised PROVE Spec => DecisionIsFinal
<1> DEFINE Final == \A r \in Requests :
        request[r].status \in {"approved", "rejected"} => UNCHANGED request[r]
<1>1. ASSUME IInv, [Next]_vars PROVE Final
  <2>0. TypeOK BY <1>1 DEF IInv
  <2>1. CASE UNCHANGED request BY <2>1
  <2>2. ASSUME NEW q \in Requests, CreateApprovalRequest(q) PROVE Final
    BY <2>0, <2>2 DEF CreateApprovalRequest, TypeOK
  <2>3. ASSUME NEW p \in People, CommitDecision(p) PROVE Final
    <3>1. decision[p].request \in Requests BY <2>0, <2>3 DEF CommitDecision, TypeOK, Undecided
    <3>2. request[decision[p].request].status = "pending"
      BY <1>1, <2>3 DEF IInv, UnderWay, CommitDecision
    <3>3. \A q \in Requests \ {decision[p].request} : request'[q] = request[q]
      BY <2>0, <2>3, <3>1 DEF CommitDecision, TypeOK
    <3> QED BY <3>2, <3>3
  <2>4. CASE Next /\ ~UNCHANGED request
    BY <2>2, <2>3, <2>4, Zenon DEF Next, PutApprovalConfig, ExecuteDirectly, ReadRequest, PublishDecision,
       DecisionLost, Deliver, Execute, Ack, ExecutionRaises, ExecutionLost, AcquireLock,
       EndDirectly, deciding
  <2> QED BY <1>1, <2>1, <2>4 DEF vars, deciding
<1>2. IInv /\ [Next]_vars => [Final]_vars BY <1>1
<1> QED BY <1>2, Invariance, PTL DEF Spec, DecisionIsFinal

(* auth-service activates the break-glass account only on a message of an  *)
(* approval that somebody other than the initiator gave.                   *)
THEOREM BreakGlassTakesTwo == ASSUME Serialised PROVE Spec => BreakGlassNeedsTwo
<1> DEFINE Two == "superuser" \in objects' \ objects =>
        \E r \in Requests :
            /\ ActionOf[r] = "superuser.activate"
            /\ request[r].approvedBy \in People \ {InitiatorOf[r]}
<1>1. ASSUME IInv, [Next]_vars PROVE Two
  <2> SUFFICES ASSUME "superuser" \in objects' \ objects
               PROVE  \E r \in Requests :
                          /\ ActionOf[r] = "superuser.activate"
                          /\ request[r].approvedBy \in People \ {InitiatorOf[r]}
    OBVIOUS
  <2>0. TypeOK /\ ~UNCHANGED objects BY <1>1 DEF IInv
  <2>1. ASSUME NEW r \in Requests, ExecuteDirectly(ActionOf[r]) PROVE FALSE
    <3>1. ActionOf[r] \in Actions /\ objects \in SUBSET Objects
      BY <2>0, ApprovalsAssumption DEF TypeOK
    <3>2. objects' = Effect(ActionOf[r], objects) /\ ActionOf[r] # "superuser.activate"
      BY <2>1 DEF ExecuteDirectly
    <3> QED BY <3>1, <3>2, Effects
  <2>2. ~AcquireLock /\ \A o \in Objects : ~EndDirectly(o)
    BY DEF AcquireLock, EndDirectly
  <2>3. PICK s \in Services : Execute(s)
    BY <1>1, <2>0, <2>1, <2>2, Zenon DEF Next, CreateApprovalRequest, PutApprovalConfig, ReadRequest,
       CommitDecision, PublishDecision, DecisionLost, Deliver, Ack, ExecutionRaises,
       ExecutionLost, vars
  <2>4. executor[s].pc = "run" BY <2>3 DEF Execute
  <2> DEFINE m == executor[s].msg
  <2>5. m \in published /\ m[1] \in Requests /\ m[2] \in People /\ ActionIn(s) \in Actions
    BY <2>0, <2>4, InHand
  <2>6. ActionOf[m[1]] = "superuser.activate"
    <3>1. objects' = Effect(ActionIn(s), objects) BY <2>0, <2>3, Zenon DEF Execute
    <3>2. objects \in SUBSET Objects BY <2>0 DEF TypeOK
    <3>3. ActionIn(s) = "superuser.activate" BY <2>5, <3>1, <3>2, Effects
    <3> QED BY <3>3 DEF ActionIn
  <2>7. ApprovedBy(m[1], m[2]) BY <1>1, <2>5 DEF IInv, Announced
  <2> HIDE DEF m
  <2> QED BY <2>5, <2>6, <2>7 DEF ApprovedBy
<1>2. IInv /\ [Next]_vars => [Two]_vars BY <1>1
<1> QED BY <1>2, Invariance, PTL DEF Spec, BreakGlassNeedsTwo
=============================================================================
