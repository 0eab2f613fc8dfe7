-------------------------- MODULE AuditChainProofs --------------------------
(***************************************************************************)
(* Theorems about AuditChain: the chain verifies after every interleaving  *)
(* of handlers, redeliveries and crashes, nothing acknowledged is missing, *)
(* and the chain with its ledger implements the abstract log.              *)
(***************************************************************************)
EXTENDS AuditChain, TLAPS

(***************************************************************************)
(* Operators.                                                              *)
(***************************************************************************)
LEMMA FunctionIsSeq ==
    ASSUME NEW S, NEW n \in Nat, NEW f \in [1..n -> S]
    PROVE  f \in Seq(S) /\ Len(f) = n
OBVIOUS

LEMMA AppendAsFunction ==
    ASSUME NEW S, NEW q \in Seq(S), NEW x \in S
    PROVE  Append(q, x) = [i \in 1..(Len(q) + 1) |-> IF i = Len(q) + 1 THEN x ELSE q[i]]
<1> DEFINE a == Append(q, x)
<1>1. a \in Seq(S) /\ DOMAIN a = 1..(Len(q) + 1) OBVIOUS
<1>2. \A i \in 1..(Len(q) + 1) : a[i] = IF i = Len(q) + 1 THEN x ELSE q[i] OBVIOUS
<1>3. a = [i \in 1..(Len(q) + 1) |-> a[i]]
  <2> HIDE DEF a
  <2> QED BY <1>1
<1> QED BY <1>2, <1>3

LEMMA LegacyRows ==
    ASSUME NEW bare \in 0..Len(Legacy)
    PROVE  /\ LegacyChain(bare) \in Seq(Rows)
           /\ Len(LegacyChain(bare)) = Len(Legacy)
           /\ Recorded(LegacyChain(bare)) = LegacyEvents
           /\ \A i \in 1..Len(Legacy) : LegacyChain(bare)[i].event = Legacy[i]
           /\ Verifies(LegacyChain(bare), [actor |-> bare, onBehalfOf |-> Len(Legacy)])
<1> DEFINE c == LegacyChain(bare)
<1>1. Legacy \in Seq(Events) BY AuditAssumption
<1>2. \A n \in 0..Len(Legacy) : LegacyHash(bare, n) \in Hashes
  <2> TAKE n \in 0..Len(Legacy)
  <2>1. \A j \in 1..n : Fields(Legacy[j], j > bare, FALSE)
                          \in [event : Events, actor : BOOLEAN, onBehalfOf : BOOLEAN]
    BY <1>1 DEF Fields
  <2>2. LegacyHash(bare, n) \in
          [1..n -> [event : Events, actor : BOOLEAN, onBehalfOf : BOOLEAN]]
    BY <2>1 DEF LegacyHash
  <2>3. n \in Nat BY <1>1
  <2> QED BY <2>2, <2>3, FunctionIsSeq DEF Hashes
<1>3. /\ c \in Seq(Rows)
      /\ Len(c) = Len(Legacy)
      /\ \A i \in 1..Len(Legacy) : /\ c[i].event = Legacy[i]
                                   /\ c[i].prev = LegacyHash(bare, i - 1)
                                   /\ c[i].hash = LegacyHash(bare, i)
  <2>1. \A i \in 1..Len(Legacy) :
            [event |-> Legacy[i], prev |-> LegacyHash(bare, i - 1), hash |-> LegacyHash(bare, i)]
              \in Rows
    BY <1>1, <1>2 DEF Rows
  <2>2. c \in [1..Len(Legacy) -> Rows] BY <2>1 DEF LegacyChain
  <2>3. c \in Seq(Rows) /\ Len(c) = Len(Legacy) BY <1>1, <2>2, FunctionIsSeq
  <2>4. ASSUME NEW i \in 1..Len(Legacy)
        PROVE  /\ c[i].event = Legacy[i]
               /\ c[i].prev = LegacyHash(bare, i - 1)
               /\ c[i].hash = LegacyHash(bare, i)
    BY DEF LegacyChain
  <2> QED BY <2>3, <2>4
<1>4. \A n \in 1..Len(Legacy) : LegacyHash(bare, n) =
          Append(LegacyHash(bare, n - 1), Fields(Legacy[n], n > bare, FALSE))
  <2> TAKE n \in 1..Len(Legacy)
  <2> DEFINE f == [j \in 1..Len(Legacy) |-> Fields(Legacy[j], j > bare, FALSE)]
  <2>0. n \in Nat \ {0} /\ 1..n \subseteq 1..Len(Legacy) /\ 1..(n - 1) \subseteq 1..n
    BY <1>1
  <2>3. \A j \in 1..Len(Legacy) : f[j] = Fields(Legacy[j], j > bare, FALSE) OBVIOUS
  <2>4. LegacyHash(bare, n) = [j \in 1..n |-> f[j]]
    BY <2>0, <2>3 DEF LegacyHash
  <2>5. LegacyHash(bare, n - 1) = [j \in 1..(n - 1) |-> f[j]]
    BY <2>0, <2>3 DEF LegacyHash
  <2>1. /\ LegacyHash(bare, n) = [j \in 1..n |-> f[j]]
        /\ LegacyHash(bare, n - 1) = [j \in 1..(n - 1) |-> f[j]]
        /\ Fields(Legacy[n], n > bare, FALSE) = f[n]
        /\ n \in Nat \ {0}
    BY <2>0, <2>3, <2>4, <2>5
  <2> HIDE DEF f
  <2>2. Append([j \in 1..(n - 1) |-> f[j]], f[n]) = [j \in 1..n |-> f[j]]
    BY <2>1
  <2> QED BY <2>1, <2>2
<1>5. Verifies(c, [actor |-> bare, onBehalfOf |-> Len(Legacy)])
  <2> SUFFICES ASSUME NEW i \in 1..Len(Legacy)
               PROVE  LET prev == IF i = 1 THEN GenesisHash ELSE c[i - 1].hash IN
                      /\ c[i].prev = prev
                      /\ c[i].hash = ComputeHash(prev,
                            Fields(c[i].event, i > bare, i > Len(Legacy)))
    BY <1>1, <1>3 DEF Verifies
  <2>1. (IF i = 1 THEN GenesisHash ELSE c[i - 1].hash) = LegacyHash(bare, i - 1)
    <3>1. CASE i = 1
      <4>1. LegacyHash(bare, i - 1) = <<>> BY <3>1 DEF LegacyHash
      <4> QED BY <3>1, <4>1 DEF GenesisHash
    <3> HIDE DEF c
    <3>2. CASE i # 1
      <4>1. i - 1 \in 1..Len(Legacy) BY <3>2, <1>1
      <4>2. c[i - 1].hash = LegacyHash(bare, i - 1) BY <1>3, <4>1
      <4> QED BY <3>2, <4>2
    <3> QED BY <3>1, <3>2
  <2>2. (i > Len(Legacy)) = FALSE BY <1>1
  <2> HIDE DEF c
  <2>3. /\ c[i].prev = LegacyHash(bare, i - 1)
        /\ c[i].hash = LegacyHash(bare, i)
        /\ c[i].event = Legacy[i]
    BY <1>3
  <2> QED BY <1>4, <2>1, <2>2, <2>3 DEF ComputeHash
<1>6. Recorded(c) = LegacyEvents
  <2>1. DOMAIN c = 1..Len(Legacy) /\ DOMAIN Legacy = 1..Len(Legacy) BY <1>1, <1>3
  <2> QED BY <1>3, <2>1 DEF Recorded, LegacyEvents
<1> HIDE DEF c
<1>7. \A i \in 1..Len(Legacy) : c[i].event = Legacy[i] BY <1>3
<1> QED BY <1>3, <1>5, <1>6, <1>7 DEF c

(* What an appended row does to the chain.                                 *)
LEMMA AppendedRow ==
    ASSUME NEW c \in Seq(Rows), NEW row \in Rows
    PROVE  /\ Append(c, row) \in Seq(Rows)
           /\ Recorded(Append(c, row)) = Recorded(c) \cup {row.event}
<1> DEFINE d == Append(c, row)
<1>1. /\ d \in Seq(Rows) /\ Len(d) = Len(c) + 1 /\ DOMAIN d = 1..(Len(c) + 1)
      /\ DOMAIN c = 1..Len(c)
      /\ \A i \in 1..Len(c) : d[i] = c[i]
      /\ d[Len(c) + 1] = row
  OBVIOUS
<1> HIDE DEF d
<1>2. Recorded(d) = Recorded(c) \cup {row.event}
  <2>1. ASSUME NEW e \in Recorded(d) PROVE e \in Recorded(c) \cup {row.event}
    <3>1. PICK i \in 1..(Len(c) + 1) : e = d[i].event BY <2>1, <1>1 DEF Recorded
    <3> QED BY <3>1, <1>1 DEF Recorded
  <2>2. ASSUME NEW e \in Recorded(c) PROVE e \in Recorded(d)
    <3>1. PICK i \in 1..Len(c) : e = c[i].event BY <2>2, <1>1 DEF Recorded
    <3> QED BY <3>1, <1>1 DEF Recorded
  <2>3. row.event \in Recorded(d) BY <1>1 DEF Recorded
  <2> QED BY <2>1, <2>2, <2>3
<1> QED BY <1>1, <1>2 DEF d

LEMMA HeadHashType == ASSUME NEW c \in Seq(Rows) PROVE HeadHash(c) \in Hashes
<1>1. <<>> \in Hashes BY DEF Hashes
<1>2. CASE c = <<>> BY <1>1, <1>2 DEF HeadHash, GenesisHash
<1>3. CASE c # <<>>
  <2>1. c[Len(c)] \in Rows BY <1>3
  <2> QED BY <1>3, <2>1 DEF HeadHash, Rows
<1> QED BY <1>2, <1>3

LEMMA NewRowType ==
    ASSUME NEW e \in Events, NEW prev \in Hashes
    PROVE  /\ RowOf(e, prev, Fields(e, TRUE, TRUE)) \in Rows
           /\ RowOf(e, prev, Fields(e, TRUE, TRUE)).event = e
<1>1. Append(prev, [event |-> e, actor |-> TRUE, onBehalfOf |-> TRUE]) \in Hashes
  BY DEF Hashes
<1> QED BY <1>1 DEF RowOf, Rows, Fields, ComputeHash

(***************************************************************************)
(* Type correctness.                                                       *)
(***************************************************************************)
USE DEF At, Goto, Fault, stored, bus, service

LEMMA InitTypeOK == Init => TypeOK
<1> SUFFICES ASSUME Init PROVE TypeOK
  OBVIOUS
<1>1. PICK bare \in 0..Len(Legacy) :
          /\ chain = LegacyChain(bare)
          /\ \/ meta = [actor |-> bare, onBehalfOf |-> Null]
             \/ meta = NoMeta
  BY DEF Init
<1>2. chain \in Seq(Rows) BY <1>1, LegacyRows
<1>3. meta \in [actor : Nat \cup {Null}, onBehalfOf : Nat \cup {Null}]
  BY <1>1, AuditAssumption DEF NoMeta
<1>4. LegacyEvents \subseteq Events BY AuditAssumption DEF LegacyEvents
<1>5. {SubjectOf[e] : e \in LegacyEvents} \subseteq Subjects BY <1>4, AuditAssumption
<1>6. Idle \in [pc : PCs, event : Events \cup {None}, prev : Hashes]
  BY DEF Idle, PCs, Hashes, GenesisHash
<1>7. Idle.pc = "idle" BY DEF Idle
<1>8. ledger \in Seq(Forced) /\ faults \in 0..MaxFaults BY AuditAssumption DEF Init
<1> QED BY <1>2, <1>3, <1>4, <1>5, <1>6, <1>7, <1>8 DEF Init, TypeOK

LEMMA NextTypeOK == TypeOK /\ [Next]_vars => TypeOK'
<1> SUFFICES ASSUME TypeOK, [Next]_vars PROVE TypeOK'
  OBVIOUS
<1> USE AuditAssumption
<1>0. Idle \in [pc : PCs, event : Events \cup {None}, prev : Hashes] /\ Idle.pc = "idle"
  BY DEF Idle, PCs, Hashes, GenesisHash
<1>1. ASSUME NEW s \in Subjects, AddStream(s) PROVE TypeOK'
  BY <1>1 DEF TypeOK, AddStream
<1>2. ASSUME NEW s \in Subjects, Subscribe(s) PROVE TypeOK'
  BY <1>2 DEF TypeOK, Subscribe
<1>3. ASSUME NEW s \in Subjects, Acquire(s) PROVE TypeOK'
  BY <1>3 DEF TypeOK, Acquire, PCs
<1>4. ASSUME NEW s \in Subjects, FindRecorded(s) PROVE TypeOK'
  BY <1>4 DEF TypeOK, FindRecorded, PCs
<1>5. ASSUME NEW s \in Subjects, FindHead(s) PROVE TypeOK'
  <2>1. HeadHash(chain) \in Hashes BY HeadHashType DEF TypeOK
  <2>2. handler' \in [Subjects -> [pc : PCs, event : Events \cup {None}, prev : Hashes]]
    <3> DEFINE H == [pc : PCs, event : Events \cup {None}, prev : Hashes]
               r == [handler[s] EXCEPT !.pc = "commit", !.prev = HeadHash(chain)]
    <3>1. handler \in [Subjects -> H] BY DEF TypeOK
    <3>2. r \in H
      <4>1. handler[s] \in H BY <3>1
      <4> QED BY <4>1, <2>1 DEF PCs
    <3>3. handler' = [handler EXCEPT ![s] = r] BY <1>5 DEF FindHead
    <3> HIDE DEF H, r
    <3>4. handler' \in [Subjects -> H] BY <3>1, <3>2, <3>3
    <3> QED BY <3>4 DEF H
  <2>3. \A x \in Subjects : handler'[x].pc # "idle" =>
          handler[x].pc # "idle" /\ handler'[x].event = handler[x].event
    BY <1>5 DEF TypeOK, FindHead
  <2> QED BY <1>5, <2>2, <2>3 DEF TypeOK, FindHead
<1>6. ASSUME NEW s \in Subjects, Commit(s) PROVE TypeOK'
  <2> DEFINE e == handler[s].event
             row == RowOf(e, handler[s].prev, Fields(e, TRUE, TRUE))
  <2>1. e \in Events /\ handler[s].prev \in Hashes BY <1>6 DEF TypeOK, Commit
  <2>2. chain' \in Seq(Rows)
    <3>1. row \in Rows BY <2>1, NewRowType
    <3>2. chain' = Append(chain, row) BY <1>6 DEF Commit
    <3> HIDE DEF row
    <3> QED BY <3>1, <3>2, AppendedRow DEF TypeOK
  <2>3. handler' \in [Subjects -> [pc : PCs, event : Events \cup {None}, prev : Hashes]]
    <3> DEFINE H == [pc : PCs, event : Events \cup {None}, prev : Hashes]
               r == [handler[s] EXCEPT !.pc = "ledger"]
    <3>1. handler \in [Subjects -> H] BY DEF TypeOK
    <3>2. r \in H
      <4>1. handler[s] \in H BY <3>1
      <4> QED BY <4>1 DEF PCs
    <3>3. handler' = [handler EXCEPT ![s] = r] BY <1>6 DEF Commit
    <3> HIDE DEF H, r
    <3>4. handler' \in [Subjects -> H] BY <3>1, <3>2, <3>3
    <3> QED BY <3>4 DEF H
  <2>4. \A x \in Subjects : handler'[x].pc # "idle" =>
          handler[x].pc # "idle" /\ handler'[x].event = handler[x].event
    BY <1>6 DEF TypeOK, Commit
  <2> HIDE DEF row
  <2>5. UNCHANGED <<meta, ledger, published, streams, acked, running, pending, subscribed, faults>>
        /\ lock' = None
    BY <1>6 DEF Commit
  <2> QED BY <2>2, <2>3, <2>4, <2>5 DEF TypeOK
<1>7. ASSUME NEW s \in Subjects, AppendLedger(s) PROVE TypeOK'
  <2>1. ledger' \in Seq(Forced) BY <1>7 DEF TypeOK, AppendLedger
  <2> QED BY <1>7, <2>1 DEF TypeOK, AppendLedger, PCs
<1>8. ASSUME NEW s \in Subjects, Ack(s) PROVE TypeOK'
  BY <1>0, <1>8 DEF TypeOK, Ack
<1>9. ASSUME NEW s \in Subjects, AckLost(s) PROVE TypeOK'
  BY <1>0, <1>9 DEF TypeOK, AckLost
<1>10. ASSUME NEW s \in Subjects, Fail(s) PROVE TypeOK'
  BY <1>0, <1>10 DEF TypeOK, Fail
<1>11. ASSUME NEW e \in Events, Publish(e) PROVE TypeOK'
  BY <1>11 DEF TypeOK, Publish
<1>12. ASSUME NEW e \in Events, NEW s \in Subjects, Deliver(s, e) PROVE TypeOK'
  <2>1. <<>> \in Hashes BY DEF Hashes
  <2>2. faults' \in 0..MaxFaults BY <1>12 DEF Deliver, TypeOK
  <2> QED BY <1>12, <2>1, <2>2 DEF TypeOK, Deliver, PCs, GenesisHash
<1>13. CASE Start
  <2>1. Len(chain) \in Nat BY DEF TypeOK
  <2>2. meta' \in [actor : Nat \cup {Null}, onBehalfOf : Nat \cup {Null}]
    BY <1>13, <2>1 DEF Start, TypeOK, Cutovers, ActorCutover, OnBehalfOfCutover
  <2> QED BY <1>13, <2>2 DEF TypeOK, Start
<1>14. CASE Stop
  <2>1. faults' \in 0..MaxFaults BY <1>14 DEF Stop, TypeOK
  <2>2. handler' = [s \in Subjects |-> Idle] BY <1>14 DEF Stop
  <2>3. handler' \in [Subjects -> [pc : PCs, event : Events \cup {None}, prev : Hashes]]
        /\ \A s \in Subjects : handler'[s].pc = "idle"
    BY <1>0, <2>2
  <2> QED BY <1>14, <2>1, <2>3 DEF TypeOK, Stop
<1>15. CASE UNCHANGED vars
  BY <1>15 DEF TypeOK, vars
<1> QED BY <1>1, <1>2, <1>3, <1>4, <1>5, <1>6, <1>7, <1>8, <1>9, <1>10, <1>11, <1>12, <1>13,
        <1>14, <1>15 DEF Next, Step

(* Every reachable state is well typed, and only a running service has     *)
(* handlers at work (consumer.py).                                         *)
THEOREM TypeCorrect == Spec => []TypeOK
<1> QED BY InitTypeOK, NextTypeOK, PTL DEF Spec

(***************************************************************************)
(* The inductive invariant.  append_lock makes what a handler read the     *)
(* head of the chain until it commits; the cutovers are those of the rows  *)
(* older releases left, and every row appended since is beyond them.       *)
(***************************************************************************)
LockHeld == \A s \in Subjects : handler[s].pc \in {"find", "commit"} => lock = s

HeadRead ==
    \A s \in Subjects : At(s, "commit") =>
        /\ handler[s].prev = HeadHash(chain)
        /\ handler[s].event \notin Recorded(chain)

AfterCommit ==
    \A s \in Subjects :
        /\ handler[s].pc \in {"ledger", "ack"} => handler[s].event \in Recorded(chain)
        /\ At(s, "ack") /\ handler[s].event \in Forced => handler[s].event \in LedgerEntries

CutoversSet ==
    /\ Cutovers(meta, chain) \in [actor : 0..Len(chain), onBehalfOf : 0..Len(chain)]
    /\ running => meta = Cutovers(meta, chain)

Chained == Verifies(chain, Cutovers(meta, chain))

Inv == TypeOK /\ LockHeld /\ HeadRead /\ AfterCommit /\ CutoversSet /\ Chained /\ AckedIsRecorded

LEMMA InitInv == ASSUME ~DirectUpgrade, Init PROVE Inv
<1> USE AuditAssumption
<1>1. PICK bare \in 0..Len(Legacy) :
          /\ chain = LegacyChain(bare)
          /\ \/ meta = [actor |-> bare, onBehalfOf |-> Null]
             \/ meta = NoMeta /\ bare = Len(Legacy) /\ (bare > 0 => DirectUpgrade)
  BY DEF Init
<1>2. Len(Legacy) \in Nat /\ Len(chain) = Len(Legacy)
  <2>1. Len(LegacyChain(bare)) = Len(Legacy) BY LegacyRows
  <2> QED BY <1>1, <2>1
<1>3. Cutovers(meta, chain) = [actor |-> bare, onBehalfOf |-> Len(Legacy)]
  <2>1. CASE meta = [actor |-> bare, onBehalfOf |-> Null]
    <3>1. meta.actor # Null BY <2>1, <1>2 DEF Null
    <3>2. meta # NoMeta BY <3>1 DEF NoMeta
    <3>3. ActorCutover(meta, chain) = meta BY <3>2 DEF ActorCutover
    <3> QED BY <3>3, <2>1, <1>2 DEF Cutovers, OnBehalfOfCutover
  <2>2. CASE meta = NoMeta /\ bare = 0 /\ Len(Legacy) = 0
    <3>1. ActorCutover(meta, chain) = [actor |-> 0, onBehalfOf |-> 0]
      BY <2>2, <1>2 DEF ActorCutover
    <3> QED BY <3>1, <2>2 DEF Cutovers, OnBehalfOfCutover, Null
  <2> QED BY <1>1, <1>2, <2>1, <2>2
<1>4. CutoversSet BY <1>2, <1>3 DEF CutoversSet, Init
<1>5. Chained BY <1>1, <1>3, LegacyRows DEF Chained
<1>6. AckedIsRecorded BY <1>1, LegacyRows DEF AckedIsRecorded, Init
<1>7. \A s \in Subjects : handler[s].pc = "idle" BY DEF Init, Idle
<1> QED BY InitTypeOK, <1>4, <1>5, <1>6, <1>7 DEF Inv, LockHeld, HeadRead, AfterCommit

(* Steps that leave the chain, the cutovers and the acknowledgements alone *)
(* only have to be checked for the handlers.                               *)
LEMMA StoredUnchanged ==
    ASSUME Inv, UNCHANGED <<chain, meta, acked>>, running' => running,
           \A e : e \in LedgerEntries => e \in LedgerEntries'
    PROVE  CutoversSet' /\ Chained' /\ AckedIsRecorded'
<1>1. CutoversSet' BY DEF Inv, CutoversSet
<1>2. Chained' BY DEF Inv, Chained
<1>3. AckedIsRecorded' BY DEF Inv, AckedIsRecorded
<1> QED BY <1>1, <1>2, <1>3

LEMMA VerifiesAppend ==
    ASSUME NEW c \in Seq(Rows), NEW e \in Events,
           NEW m \in [actor : 0..Len(c), onBehalfOf : 0..Len(c)], Verifies(c, m)
    PROVE  Verifies(Append(c, RowOf(e, HeadHash(c), Fields(e, TRUE, TRUE))), m)
<1> DEFINE row == RowOf(e, HeadHash(c), Fields(e, TRUE, TRUE))
           d == Append(c, row)
<1>1. HeadHash(c) \in Hashes BY HeadHashType
<1>2. /\ row.event = e
      /\ row.prev = HeadHash(c)
      /\ row.hash = ComputeHash(HeadHash(c), Fields(e, TRUE, TRUE))
  BY DEF RowOf
<1> HIDE DEF row
<1>3. /\ Len(c) \in Nat /\ DOMAIN c = 1..Len(c)
      /\ DOMAIN d = 1..(Len(c) + 1)
      /\ \A i \in 1..Len(c) : d[i] = c[i]
      /\ d[Len(c) + 1] = row
  OBVIOUS
<1> HIDE DEF d
<1> SUFFICES ASSUME NEW i \in 1..(Len(c) + 1)
             PROVE  LET prev == IF i = 1 THEN GenesisHash ELSE d[i - 1].hash IN
                    /\ d[i].prev = prev
                    /\ d[i].hash = ComputeHash(prev,
                          Fields(d[i].event, i > m.actor, i > m.onBehalfOf))
  BY <1>3 DEF Verifies, d, row
<1>4. CASE i \in 1..Len(c)
  <2>1. d[i] = c[i] BY <1>3, <1>4
  <2>2. i # 1 => i - 1 \in 1..Len(c) BY <1>3, <1>4
  <2>3. i # 1 => d[i - 1] = c[i - 1] BY <1>3, <2>2
  <2>4. LET prev == IF i = 1 THEN GenesisHash ELSE c[i - 1].hash IN
        /\ c[i].prev = prev
        /\ c[i].hash = ComputeHash(prev, Fields(c[i].event, i > m.actor, i > m.onBehalfOf))
    BY <1>3, <1>4 DEF Verifies
  <2> QED BY <2>1, <2>3, <2>4
<1>5. CASE i = Len(c) + 1
  <2>1. (IF i = 1 THEN GenesisHash ELSE d[i - 1].hash) = HeadHash(c)
    <3>1. CASE c = <<>> BY <3>1, <1>5 DEF HeadHash
    <3>2. CASE c # <<>>
      <4>1. Len(c) > 0 /\ i - 1 = Len(c) BY <3>2, <1>3, <1>5
      <4>2. d[i - 1] = c[Len(c)] BY <4>1, <1>3
      <4> QED BY <3>2, <4>1, <4>2, <1>5 DEF HeadHash
    <3> QED BY <3>1, <3>2
  <2>2. (i > m.actor) = TRUE /\ (i > m.onBehalfOf) = TRUE BY <1>3, <1>5
  <2> QED BY <1>2, <1>3, <1>5, <2>1, <2>2
<1> QED BY <1>3, <1>4, <1>5

LEMMA NextInv == ASSUME Inv, [Next]_vars PROVE Inv'
<1> USE AuditAssumption
<1>0. TypeOK /\ TypeOK' BY NextTypeOK DEF Inv
<1>a. Idle.pc = "idle" BY DEF Idle
<1>1. ASSUME UNCHANGED <<stored, acked, handler, lock>>, running' => running PROVE Inv'
  <2>1. CutoversSet' /\ Chained' /\ AckedIsRecorded'
    BY <1>1, StoredUnchanged DEF LedgerEntries
  <2> QED BY <1>0, <1>1, <2>1 DEF Inv, LockHeld, HeadRead, AfterCommit, LedgerEntries
<1>2. ASSUME NEW s \in Subjects, Acquire(s) PROVE Inv'
  <2>1. CutoversSet' /\ Chained' /\ AckedIsRecorded'
    BY <1>2, StoredUnchanged DEF Acquire, LedgerEntries
  <2>2. LockHeld' BY <1>0, <1>2 DEF Inv, LockHeld, Acquire, TypeOK
  <2>3. HeadRead' BY <1>0, <1>2 DEF Inv, HeadRead, Acquire, TypeOK
  <2>4. AfterCommit' BY <1>0, <1>2 DEF Inv, AfterCommit, LedgerEntries, Acquire, TypeOK
  <2> QED BY <1>0, <2>1, <2>2, <2>3, <2>4 DEF Inv
<1>3. ASSUME NEW s \in Subjects, FindRecorded(s) PROVE Inv'
  <2>1. CutoversSet' /\ Chained' /\ AckedIsRecorded'
    BY <1>3, StoredUnchanged DEF FindRecorded, LedgerEntries
  <2>2. LockHeld' BY <1>0, <1>3 DEF Inv, LockHeld, FindRecorded, TypeOK
  <2>3. HeadRead' BY <1>0, <1>3 DEF Inv, HeadRead, FindRecorded, TypeOK
  <2>4. AfterCommit' BY <1>0, <1>3 DEF Inv, AfterCommit, LedgerEntries, FindRecorded, TypeOK
  <2> QED BY <1>0, <2>1, <2>2, <2>3, <2>4 DEF Inv
<1>4. ASSUME NEW s \in Subjects, FindHead(s) PROVE Inv'
  <2>1. CutoversSet' /\ Chained' /\ AckedIsRecorded'
    BY <1>4, StoredUnchanged DEF FindHead, LedgerEntries
  <2>5. \A x \in Subjects \ {s} : handler'[x] = handler[x]
    BY <1>0, <1>4 DEF FindHead, TypeOK
  <2>6. /\ handler'[s].pc = "commit"
        /\ handler'[s].prev = HeadHash(chain)
        /\ handler'[s].event = handler[s].event
    BY <1>0, <1>4 DEF FindHead, TypeOK
  <2>7. At(s, "find") /\ handler[s].event \notin Recorded(chain)
        /\ UNCHANGED <<chain, ledger, lock>>
    BY <1>4 DEF FindHead
  <2>2. LockHeld' BY <2>5, <2>6, <2>7 DEF Inv, LockHeld
  <2>3. HeadRead' BY <2>5, <2>6, <2>7 DEF Inv, HeadRead
  <2>4. AfterCommit' BY <2>5, <2>6, <2>7 DEF Inv, AfterCommit, LedgerEntries
  <2> QED BY <1>0, <2>1, <2>2, <2>3, <2>4 DEF Inv
<1>5. ASSUME NEW s \in Subjects, Commit(s) PROVE Inv'
  <2> DEFINE e == handler[s].event
             row == RowOf(e, HeadHash(chain), Fields(e, TRUE, TRUE))
  <2>1. /\ At(s, "commit") /\ lock = s /\ running /\ e \in Events
        /\ handler[s].prev = HeadHash(chain)
    BY <1>0, <1>5 DEF Inv, LockHeld, HeadRead, TypeOK, Commit
  <2>2. chain' = Append(chain, row) /\ UNCHANGED <<meta, ledger, acked, running>> /\ lock' = None
    BY <1>5, <2>1 DEF Commit
  <2>3. chain \in Seq(Rows) /\ row \in Rows /\ row.event = e
    <3>1. HeadHash(chain) \in Hashes BY <1>0, HeadHashType DEF TypeOK
    <3>2. row \in Rows BY <2>1, <3>1, NewRowType
    <3> QED BY <1>0, <3>2 DEF TypeOK, RowOf
  <2>4. /\ meta \in [actor : 0..Len(chain), onBehalfOf : 0..Len(chain)]
        /\ meta = Cutovers(meta, chain)
        /\ Verifies(chain, meta)
    BY <2>1 DEF Inv, CutoversSet, Chained
  <2>5. Verifies(chain', meta) BY <2>1, <2>2, <2>3, <2>4, VerifiesAppend
  <2>6. Recorded(chain') = Recorded(chain) \cup {e}
    <3> HIDE DEF row, e
    <3> QED BY <2>2, <2>3, AppendedRow
  <2>7. Len(chain') = Len(chain) + 1 /\ Len(chain) \in Nat
    <3> HIDE DEF row
    <3> QED BY <2>2, <2>3
  <2>8. Cutovers(meta', chain') = meta'
    <3>1. meta.actor # Null /\ meta.onBehalfOf # Null BY <2>4, <2>7 DEF Null
    <3>2. meta # NoMeta BY <3>1 DEF NoMeta
    <3>3. ActorCutover(meta, chain') = meta BY <3>2 DEF ActorCutover
    <3> QED BY <2>2, <3>1, <3>3 DEF Cutovers, OnBehalfOfCutover
  <2>9. CutoversSet'
    <3>1. meta' \in [actor : 0..Len(chain'), onBehalfOf : 0..Len(chain')]
      BY <2>2, <2>4, <2>7
    <3> QED BY <2>8, <3>1 DEF CutoversSet
  <2>10. Chained' BY <2>2, <2>5, <2>8 DEF Chained
  <2>11. AckedIsRecorded' BY <2>2, <2>6 DEF Inv, AckedIsRecorded, LedgerEntries
  <2>12. /\ \A x \in Subjects \ {s} : handler'[x] = handler[x]
         /\ handler'[s].pc = "ledger" /\ handler'[s].event = e
    BY <1>0, <1>5 DEF Commit, TypeOK
  <2>13. \A x \in Subjects \ {s} : handler[x].pc \notin {"find", "commit"}
    BY <2>1 DEF Inv, LockHeld
  <2>14. LockHeld' BY <2>12, <2>13 DEF LockHeld
  <2>15. HeadRead' BY <2>12, <2>13 DEF HeadRead
  <2>16. AfterCommit' BY <2>2, <2>6, <2>12 DEF Inv, AfterCommit, LedgerEntries
  <2> QED BY <1>0, <2>9, <2>10, <2>11, <2>14, <2>15, <2>16 DEF Inv
<1>6. ASSUME NEW s \in Subjects, AppendLedger(s) PROVE Inv'
  <2>0. /\ LedgerEntries \subseteq LedgerEntries'
        /\ handler[s].event \in Forced => handler[s].event \in LedgerEntries'
    <3>1. CASE handler[s].event \in Forced
      <4>1. ledger' = Append(ledger, handler[s].event) BY <1>6, <3>1 DEF AppendLedger
      <4>2. /\ ledger \in Seq(Forced) /\ Len(ledger') = Len(ledger) + 1
            /\ DOMAIN ledger = 1..Len(ledger) /\ DOMAIN ledger' = 1..(Len(ledger) + 1)
            /\ \A i \in 1..Len(ledger) : ledger'[i] = ledger[i]
            /\ ledger'[Len(ledger) + 1] = handler[s].event
            /\ Len(ledger) \in Nat
        BY <1>0, <3>1, <4>1 DEF TypeOK
      <4> QED BY <4>2 DEF LedgerEntries
    <3>2. CASE handler[s].event \notin Forced
      BY <1>6, <3>2 DEF AppendLedger, LedgerEntries
    <3> QED BY <3>1, <3>2
  <2>1. CutoversSet' /\ Chained' /\ AckedIsRecorded'
    BY <1>6, <2>0, StoredUnchanged DEF AppendLedger
  <2>2. LockHeld' BY <1>0, <1>6 DEF Inv, LockHeld, AppendLedger, TypeOK
  <2>3. HeadRead' BY <1>0, <1>6 DEF Inv, HeadRead, AppendLedger, TypeOK
  <2>5. /\ \A x \in Subjects \ {s} : handler'[x] = handler[x]
        /\ handler'[s].pc = "ack" /\ handler'[s].event = handler[s].event
        /\ At(s, "ledger") /\ UNCHANGED chain
    BY <1>0, <1>6 DEF AppendLedger, TypeOK
  <2>4. AfterCommit' BY <2>0, <2>5 DEF Inv, AfterCommit
  <2> QED BY <1>0, <2>1, <2>2, <2>3, <2>4 DEF Inv
<1>7. ASSUME NEW s \in Subjects, Ack(s) PROVE Inv'
  <2>1. CutoversSet' /\ Chained' BY <1>7 DEF Inv, CutoversSet, Chained, Ack
  <2>2. AckedIsRecorded'
    BY <1>7 DEF Inv, AckedIsRecorded, AfterCommit, LedgerEntries, Ack
  <2>3. LockHeld' BY <1>0, <1>7, <1>a DEF Inv, LockHeld, Ack, TypeOK
  <2>4. HeadRead' BY <1>0, <1>7, <1>a DEF Inv, HeadRead, Ack, TypeOK
  <2>5. AfterCommit' BY <1>0, <1>7, <1>a DEF Inv, AfterCommit, LedgerEntries, Ack, TypeOK
  <2> QED BY <1>0, <2>1, <2>2, <2>3, <2>4, <2>5 DEF Inv
<1>8. ASSUME NEW s \in Subjects, UNCHANGED <<stored, acked, running>>,
             handler' = [handler EXCEPT ![s] = Idle], lock' = IF lock = s THEN None ELSE lock
      PROVE  Inv'
  <2>1. CutoversSet' /\ Chained' /\ AckedIsRecorded'
    BY <1>8, StoredUnchanged DEF LedgerEntries
  <2>2. LockHeld' BY <1>0, <1>8, <1>a DEF Inv, LockHeld, TypeOK
  <2>3. HeadRead' BY <1>0, <1>8, <1>a DEF Inv, HeadRead, TypeOK
  <2>4. AfterCommit' BY <1>0, <1>8, <1>a DEF Inv, AfterCommit, LedgerEntries, TypeOK
  <2> QED BY <1>0, <2>1, <2>2, <2>3, <2>4 DEF Inv
<1>9. ASSUME NEW s \in Subjects, AckLost(s) PROVE Inv'
  <2>1. CutoversSet' /\ Chained' /\ AckedIsRecorded'
    BY <1>9, StoredUnchanged DEF LedgerEntries, AckLost
  <2>2. LockHeld' BY <1>0, <1>9, <1>a DEF Inv, LockHeld, TypeOK, AckLost
  <2>3. HeadRead' BY <1>0, <1>9, <1>a DEF Inv, HeadRead, TypeOK, AckLost
  <2>4. AfterCommit' BY <1>0, <1>9, <1>a DEF Inv, AfterCommit, LedgerEntries, TypeOK, AckLost
  <2> QED BY <1>0, <2>1, <2>2, <2>3, <2>4 DEF Inv
<1>10. ASSUME NEW s \in Subjects, Fail(s) PROVE Inv'
  BY <1>10, <1>8 DEF Fail
<1>11. ASSUME NEW e \in Events, NEW s \in Subjects, Deliver(s, e) PROVE Inv'
  <2>1. CutoversSet' /\ Chained' /\ AckedIsRecorded'
    BY <1>11, StoredUnchanged DEF LedgerEntries, Deliver
  <2>2. LockHeld' BY <1>0, <1>11 DEF Inv, LockHeld, TypeOK, Deliver
  <2>3. HeadRead' BY <1>0, <1>11 DEF Inv, HeadRead, TypeOK, Deliver
  <2>4. AfterCommit' BY <1>0, <1>11 DEF Inv, AfterCommit, LedgerEntries, TypeOK, Deliver
  <2> QED BY <1>0, <2>1, <2>2, <2>3, <2>4 DEF Inv
<1>12. CASE Start
  <2>1. /\ meta' = Cutovers(meta, chain) /\ UNCHANGED <<chain, ledger, acked, handler, lock>>
    BY <1>12 DEF Start
  <2>2. meta' \in [actor : 0..Len(chain), onBehalfOf : 0..Len(chain)] /\ Len(chain) \in Nat
    BY <1>0, <2>1 DEF Inv, CutoversSet, TypeOK
  <2>3. Cutovers(meta', chain') = meta'
    <3>1. meta'.actor # Null /\ meta'.onBehalfOf # Null BY <2>2 DEF Null
    <3>2. meta' # NoMeta BY <3>1 DEF NoMeta
    <3>3. ActorCutover(meta', chain') = meta' BY <3>2 DEF ActorCutover
    <3> QED BY <3>1, <3>3 DEF Cutovers, OnBehalfOfCutover
  <2>4. CutoversSet' BY <2>1, <2>2, <2>3 DEF CutoversSet
  <2>5. Chained' BY <2>1, <2>3 DEF Inv, Chained
  <2> QED BY <1>0, <2>1, <2>4, <2>5 DEF Inv, LockHeld, HeadRead, AfterCommit, AckedIsRecorded, LedgerEntries
<1>13. CASE Stop
  <2>1. CutoversSet' /\ Chained' /\ AckedIsRecorded'
    BY <1>13, StoredUnchanged DEF LedgerEntries, Stop
  <2>2. \A s \in Subjects : handler'[s].pc = "idle" BY <1>13, <1>a DEF Stop
  <2> QED BY <1>0, <2>1, <2>2 DEF Inv, LockHeld, HeadRead, AfterCommit
<1>14. CASE UNCHANGED vars BY <1>1, <1>14 DEF vars
<1>15. ASSUME NEW s \in Subjects, AddStream(s) \/ Subscribe(s) PROVE Inv'
  BY <1>1, <1>15 DEF AddStream, Subscribe
<1>16. ASSUME NEW e \in Events, Publish(e) PROVE Inv'
  BY <1>1, <1>16 DEF Publish
<1> QED BY <1>2, <1>3, <1>4, <1>5, <1>6, <1>7, <1>9, <1>10, <1>11, <1>12, <1>13, <1>14, <1>15,
        <1>16 DEF Next, Step

LEMMA InvIsInvariant == ASSUME ~DirectUpgrade PROVE Spec => []Inv
<1>1. Init => Inv BY InitInv
<1>2. Inv /\ [Next]_vars => Inv' BY NextInv
<1> QED BY <1>1, <1>2, PTL DEF Spec

(* Whatever handlers, redeliveries and crashes do, verify_chain succeeds   *)
(* on every installation that was upgraded release by release.             *)
THEOREM ChainAlwaysVerifies == ASSUME ~DirectUpgrade PROVE Spec => []ChainVerifies
<1>1. Inv => ChainVerifies BY DEF Inv, CutoversSet, Chained, ChainVerifies
<1> QED BY <1>1, InvIsInvariant, PTL

(* What JetStream will not deliver again is in the chain and, a forced     *)
(* deletion, in the register.                                              *)
THEOREM NothingAcknowledgedIsMissing == ASSUME ~DirectUpgrade PROVE Spec => []AckedIsRecorded
<1>1. Inv => AckedIsRecorded BY DEF Inv
<1> QED BY <1>1, InvIsInvariant, PTL

(***************************************************************************)
(* The refinement: Commit is Record, AppendLedger is Enter or a stutter,   *)
(* and every other step is a stutter.                                      *)
(***************************************************************************)
log == [i \in DOMAIN chain |-> chain[i].event]

LEMMA InitLog == ASSUME Init PROVE Log!Init
<1> USE AuditAssumption
<1>1. PICK bare \in 0..Len(Legacy) : chain = LegacyChain(bare) BY DEF Init
<1>2. /\ DOMAIN chain = 1..Len(Legacy) /\ DOMAIN Legacy = 1..Len(Legacy)
      /\ Len(Legacy) \in Nat
      /\ \A i \in 1..Len(Legacy) : chain[i].event = Legacy[i]
  BY <1>1, LegacyRows DEF LegacyChain
<1>3. log \in [1..Len(Legacy) -> Events] BY <1>2 DEF log
<1>4. log \in Seq(Events) BY <1>2, <1>3, FunctionIsSeq
<1>5. \A i, j \in DOMAIN log : log[i] = log[j] => i = j BY <1>2 DEF log
<1>6. LedgerEntries = {} BY DEF Init, LedgerEntries
<1> QED BY <1>4, <1>5, <1>6 DEF Log!Init, log

LEMMA CommitRecords ==
    ASSUME Inv, NEW s \in Subjects, Commit(s)
    PROVE  Log!Next
<1> DEFINE e == handler[s].event
           row == RowOf(e, HeadHash(chain), Fields(e, TRUE, TRUE))
<1>1. /\ At(s, "commit") /\ e \in Events /\ e \notin Recorded(chain)
      /\ handler[s].prev = HeadHash(chain) /\ chain \in Seq(Rows)
  BY DEF Inv, HeadRead, TypeOK, Commit
<1>2. chain' = Append(chain, row) /\ UNCHANGED ledger BY <1>1 DEF Commit
<1>3. row \in Rows /\ row.event = e
  <2>1. HeadHash(chain) \in Hashes BY <1>1, HeadHashType
  <2> QED BY <1>1, <2>1, NewRowType
<1> HIDE DEF row, e
<1>4. /\ Len(chain) \in Nat /\ DOMAIN chain = 1..Len(chain)
      /\ DOMAIN chain' = 1..(Len(chain) + 1)
      /\ \A i \in 1..Len(chain) : chain'[i] = chain[i]
      /\ chain'[Len(chain) + 1] = row
  BY <1>1, <1>2, <1>3
<1>5. log \in [1..Len(chain) -> Events] /\ \A i \in 1..Len(chain) : log[i] = chain[i].event
  <2>1. ASSUME NEW i \in 1..Len(chain) PROVE chain[i].event \in Events
    <3>1. chain[i] \in Rows BY <1>1
    <3> QED BY <3>1 DEF Rows
  <2> QED BY <1>4, <2>1 DEF log
<1>6. log \in Seq(Events) /\ Len(log) = Len(chain) BY <1>4, <1>5, FunctionIsSeq
<1>7. log' = Append(log, e)
  <2>1. log' = [i \in 1..(Len(chain) + 1) |-> chain'[i].event] BY <1>4 DEF log
  <2>2. Append(log, e) = [i \in 1..(Len(chain) + 1) |-> IF i = Len(chain) + 1 THEN e ELSE log[i]]
    BY <1>1, <1>6, AppendAsFunction DEF e
  <2>3. \A i \in 1..(Len(chain) + 1) :
          chain'[i].event = IF i = Len(chain) + 1 THEN e ELSE log[i]
    BY <1>3, <1>4, <1>5
  <2> QED BY <2>1, <2>2, <2>3
<1>8. Log!Logged = Recorded(chain) BY <1>4, <1>5 DEF Log!Logged, Recorded, log
<1>9. e \notin Log!Logged BY <1>1, <1>8 DEF e
<1>10. UNCHANGED LedgerEntries BY <1>2 DEF LedgerEntries
<1>11. e \in Events BY <1>1 DEF e
<1> QED BY <1>7, <1>9, <1>10, <1>11 DEF Log!Next, Log!Record, log

LEMMA AppendLedgerEnters ==
    ASSUME Inv, NEW s \in Subjects, AppendLedger(s)
    PROVE  \/ Log!Enter(handler[s].event)
           \/ UNCHANGED <<log, LedgerEntries>>
<1>1. CASE handler[s].event \in Forced
  <2>1. /\ ledger' = Append(ledger, handler[s].event) /\ UNCHANGED chain
        /\ ledger \in Seq(Forced)
    BY <1>1 DEF AppendLedger, Inv, TypeOK
  <2>2. /\ DOMAIN ledger = 1..Len(ledger) /\ DOMAIN ledger' = 1..(Len(ledger) + 1)
        /\ \A i \in 1..Len(ledger) : ledger'[i] = ledger[i]
        /\ ledger'[Len(ledger) + 1] = handler[s].event
        /\ Len(ledger) \in Nat
    BY <1>1, <2>1
  <2>3. LedgerEntries' = LedgerEntries \cup {handler[s].event}
    <3>1. \A x \in LedgerEntries' : x \in LedgerEntries \cup {handler[s].event}
      BY <2>2 DEF LedgerEntries
    <3>2. \A x \in LedgerEntries : x \in LedgerEntries' BY <2>2 DEF LedgerEntries
    <3>3. handler[s].event \in LedgerEntries' BY <2>2 DEF LedgerEntries
    <3> QED BY <3>1, <3>2, <3>3
  <2>4. handler[s].event \in Recorded(chain) BY DEF Inv, AfterCommit, AppendLedger
  <2>5. Log!Logged = Recorded(chain) BY DEF Log!Logged, Recorded
  <2>6. UNCHANGED log BY <2>1 DEF log
  <2> QED BY <1>1, <2>3, <2>4, <2>5, <2>6 DEF Log!Enter, log
<1>2. CASE handler[s].event \notin Forced
  BY <1>2 DEF AppendLedger, LedgerEntries, log
<1> QED BY <1>1, <1>2

LEMMA NextLog ==
    ASSUME Inv, [Next]_vars
    PROVE  [Log!Next]_<<log, LedgerEntries>>
<1> USE AuditAssumption
<1>1. ASSUME UNCHANGED <<chain, ledger>> PROVE UNCHANGED <<log, LedgerEntries>>
  BY <1>1 DEF log, LedgerEntries
<1>2. ASSUME NEW s \in Subjects, Commit(s) PROVE Log!Next
  BY <1>2, CommitRecords
<1>3. ASSUME NEW s \in Subjects, AppendLedger(s) PROVE [Log!Next]_<<log, LedgerEntries>>
  <2>1. handler[s].event \in Events BY <1>3 DEF Inv, TypeOK, AppendLedger
  <2> QED BY <1>3, <2>1, AppendLedgerEnters DEF Log!Next
<1>4. ASSUME NEW s \in Subjects,
             \/ AddStream(s) \/ Subscribe(s) \/ AckLost(s) \/ Fail(s)
             \/ Acquire(s) \/ FindRecorded(s) \/ FindHead(s) \/ Ack(s)
      PROVE  UNCHANGED <<log, LedgerEntries>>
  BY <1>1, <1>4 DEF AddStream, Subscribe, AckLost, Fail, Acquire, FindRecorded, FindHead, Ack
<1>5. ASSUME NEW e \in Events, Publish(e) \/ \E s \in Subjects : Deliver(s, e)
      PROVE  UNCHANGED <<log, LedgerEntries>>
  BY <1>1, <1>5 DEF Publish, Deliver
<1>6. CASE Start \/ Stop \/ UNCHANGED vars BY <1>1, <1>6 DEF Start, Stop, vars
<1> QED BY <1>2, <1>3, <1>4, <1>5, <1>6 DEF Next, Step

(* The chain with its ledger implements the abstract log: every event is   *)
(* appended at most once, nothing leaves, and no forced deletion enters    *)
(* the register before the log (append_event, append_if_force_deletion).   *)
THEOREM ImplementsAbstractLog == ASSUME ~DirectUpgrade PROVE Spec => ImplementsLog
<1>1. Init => Log!Init BY InitLog
<1>2. Inv /\ [Next]_vars => [Log!Next]_<<log, LedgerEntries>> BY NextLog
<1> QED BY <1>1, <1>2, InvIsInvariant, PTL DEF Spec, ImplementsLog, Log!Spec, log
=============================================================================
