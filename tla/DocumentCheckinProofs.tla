----------------------- MODULE DocumentCheckinProofs -----------------------
(***************************************************************************)
(* Theorems about DocumentCheckin, for any number of users and versions:   *)
(* when check-ins do not overlap, no main version is displaced unseen and  *)
(* every row can be fetched, whatever becomes of the editing lock and of   *)
(* the responses.                                                          *)
(***************************************************************************)
EXTENDS DocumentCheckin, TLAPS

(* Row b is the last of the rows before row n that is no conflict copy.    *)
LastMain(n, b) ==
    /\ b \in 1..(n - 1) /\ ~versions[b].conflict
    /\ \A k \in (b + 1)..(n - 1) : versions[k].conflict

(* The rows are numbered in their order, and each knows its predecessor.   *)
InOrder ==
    /\ Len(versions) >= 1 /\ versions[1] = Row(1, 0, FALSE, "creator")
    /\ \A i \in 1..Len(versions) : versions[i].number = i
    /\ LastMain(Len(versions) + 1, current)
    /\ \A i \in 2..Len(versions) : ~versions[i].conflict => LastMain(i, versions[i].base)

Stored ==
    \A i \in 2..Len(versions) : <<versions[i].by, versions[i].base>> \in objects

Alone == \A u, v \in Users : CheckingIn(u) /\ CheckingIn(v) => u = v

(* What a check-in under way knows is what the next row must say.          *)
Prepared ==
    \A u \in Users :
        /\ request[u].pc \in {"upload", "check"} => request[u].seen = current
        /\ request[u].pc \in {"upload", "check", "commit"} => Len(versions) < MaxVersions
        /\ request[u].pc = "commit" =>
            /\ request[u].row.number = Len(versions) + 1
            /\ request[u].row.by = u
            /\ <<u, request[u].row.base>> \in objects
            /\ ~request[u].row.conflict => request[u].row.base = current

IInv == TypeOK /\ InOrder /\ Stored /\ Alone /\ Prepared

(***************************************************************************)
(* Operators.                                                              *)
(***************************************************************************)
LEMMA MaxIs ==
    ASSUME NEW S, NEW m \in S, S \subseteq Nat, \A x \in S : m >= x
    PROVE  Max(S) = m
<1>1. \E x \in S : \A y \in S : x >= y OBVIOUS
<1>2. Max(S) \in S /\ \A y \in S : Max(S) >= y BY <1>1, Zenon DEF Max
<1>3. Max(S) \in Nat /\ m \in Nat /\ Max(S) >= m /\ m >= Max(S) BY <1>2
<1> QED BY <1>3

(* The number after the greatest one is that of the next row.              *)
LEMMA NextNumberIs ==
    ASSUME versions \in Seq(Rows), InOrder
    PROVE  NextNumber = Len(versions) + 1
<1> DEFINE S == {versions[i].number : i \in DOMAIN versions}
<1>1. DOMAIN versions = 1..Len(versions) /\ Len(versions) \in Nat OBVIOUS
<1>2. Len(versions) \in 1..Len(versions) BY <1>1 DEF InOrder
<1>3. S = 1..Len(versions) BY <1>1 DEF InOrder
<1> HIDE DEF S
<1>4. Len(versions) \in S /\ S \subseteq Nat /\ \A x \in S : Len(versions) >= x
  BY <1>1, <1>2, <1>3
<1>5. Max(S) = Len(versions) BY <1>4, MaxIs
<1> QED BY <1>5 DEF NextNumber, S

(* The last main version is what NoLostUpdate compares a base with.        *)
LEMMA LastMainIsMax ==
    ASSUME versions \in Seq(Rows), InOrder, NEW n \in 2..Len(versions), NEW b \in Nat,
           LastMain(n, b)
    PROVE  b = Max({0} \cup
                {versions[j].number : j \in {k \in 1..(n - 1) : ~versions[k].conflict}})
<1> DEFINE S == {0} \cup
        {versions[j].number : j \in {k \in 1..(n - 1) : ~versions[k].conflict}}
<1>1. Len(versions) \in Nat OBVIOUS
<1>2. \A j \in 1..(n - 1) : versions[j].number = j BY <1>1 DEF InOrder
<1>3. S = {0} \cup {k \in 1..(n - 1) : ~versions[k].conflict} BY <1>2
<1>4. b \in S BY <1>3 DEF LastMain
<1> HIDE DEF S
<1>5. S \subseteq Nat BY <1>3
<1>6. \A x \in S : b >= x
  <2> TAKE x \in S
  <2>1. CASE x = 0 BY <2>1
  <2>2. CASE x \in 1..(n - 1) /\ ~versions[x].conflict
    <3>1. x \notin (b + 1)..(n - 1) BY <2>2 DEF LastMain
    <3> QED BY <1>1, <2>2, <3>1
  <2> QED BY <1>3, <2>1, <2>2
<1>7. Max(S) = b BY <1>4, <1>5, <1>6, MaxIs
<1> QED BY <1>7 DEF S

(***************************************************************************)
(* The inductive invariant.                                                *)
(***************************************************************************)
LEMMA Initially == ASSUME Init PROVE IInv
<1>1. Row(1, 0, FALSE, "creator") \in Rows BY DEF Row, Rows
<1>2. TypeOK
  <2>0. \A x \in Rows : <<x>> \in Seq(Rows) OBVIOUS
  <2>1. current \in Nat /\ versions \in Seq(Rows) /\ faults \in 0..MaxFaults
    <3>1. versions \in Seq(Rows) BY <1>1, <2>0 DEF Init
    <3>2. current \in Nat /\ faults \in 0..MaxFaults BY CheckinAssumption DEF Init
    <3> QED BY <3>1, <3>2
  <2>2. request \in [Users -> Requests] /\ base \in [Users -> Nat] BY DEF Init, Requests
  <2>3. \A u \in Users : request[u].pc = "idle" BY DEF Init, Idle
  <2> QED BY <2>1, <2>2, <2>3 DEF Init, TypeOK
<1>3. InOrder /\ Stored BY DEF Init, InOrder, Stored, LastMain, Row
<1>4. Alone /\ Prepared BY DEF Init, Alone, Prepared, CheckingIn, Idle
<1> QED BY <1>2, <1>3, <1>4 DEF IInv

(* A request has the fields of what it waits for.                          *)
LEMMA RequestTypes ==
    ASSUME TypeOK, NEW u \in Users
    PROVE  /\ request[u].pc = "acquire" => request[u].found \in BOOLEAN
           /\ request[u].pc = "release" => request[u].forced \in BOOLEAN
           /\ request[u].pc \in {"upload", "check"} =>
                 /\ request[u] = [pc |-> request[u].pc, base |-> request[u].base,
                                  seen |-> request[u].seen]
                 /\ request[u].base \in Nat /\ request[u].seen \in Nat
           /\ request[u].pc = "commit" =>
                 request[u].row \in Rows /\ request[u].unlock \in BOOLEAN
           /\ request[u].pc = "respond" =>
                 request[u].row \in Rows /\ request[u].unlocked \in BOOLEAN
BY DEF TypeOK, Requests, Idle

(* The requests an action can leave behind.                                *)
LEMMA NewRequests ==
    /\ Idle \in Requests
    /\ \A b \in BOOLEAN :
          [pc |-> "acquire", found |-> b] \in Requests /\ [pc |-> "release", forced |-> b] \in Requests
    /\ \A p \in {"upload", "check"} : \A b, n \in Nat :
          [pc |-> p, base |-> b, seen |-> n] \in Requests
    /\ \A r \in Rows : \A b \in BOOLEAN :
          [pc |-> "commit", row |-> r, unlock |-> b] \in Requests
    /\ \A r \in Rows : \A b \in BOOLEAN :
          [pc |-> "respond", row |-> r, unlocked |-> b] \in Requests
BY DEF Requests

(* An action of u's leaves the requests of the others alone.               *)
LEMMA OneRequest ==
    ASSUME NEW u \in Users, NEW x \in Requests, request \in [Users -> Requests],
           request' = [request EXCEPT ![u] = x]
    PROVE  /\ request' \in [Users -> Requests]
           /\ request'[u] = x
           /\ \A v \in Users \ {u} : request'[v] = request[v]
OBVIOUS

LEMMA LockActions ==
    ASSUME TypeOK, NEW u \in Users,
           \/ Download(u) \/ AcquireRead(u) \/ AcquireWrite(u)
           \/ ReleaseRead(u) \/ ForceReleaseRead(u) \/ ReleaseWrite(u)
    PROVE  /\ TypeOK'
           /\ UNCHANGED <<current, versions, objects>>
           /\ \A v \in Users \ {u} : request'[v] = request[v]
           /\ request'[u] = request[u] \/ request'[u].pc \in {"idle", "acquire", "release"}
<1> USE DEF TypeOK
<1>1. CASE Download(u)
  BY <1>1 DEF Download
<1>2. CASE AcquireRead(u)
  <2>1. request'[u] = [pc |-> "acquire", found |-> lock # None]
        /\ request' \in [Users -> Requests] /\ \A v \in Users \ {u} : request'[v] = request[v]
    BY <1>2, NewRequests, OneRequest DEF AcquireRead
  <2> QED BY <1>2, <2>1 DEF AcquireRead, client
<1>3. CASE AcquireWrite(u)
  <2>1. request'[u] = Idle
        /\ request' \in [Users -> Requests] /\ \A v \in Users \ {u} : request'[v] = request[v]
    BY <1>3, NewRequests, OneRequest DEF AcquireWrite, Ends
  <2>2. lock' \in {None} \cup [by : Users, active : BOOLEAN] /\ holding' \subseteq Users
    <3>1. \/ lock' = [by |-> u, active |-> TRUE] /\ holding' = holding \cup {u}
          \/ lock' = lock /\ holding' = holding
      BY <1>3, Zenon DEF AcquireWrite
    <3>2. [by |-> u, active |-> TRUE] \in [by : Users, active : BOOLEAN] OBVIOUS
    <3> QED BY <3>1, <3>2
  <2>3. UNCHANGED <<current, versions, base, objects, faults>> BY <1>3 DEF AcquireWrite
  <2> QED BY <2>1, <2>2, <2>3 DEF Idle
<1>4. CASE ReleaseRead(u)
  <2>1. request'[u] = [pc |-> "release", forced |-> FALSE]
        /\ request' \in [Users -> Requests] /\ \A v \in Users \ {u} : request'[v] = request[v]
    BY <1>4, NewRequests, OneRequest DEF ReleaseRead
  <2> QED BY <1>4, <2>1 DEF ReleaseRead, client
<1>5. CASE ForceReleaseRead(u)
  <2>1. request'[u] = [pc |-> "release", forced |-> TRUE]
        /\ request' \in [Users -> Requests] /\ \A v \in Users \ {u} : request'[v] = request[v]
    BY <1>5, NewRequests, OneRequest DEF ForceReleaseRead
  <2> QED BY <1>5, <2>1 DEF ForceReleaseRead, client
<1>6. CASE ReleaseWrite(u)
  <2>1. request'[u] = Idle
        /\ request' \in [Users -> Requests] /\ \A v \in Users \ {u} : request'[v] = request[v]
    BY <1>6, NewRequests, OneRequest DEF ReleaseWrite, Ends
  <2> QED BY <1>6, <2>1 DEF ReleaseWrite, Idle
<1> QED BY <1>1, <1>2, <1>3, <1>4, <1>5, <1>6
(* What ends a request, and what only the client learns.                   *)
LEMMA EndingActions ==
    ASSUME TypeOK, NEW u \in Users,
           UploadRefused(u) \/ CheckRefused(u) \/ Respond(u) \/ ResponseLost(u)
    PROVE  /\ TypeOK'
           /\ UNCHANGED <<current, versions, objects>>
           /\ \A v \in Users \ {u} : request'[v] = request[v]
           /\ request'[u] = Idle
<1> USE DEF TypeOK
<1>0. Ends(u) BY DEF UploadRefused, CheckRefused, Respond, ResponseLost
<1>1. request'[u] = Idle
      /\ request' \in [Users -> Requests] /\ \A v \in Users \ {u} : request'[v] = request[v]
  BY <1>0, NewRequests, OneRequest DEF Ends
<1>2. UNCHANGED <<current, versions, lock, objects>>
  BY DEF UploadRefused, CheckRefused, Respond, ResponseLost, client
<1>3. faults' \in 0..MaxFaults
  BY CheckinAssumption DEF UploadRefused, CheckRefused, Respond, ResponseLost, Fault
<1>4. base' \in [Users -> Nat] /\ holding' \subseteq Users
  <2>1. CASE UploadRefused(u) \/ CheckRefused(u) BY <2>1 DEF UploadRefused, CheckRefused, client
  <2>2. CASE Respond(u)
    <3>1. request[u].row.number \in Nat BY <2>2, RequestTypes DEF Respond, Rows
    <3> QED BY <2>2, <3>1 DEF Respond
  <2>3. CASE ResponseLost(u) BY <2>3 DEF ResponseLost
  <2> QED BY <2>1, <2>2, <2>3
<1>5. \A v \in Users : request'[v].pc = "check" => <<v, request'[v].base>> \in objects'
  BY <1>1, <1>2 DEF Idle
<1> QED BY <1>1, <1>2, <1>3, <1>4, <1>5

LEMMA Expiry ==
    ASSUME TypeOK, LockExpires
    PROVE  TypeOK' /\ UNCHANGED <<current, versions, request, objects>>
<1>1. lock' \in {None} \cup [by : Users, active : BOOLEAN]
  <2>1. lock \in [by : Users, active : BOOLEAN] BY DEF TypeOK, LockExpires
  <2> QED BY <2>1 DEF LockExpires
<1>2. holding' \subseteq Users /\ UNCHANGED <<current, versions, request, base, objects, faults>>
  BY DEF LockExpires, TypeOK
<1> QED BY <1>1, <1>2 DEF TypeOK

(* None of them touches the invariant.                                     *)
LEMMA Quiet ==
    ASSUME IInv, TypeOK', UNCHANGED <<current, versions, objects>>,
           \A v \in Users : \/ request'[v] = request[v]
                            \/ request'[v].pc \in {"idle", "acquire", "release"}
    PROVE  IInv'
<1>1. InOrder' /\ Stored' BY DEF IInv, InOrder, Stored, LastMain
<1>2. Alone' BY DEF IInv, Alone, CheckingIn
<1>3. Prepared' BY DEF IInv, Prepared
<1> QED BY <1>1, <1>2, <1>3 DEF IInv

(***************************************************************************)
(* The check-in, step by step.                                             *)
(***************************************************************************)
LEMMA BeginKeeps ==
    ASSUME IInv, ~Overlapping, NEW u \in Users, CheckinRead(u)
    PROVE  IInv'
<1> DEFINE x == [pc |-> "upload", base |-> base[u], seen |-> current]
<1>1. x \in Requests BY NewRequests DEF IInv, TypeOK
<1>2. request' \in [Users -> Requests] /\ request'[u] = x
      /\ \A v \in Users \ {u} : request'[v] = request[v]
  BY <1>1, OneRequest DEF CheckinRead, IInv, TypeOK
<1>3. (\A v \in Users : ~CheckingIn(v)) /\ Len(versions) < MaxVersions BY DEF CheckinRead
<1>4. UNCHANGED <<current, versions, lock, client, objects, faults>> BY DEF CheckinRead
<1>5. TypeOK'
  <2>1. \A v \in Users : request'[v].pc = "check" => <<v, request'[v].base>> \in objects'
    BY <1>2, <1>4 DEF IInv, TypeOK
  <2> QED BY <1>2, <1>4, <2>1 DEF IInv, TypeOK, client
<1>6. InOrder' /\ Stored' BY <1>4 DEF IInv, InOrder, Stored, LastMain
<1>7. Alone' /\ Prepared'
  <2>1. \A v \in Users : v # u => ~CheckingIn(v)' BY <1>2, <1>3 DEF CheckingIn
  <2>2. \A v \in Users \ {u} : request'[v].pc \notin {"upload", "check", "commit"}
    BY <1>2, <2>1 DEF CheckingIn
  <2>3. request'[u].pc = "upload" /\ request'[u].seen = current' /\ Len(versions') < MaxVersions
    BY <1>2, <1>3, <1>4
  <2>4. Prepared' BY <2>2, <2>3 DEF Prepared
  <2> QED BY <2>1, <2>4 DEF Alone
<1> QED BY <1>5, <1>6, <1>7 DEF IInv

LEMMA UploadKeeps ==
    ASSUME IInv, NEW u \in Users, Upload(u)
    PROVE  IInv'
<1> DEFINE x == [pc |-> "check", base |-> request[u].base, seen |-> request[u].seen]
<1>0. TypeOK /\ request[u].pc = "upload" BY DEF IInv, Upload
<1>1. request[u].base \in Nat /\ request[u].seen \in Nat
      /\ request[u] = [pc |-> request[u].pc, base |-> request[u].base, seen |-> request[u].seen]
  BY <1>0, RequestTypes
<1>2. x \in Requests BY <1>1, NewRequests
<1>3. [request[u] EXCEPT !.pc = "check"] = x BY <1>1
<1>4. request' = [request EXCEPT ![u] = x] BY <1>3 DEF Upload
<1>5. request' \in [Users -> Requests] /\ request'[u] = x
      /\ \A v \in Users \ {u} : request'[v] = request[v]
  BY <1>0, <1>2, <1>4, OneRequest DEF TypeOK
<1>6. objects' = objects \cup {<<u, request[u].base>>}
      /\ UNCHANGED <<current, versions, lock, client, faults>> BY DEF Upload
<1>7. TypeOK'
  <2>1. \A v \in Users : request'[v].pc = "check" => <<v, request'[v].base>> \in objects'
    BY <1>0, <1>5, <1>6 DEF TypeOK
  <2>2. objects' \subseteq Users \X Nat BY <1>0, <1>1, <1>6 DEF TypeOK
  <2> QED BY <1>0, <1>5, <1>6, <2>1, <2>2 DEF TypeOK, client
<1>8. InOrder' /\ Stored' BY <1>6 DEF IInv, InOrder, Stored, LastMain
<1>9. Alone' BY <1>0, <1>5 DEF IInv, Alone, CheckingIn
<1>10. Prepared'
  <2>1. request[u].seen = current /\ Len(versions) < MaxVersions BY <1>0 DEF IInv, Prepared
  <2>2. request'[u].pc = "check" /\ request'[u].seen = current' BY <1>5, <1>6, <2>1
  <2>3. objects \subseteq objects' /\ Len(versions') < MaxVersions BY <1>6, <2>1
  <2> QED BY <1>5, <1>6, <2>2, <2>3 DEF IInv, Prepared
<1> QED BY <1>7, <1>8, <1>9, <1>10 DEF IInv

LEMMA CheckKeeps ==
    ASSUME IInv, NEW u \in Users, Check(u)
    PROVE  IInv'
<1> DEFINE row == Row(NextNumber, request[u].base, request[u].base # request[u].seen, u)
           x == [pc |-> "commit", row |-> row, unlock |-> lock # None /\ lock.by = u]
<1>0. TypeOK /\ InOrder /\ request[u].pc = "check" BY DEF IInv, Check
<1>1. request[u].base \in Nat /\ request[u].seen = current
      /\ <<u, request[u].base>> \in objects
  BY <1>0, RequestTypes DEF IInv, Prepared, TypeOK
<1>2. NextNumber = Len(versions) + 1 /\ Len(versions) \in Nat
  BY <1>0, NextNumberIs DEF TypeOK
<1>3. row \in Rows BY <1>1, <1>2 DEF Row, Rows
<1>4. row.number = Len(versions) + 1 /\ row.by = u /\ row.base = request[u].base
      /\ (~row.conflict => row.base = current)
  BY <1>1, <1>2 DEF Row
<1> HIDE DEF row
<1>5. x \in Requests BY <1>3, NewRequests
<1>6. request' = [request EXCEPT ![u] = x] BY DEF Check, Prepare, row
<1>7. request' \in [Users -> Requests] /\ request'[u] = x
      /\ \A v \in Users \ {u} : request'[v] = request[v]
  BY <1>0, <1>5, <1>6, OneRequest DEF TypeOK
<1>8. UNCHANGED <<current, versions, lock, client, objects, faults>> BY DEF Check
<1>9. TypeOK'
  <2>1. \A v \in Users : request'[v].pc = "check" => <<v, request'[v].base>> \in objects'
    BY <1>0, <1>7, <1>8 DEF TypeOK
  <2> QED BY <1>0, <1>7, <1>8, <2>1 DEF TypeOK, client
<1>10. InOrder' /\ Stored' BY <1>8 DEF IInv, InOrder, Stored, LastMain
<1>11. Alone' BY <1>0, <1>7 DEF IInv, Alone, CheckingIn
<1>12. Prepared'
  <2>1. Len(versions') < MaxVersions BY <1>0, <1>8 DEF IInv, Prepared
  <2> QED BY <1>1, <1>4, <1>7, <1>8, <2>1 DEF IInv, Prepared
<1> QED BY <1>9, <1>10, <1>11, <1>12 DEF IInv

LEMMA CommitKeeps ==
    ASSUME IInv, NEW u \in Users, Commit(u)
    PROVE  IInv'
<1> DEFINE row == request[u].row
           n == Len(versions) + 1
           x == [pc |-> "respond", row |-> row, unlocked |-> request[u].unlock]
<1>0. TypeOK /\ InOrder /\ request[u].pc = "commit" BY DEF IInv, Commit
<1>1. row \in Rows /\ request[u].unlock \in BOOLEAN BY <1>0, RequestTypes
<1>2. row.number = n /\ row.by = u /\ <<u, row.base>> \in objects
      /\ (~row.conflict => row.base = current)
  BY <1>0 DEF IInv, Prepared
<1>3. /\ versions' = Append(versions, row)
      /\ current' = IF row.conflict THEN current ELSE row.number
      /\ lock' = IF request[u].unlock THEN None ELSE lock
      /\ request' = [request EXCEPT ![u] = x]
      /\ UNCHANGED <<client, objects, faults>>
  BY DEF Commit
<1>4. x \in Requests BY <1>1, NewRequests
<1>5. request' \in [Users -> Requests] /\ request'[u] = x
      /\ \A v \in Users \ {u} : request'[v] = request[v]
  BY <1>0, <1>3, <1>4, OneRequest DEF TypeOK
<1>6. versions' \in Seq(Rows) /\ Len(versions') = n /\ n \in Nat /\ versions'[n] = row
      /\ \A i \in 1..(n - 1) : versions'[i] = versions[i]
  BY <1>0, <1>1, <1>3 DEF TypeOK
<1>7. row.number \in Nat /\ row.conflict \in BOOLEAN BY <1>1 DEF Rows
<1>8. current \in 1..(n - 1) /\ ~versions[current].conflict
      /\ (\A k \in (current + 1)..(n - 1) : versions[k].conflict)
  BY <1>0, <1>6 DEF InOrder, LastMain
<1> HIDE DEF row, n
<1>9. TypeOK'
  <2>1. \A v \in Users : request'[v].pc = "check" => <<v, request'[v].base>> \in objects'
    BY <1>0, <1>3, <1>5 DEF TypeOK
  <2>2. current' \in Nat BY <1>0, <1>3, <1>7 DEF TypeOK
  <2>3. lock' \in {None} \cup [by : Users, active : BOOLEAN]
    BY <1>0, <1>1, <1>3 DEF TypeOK
  <2> QED BY <1>0, <1>3, <1>5, <1>6, <2>1, <2>2, <2>3 DEF TypeOK, client
<1>10. InOrder'
  <2>1. Len(versions') >= 1 /\ versions'[1] = Row(1, 0, FALSE, "creator")
    <3>1. 1 \in 1..(n - 1) BY <1>6, <1>8
    <3>2. versions'[1] = versions[1] BY <1>6, <3>1
    <3> QED BY <1>0, <1>6, <1>8, <3>2 DEF InOrder
  <2>2. \A i \in 1..Len(versions') : versions'[i].number = i
    BY <1>0, <1>2, <1>6 DEF InOrder, n
  <2>3. LastMain(Len(versions) + 1, current)'
    <3>1. CASE row.conflict
      BY <1>3, <1>6, <1>8, <3>1 DEF LastMain
    <3>2. CASE ~row.conflict
      BY <1>2, <1>3, <1>6, <3>2 DEF LastMain
    <3> QED BY <3>1, <3>2
  <2>4. ASSUME NEW i \in 2..Len(versions'), ~versions'[i].conflict
        PROVE  LastMain(i, versions[i].base)'
    <3>1. CASE i = n
      BY <1>2, <1>6, <1>8, <2>4, <3>1 DEF LastMain
    <3>2. CASE i # n
      <4>1. i \in 2..Len(versions) /\ versions'[i] = versions[i] BY <1>6, <3>2 DEF n
      <4>2. LastMain(i, versions[i].base) BY <1>0, <2>4, <4>1 DEF InOrder
      <4>3. \A k \in 1..(i - 1) : versions'[k] = versions[k] BY <1>6, <4>1 DEF n
      <4>4. versions[i].base \in Nat
        <5>1. versions[i] \in Rows BY <1>0, <4>1 DEF TypeOK
        <5> QED BY <5>1 DEF Rows
      <4> QED BY <1>6, <4>1, <4>2, <4>3, <4>4 DEF LastMain
    <3> QED BY <3>1, <3>2
  <2> QED BY <2>1, <2>2, <2>3, <2>4 DEF InOrder
<1>11. Stored'
  <2> SUFFICES ASSUME NEW i \in 2..Len(versions')
               PROVE  <<versions'[i].by, versions'[i].base>> \in objects
    BY <1>3 DEF Stored
  <2>1. CASE i = n BY <1>2, <1>6, <2>1
  <2>2. CASE i # n
    <3>1. i \in 2..Len(versions) /\ versions'[i] = versions[i] BY <1>6, <2>2 DEF n
    <3> QED BY <3>1 DEF IInv, Stored
  <2> QED BY <2>1, <2>2
<1>12. Alone' BY <1>0, <1>5 DEF IInv, Alone, CheckingIn
<1>13. Prepared'
  <2>1. CheckingIn(u) BY <1>0 DEF CheckingIn
  <2>2. \A v \in Users \ {u} : ~CheckingIn(v) BY <2>1 DEF IInv, Alone
  <2> QED BY <1>5, <2>2 DEF Prepared, CheckingIn
<1> QED BY <1>9, <1>10, <1>11, <1>12, <1>13 DEF IInv

LEMMA EveryStepKeeps ==
    ASSUME IInv, ~Overlapping, [Next]_vars
    PROVE  IInv'
<1>0. TypeOK BY DEF IInv
<1>1. CASE UNCHANGED vars
  <2>1. TypeOK' BY <1>0, <1>1 DEF vars, client, TypeOK
  <2> QED BY <1>1, <2>1, Quiet DEF vars
<1>2. CASE LockExpires BY <1>0, <1>2, Expiry, Quiet
<1>3. ASSUME NEW u \in Users,
             \/ Download(u) \/ AcquireRead(u) \/ AcquireWrite(u)
             \/ ReleaseRead(u) \/ ForceReleaseRead(u) \/ ReleaseWrite(u)
      PROVE  IInv'
  BY <1>0, <1>3, LockActions, Quiet
<1>4. ASSUME NEW u \in Users,
             UploadRefused(u) \/ CheckRefused(u) \/ Respond(u) \/ ResponseLost(u)
      PROVE  IInv'
  <2>1. request'[u].pc = "idle" BY <1>0, <1>4, EndingActions DEF Idle
  <2> QED BY <1>0, <1>4, <2>1, EndingActions, Quiet
<1>5. ASSUME NEW u \in Users, CheckinRead(u) \/ Upload(u) \/ Check(u) \/ Commit(u)
      PROVE  IInv'
  BY <1>5, BeginKeeps, UploadKeeps, CheckKeeps, CommitKeeps
<1> QED BY <1>1, <1>2, <1>3, <1>4, <1>5 DEF Next

LEMMA Invariance == ASSUME ~Overlapping PROVE Spec => []IInv
<1>1. Init => IInv BY Initially
<1>2. IInv /\ [Next]_vars => IInv' BY EveryStepKeeps
<1> QED BY <1>1, <1>2, PTL DEF Spec

(***************************************************************************)
(* The theorems.                                                           *)
(***************************************************************************)
(* Rows, lock and requests of document-service are well typed, and a       *)
(* check-in that goes on to the database has its content in the storage.   *)
THEOREM TypeCorrect == ASSUME ~Overlapping PROVE Spec => []TypeOK
<1>1. IInv => TypeOK BY DEF IInv
<1> QED BY <1>1, Invariance, PTL

(* A version that became the main one in checkin_version was based on the  *)
(* main version before it, whoever held the lock meanwhile.                *)
THEOREM NoUpdateIsLost == ASSUME ~Overlapping PROVE Spec => []NoLostUpdate
<1>1. ASSUME IInv PROVE NoLostUpdate
  <2> SUFFICES ASSUME NEW i \in DOMAIN versions, ~versions[i].conflict
               PROVE  versions[i].base = Max({0} \cup
                   {versions[j].number : j \in {k \in 1..(i - 1) : ~versions[k].conflict}})
    BY DEF NoLostUpdate
  <2>1. versions \in Seq(Rows) /\ InOrder BY <1>1 DEF IInv, TypeOK
  <2>2. i \in 1..Len(versions) /\ Len(versions) \in Nat BY <2>1
  <2>3. CASE i = 1
    <3>1. versions[i].base = 0 BY <2>1, <2>3 DEF InOrder, Row
    <3>2. {0} \cup {versions[j].number : j \in {k \in 1..(i - 1) : ~versions[k].conflict}} = {0}
      BY <2>3
    <3>3. Max({0}) = 0 BY MaxIs
    <3> QED BY <3>1, <3>2, <3>3
  <2>4. CASE i # 1
    <3>1. i \in 2..Len(versions) BY <2>2, <2>4
    <3>2. LastMain(i, versions[i].base) BY <2>1, <3>1 DEF InOrder
    <3>3. versions[i].base \in Nat
      <4>1. versions[i] \in Rows BY <2>1, <2>2
      <4> QED BY <4>1 DEF Rows
    <3> QED BY <2>1, <3>1, <3>2, <3>3, LastMainIsMax
  <2> QED BY <2>3, <2>4
<1> QED BY <1>1, Invariance, PTL

(* No two rows of document_version have one number, and the storage has    *)
(* the content of every row.                                               *)
THEOREM EveryVersionIsRetrievable == ASSUME ~Overlapping PROVE Spec => []VersionsRetrievable
<1>1. ASSUME IInv PROVE VersionsRetrievable
  <2>1. DOMAIN versions = 1..Len(versions) /\ Len(versions) \in Nat BY <1>1 DEF IInv, TypeOK
  <2>2. \A i, j \in DOMAIN versions : versions[i].number = versions[j].number => i = j
    BY <1>1, <2>1 DEF IInv, InOrder
  <2>3. ASSUME NEW i \in DOMAIN versions, versions[i].by \in Users
        PROVE  <<versions[i].by, versions[i].base>> \in objects
    <3>1. versions[1].by = "creator" BY <1>1 DEF IInv, InOrder, Row
    <3>2. i \in 2..Len(versions) BY <2>1, <2>3, <3>1, CheckinAssumption
    <3> QED BY <1>1, <3>2 DEF IInv, Stored
  <2> QED BY <2>2, <2>3 DEF VersionsRetrievable
<1> QED BY <1>1, Invariance, PTL

(***************************************************************************)
(* The abstract history.                                                   *)
(***************************************************************************)
LEMMA InitialHistory == ASSUME Init PROVE History!Init
<1>1. DOMAIN versions = {1} /\ versions[1] = Row(1, 0, FALSE, "creator") BY DEF Init
<1>2. versions[1].number = 1 /\ versions[1].base = 0 /\ versions[1].conflict = FALSE
  BY <1>1 DEF Row
<1>3. MainVersions = {[number |-> 1, base |-> 0]} /\ ConflictCopies = {}
  BY <1>1, <1>2 DEF MainVersions, ConflictCopies
<1> QED BY <1>3 DEF History!Init, Init

(* The row of a check-in is fresh, and joins the main versions or the      *)
(* conflict copies.                                                        *)
LEMMA CommitAbstract ==
    ASSUME IInv, NEW u \in Users, Commit(u)
    PROVE  History!Next
<1> DEFINE row == request[u].row
           n == Len(versions) + 1
<1>0. TypeOK /\ InOrder /\ request[u].pc = "commit" BY DEF IInv, Commit
<1>1. row \in Rows BY <1>0, RequestTypes
<1>2. row.number = n /\ (~row.conflict => row.base = current) /\ Len(versions) < MaxVersions
  BY <1>0 DEF IInv, Prepared
<1>3. versions' = Append(versions, row) /\ current' = IF row.conflict THEN current ELSE row.number
  BY DEF Commit
<1>4. /\ n \in Nat /\ n \in 1..MaxVersions
      /\ DOMAIN versions = 1..(n - 1) /\ DOMAIN versions' = 1..n
      /\ versions'[n] = row /\ \A i \in 1..(n - 1) : versions'[i] = versions[i]
  BY <1>0, <1>1, <1>2, <1>3, CheckinAssumption DEF TypeOK
<1>5. \A i \in 1..(n - 1) : versions[i].number # n BY <1>0, <1>4 DEF InOrder
<1> HIDE DEF row, n
<1>6. History!Fresh(n)
  BY <1>4, <1>5 DEF History!Fresh, History!Numbers, MainVersions, ConflictCopies
<1>7. CASE row.conflict
  <2>1. MainVersions' = MainVersions BY <1>4, <1>7 DEF MainVersions
  <2>2. ConflictCopies' = ConflictCopies \cup {n} BY <1>2, <1>4, <1>7 DEF ConflictCopies
  <2>3. History!KeepCopy(n) BY <1>3, <1>6, <1>7, <2>1, <2>2 DEF History!KeepCopy
  <2> QED BY <1>4, <2>3 DEF History!Next
<1>8. CASE ~row.conflict
  <2>1. ConflictCopies' = ConflictCopies BY <1>4, <1>8 DEF ConflictCopies
  <2>2. MainVersions' = MainVersions \cup {[number |-> n, base |-> current]}
    BY <1>2, <1>4, <1>8 DEF MainVersions
  <2>3. History!Advance(n) BY <1>2, <1>3, <1>6, <1>8, <2>1, <2>2 DEF History!Advance
  <2> QED BY <1>4, <2>3 DEF History!Next
<1> QED BY <1>7, <1>8

LEMMA AbstractStep ==
    ASSUME IInv, [Next]_vars
    PROVE  [History!Next]_<<current, MainVersions, ConflictCopies>>
<1>1. ASSUME UNCHANGED <<current, versions>>
      PROVE  UNCHANGED <<current, MainVersions, ConflictCopies>>
  BY <1>1 DEF MainVersions, ConflictCopies
<1>2. CASE \E u \in Users : Commit(u) BY <1>2, CommitAbstract
<1>3. ASSUME NEW u \in Users,
             \/ Download(u) \/ AcquireRead(u) \/ AcquireWrite(u)
             \/ ReleaseRead(u) \/ ForceReleaseRead(u) \/ ReleaseWrite(u)
             \/ CheckinRead(u) \/ Upload(u) \/ UploadRefused(u)
             \/ Check(u) \/ CheckRefused(u) \/ Respond(u) \/ ResponseLost(u)
      PROVE  UNCHANGED <<current, versions>>
  BY <1>3 DEF Download, AcquireRead, AcquireWrite, ReleaseRead, ForceReleaseRead, ReleaseWrite,
              CheckinRead, Upload, UploadRefused, Check, CheckRefused, Respond, ResponseLost
<1>4. CASE LockExpires BY <1>1, <1>4 DEF LockExpires
<1>5. CASE UNCHANGED vars BY <1>1, <1>5 DEF vars
<1> QED BY <1>1, <1>2, <1>3, <1>4, <1>5 DEF Next

(* Every version gets a number of its own, and the main version moves by   *)
(* compare-and-set or not at all, whatever locks, uploads and responses do.*)
THEOREM ImplementsVersionHistory == ASSUME ~Overlapping PROVE Spec => ImplementsHistory
<1>1. Init => History!Init BY InitialHistory
<1>2. IInv /\ [Next]_vars => [History!Next]_<<current, MainVersions, ConflictCopies>>
  BY AbstractStep
<1> QED BY <1>1, <1>2, Invariance, PTL DEF Spec, ImplementsHistory, History!Spec

(***************************************************************************)
(* The end of an editing session.                                          *)
(***************************************************************************)
(* Inductive: once a check-in has looked at the lock, it either ends the   *)
(* lock of its user with its commit, or the user has none.                 *)
SessionInv ==
    /\ request = [u \in Users |-> request[u]]
    /\ lock \in {None} \cup [by : Users, active : BOOLEAN]
    /\ \A u \in Users :
          /\ "pc" \in DOMAIN request[u]
          /\ request[u].pc = "commit" =>
                request[u].unlock \in BOOLEAN /\ (~request[u].unlock => lock = None \/ lock.by # u)
          /\ request[u].pc = "respond" => lock = None \/ lock.by # u

(* A lock that is taken away, or taken by one who is not checking in,      *)
(* disturbs nobody's check-in.                                             *)
LEMMA SessionQuiet ==
    ASSUME SessionInv,
           request' = [u \in Users |-> request'[u]],
           \A u \in Users :
              \/ request'[u] = request[u]
              \/ "pc" \in DOMAIN request'[u] /\ request'[u].pc \notin {"commit", "respond"},
           \/ lock' = lock \/ lock' = None
           \/ lock # None /\ lock' = [lock EXCEPT !.active = FALSE]
           \/ \E u \in Users : /\ lock' = [by |-> u, active |-> TRUE]
                               /\ request'[u].pc \notin {"commit", "respond"}
    PROVE  SessionInv'
<1>1. lock' \in {None} \cup [by : Users, active : BOOLEAN]
  <2> DEFINE Locks == [by : Users, active : BOOLEAN]
  <2>1. \A x \in Locks : [x EXCEPT !.active = FALSE] \in Locks OBVIOUS
  <2>2. \A u \in Users : [by |-> u, active |-> TRUE] \in Locks OBVIOUS
  <2>3. lock \in {None} \cup Locks BY DEF SessionInv
  <2> HIDE DEF Locks
  <2>4. lock' \in {None} \cup Locks BY <2>1, <2>2, <2>3
  <2> QED BY <2>4 DEF Locks
<1>2. \/ lock' = None \/ (lock # None /\ lock'.by = lock.by)
      \/ \E u \in Users : lock'.by = u /\ request'[u].pc \notin {"commit", "respond"}
  BY DEF SessionInv
<1>3. ASSUME NEW u \in Users, request'[u].pc \in {"commit", "respond"},
             lock = None \/ lock.by # u
      PROVE  lock' = None \/ lock'.by # u
  BY <1>2, <1>3
<1>4. ASSUME NEW u \in Users
      PROVE  /\ "pc" \in DOMAIN request'[u]
             /\ request'[u].pc = "commit" =>
                   /\ request'[u].unlock \in BOOLEAN
                   /\ ~request'[u].unlock => lock' = None \/ lock'.by # u
             /\ request'[u].pc = "respond" => lock' = None \/ lock'.by # u
  BY <1>3 DEF SessionInv
<1> QED BY <1>1, <1>4 DEF SessionInv

LEMMA SessionStep == ASSUME SessionInv, [Next]_vars PROVE SessionInv'
<1> DEFINE Only(u, x) == request' = [request EXCEPT ![u] = x]
<1>0. ASSUME NEW u \in Users, NEW x, Only(u, x)
      PROVE  /\ request' = [v \in Users |-> request'[v]] /\ request'[u] = x
             /\ \A v \in Users \ {u} : request'[v] = request[v]
  <2>1. request = [v \in Users |-> request[v]] BY DEF SessionInv
  <2> QED BY <1>0, <2>1
<1> HIDE DEF Only
<1>1. ASSUME UNCHANGED <<request, lock>> PROVE SessionInv'
  BY <1>1, SessionQuiet DEF SessionInv
<1>2. ASSUME NEW u \in Users, NEW x, Only(u, x), "pc" \in DOMAIN x, x.pc \notin {"commit", "respond"},
             lock' = lock \/ lock' = None \/ lock' = [by |-> u, active |-> TRUE]
      PROVE  SessionInv'
  BY <1>0, <1>2, SessionQuiet
<1>3. Idle.pc = "idle" /\ "pc" \in DOMAIN Idle BY DEF Idle
<1>4. ASSUME NEW u \in Users,
             \/ AcquireWrite(u) \/ ReleaseWrite(u) \/ UploadRefused(u) \/ CheckRefused(u)
             \/ Respond(u) \/ ResponseLost(u)
      PROVE  SessionInv'
  <2>1. Only(u, Idle)
    BY <1>4 DEF AcquireWrite, ReleaseWrite, UploadRefused, CheckRefused, Respond,
                ResponseLost, Ends, Only
  <2>2. lock' = lock \/ lock' = None \/ lock' = [by |-> u, active |-> TRUE]
    BY <1>4 DEF AcquireWrite, ReleaseWrite, UploadRefused, CheckRefused, Respond, ResponseLost
  <2> QED BY <1>2, <1>3, <2>1, <2>2
<1>5. ASSUME NEW u \in Users,
             AcquireRead(u) \/ ReleaseRead(u) \/ ForceReleaseRead(u) \/ CheckinRead(u)
      PROVE  SessionInv'
  <2> DEFINE acquire == [pc |-> "acquire", found |-> lock # None]
             release == [pc |-> "release", forced |-> FALSE]
             force == [pc |-> "release", forced |-> TRUE]
             upload == [pc |-> "upload", base |-> base[u], seen |-> current]
  <2>0. \A x \in {acquire, release, force, upload} :
           x.pc \in {"acquire", "release", "upload"} /\ "pc" \in DOMAIN x
    OBVIOUS
  <2> HIDE DEF acquire, release, force, upload
  <2>1. PICK x \in {acquire, release, force, upload} : Only(u, x)
    BY <1>5 DEF AcquireRead, ReleaseRead, ForceReleaseRead, CheckinRead, Only,
                acquire, release, force, upload
  <2>2. lock' = lock
    BY <1>5 DEF AcquireRead, ReleaseRead, ForceReleaseRead, CheckinRead
  <2> QED BY <1>2, <2>0, <2>1, <2>2
<1>6. ASSUME NEW u \in Users, Upload(u) PROVE SessionInv'
  <2>1. Only(u, [request[u] EXCEPT !.pc = "check"]) /\ lock' = lock BY <1>6 DEF Upload, Only
  <2>2. [request[u] EXCEPT !.pc = "check"].pc = "check"
        /\ "pc" \in DOMAIN [request[u] EXCEPT !.pc = "check"]
    <3>1. "pc" \in DOMAIN request[u] BY DEF SessionInv
    <3> QED BY <3>1
  <2> QED BY <1>2, <2>1, <2>2
<1>7. ASSUME NEW u \in Users, Check(u) PROVE SessionInv'
  <2> DEFINE own == lock # None /\ lock.by = u
  <2>1. PICK row : Only(u, [pc |-> "commit", row |-> row, unlock |-> own])
    BY <1>7 DEF Check, Prepare, Only
  <2>2. lock' = lock BY <1>7 DEF Check
  <2>3. own \in BOOLEAN /\ (~own => lock = None \/ lock.by # u) OBVIOUS
  <2> HIDE DEF own
  <2>4. /\ request'[u].pc = "commit" /\ "pc" \in DOMAIN request'[u] /\ request'[u].unlock = own
        /\ request' = [v \in Users |-> request'[v]] /\ \A v \in Users \ {u} : request'[v] = request[v]
    BY <1>0, <2>1
  <2> QED BY <2>2, <2>3, <2>4 DEF SessionInv
<1>8. ASSUME NEW u \in Users, Commit(u) PROVE SessionInv'
  <2>1. PICK row, b : Only(u, [pc |-> "respond", row |-> row, unlocked |-> b])
    BY <1>8 DEF Commit, Only
  <2>2. request[u].pc = "commit" /\ lock' = IF request[u].unlock THEN None ELSE lock
    BY <1>8 DEF Commit
  <2>3. request'[u].pc = "respond" /\ "pc" \in DOMAIN request'[u] /\ request' = [v \in Users |-> request'[v]]
        /\ \A v \in Users \ {u} : request'[v] = request[v]
    BY <1>0, <2>1
  <2>4. lock' = None \/ (lock' = lock /\ (lock = None \/ lock.by # u))
    BY <2>2 DEF SessionInv
  <2> QED BY <2>3, <2>4 DEF SessionInv
<1>9. CASE LockExpires
  <2>1. request' = request /\ lock # None /\ lock' = [lock EXCEPT !.active = FALSE]
    BY <1>9 DEF LockExpires
  <2> QED BY <2>1, SessionQuiet DEF SessionInv
<1>10. ASSUME NEW u \in Users, Download(u) PROVE SessionInv'
  BY <1>1, <1>10 DEF Download
<1>11. CASE UNCHANGED vars BY <1>1, <1>11 DEF vars
<1> QED BY <1>4, <1>5, <1>6, <1>7, <1>8, <1>9, <1>10, <1>11 DEF Next

(* checkin_version: whoever has checked in holds no running lock when the  *)
(* request ends, conflict or not and whether the answer arrives or not;    *)
(* overlapping requests included.                                          *)
THEOREM CheckinReleasesLock == Spec => CheckinEndsSession
<1> DEFINE Ended(u) ==
      request[u].pc = "respond" /\ request'[u] = Idle => lock.by # u \/ ~lock.active
<1>1. Init => SessionInv BY DEF Init, SessionInv, Idle
<1>2. SessionInv /\ [Next]_vars => SessionInv' BY SessionStep
<1>3. ASSUME SessionInv, NEW u \in Users PROVE Ended(u)
  <2>1. None.by # u BY CheckinAssumption DEF None
  <2> QED BY <1>3, <2>1 DEF SessionInv
<1>4. SessionInv => \A u \in Users : Ended(u)
  <2> HIDE DEF Ended
  <2> QED BY <1>3
<1> QED BY <1>1, <1>2, <1>4, PTL DEF Spec, CheckinEndsSession
=============================================================================
