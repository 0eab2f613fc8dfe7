--------------------------- MODULE ArchivalProofs ---------------------------
(***************************************************************************)
(* Theorems about Archival, for any documents, cases, versions, holds,     *)
(* requests and failures: when nobody checks in what is due, the disposal  *)
(* loses no content, and a disposed case has the package of its closure.   *)
(***************************************************************************)
EXTENDS Archival, FiniteSetTheorems, TLAPS

Copies ==
    {None} \cup Versions \cup UNION {[RefsOf[c] -> Versions \cup {None}] : c \in Cases}

Transfers ==
    [of : Items, status : Statuses, attempts : Nat, waits : BOOLEAN, aged : BOOLEAN, copy : Copies]

Typed ==
    /\ due \in [Items -> BOOLEAN] /\ archived \in [Items -> BOOLEAN]
    /\ current \in [Documents -> Versions]
    /\ dehydrated \in [Documents -> BOOLEAN] /\ held \in [Documents -> BOOLEAN]
    /\ snapshot = [c \in Cases |-> snapshot[c]]
    /\ \A c \in Cases : snapshot[c] # None => snapshot[c] \in [RefsOf[c] -> Versions]
    /\ live \in [Documents -> [Versions -> Versions \cup {None}]]
    /\ rendered \subseteq Documents \X Versions
    /\ transfers \in Seq(Transfers)
    /\ holds \in Nat /\ requests \in Nat /\ faults \in Nat

(* Only what is due is transferred, and what was taken is what is due: the *)
(* version that is current, or the versions at closure.                    *)
Taken == {"copied", "verified"} \cup Retrievable

RowFine(r) ==
    /\ due[r.of]
    /\ r.status \in Taken =>
          IF r.of \in Documents THEN r.copy = current[r.of] ELSE r.copy = snapshot[r.of]

RowsFine == \A i \in Rows : RowFine(transfers[i])

ClosedFirst == \A c \in Cases : due[c] => snapshot[c] # None

(* A live object has the content of its version or none; only the current  *)
(* version may have none, and then it can be retrieved.                    *)
RetrievableRow(d) == \E i \in Rows : transfers[i].of = d /\ transfers[i].status \in Retrievable

Contents ==
    \A d \in Documents :
        /\ \A v \in Versions : live[d][v] \in {v, None}
        /\ \A v \in 1 .. current[d] : live[d][v] = v \/ (v = current[d] /\ RetrievableRow(d))

(* What the loop works on, or has listed, is still what it was listed as;  *)
(* cur: the current versions.                                              *)
Queued(t, phase, i) ==
    /\ t[i].of \in ServedIn[phase]
    /\ t[i].status \in IF phase = "dehydration" THEN Retrievable ELSE Active

LoopFine(l, t, cur) ==
    /\ l \in Loops
    /\ l.todo \subseteq 1 .. Len(t) /\ l.at \notin l.todo
    /\ \A i \in l.todo : Queued(t, l.phase, i)
    /\ l.pc \in {"discover", "list"} => l.at = 0 /\ l.todo = {}
    /\ l.pc \notin {"discover", "list"} => l.at \in 1 .. Len(t) /\ Queued(t, l.phase, l.at)
    /\ l.phase # "dehydration" => l.pc \in {"discover", "list", "work", "release"}
    /\ l.phase = "dehydration" => l.pc # "release"
    /\ l.pc = "release" => t[l.at].status = "verified"
    /\ l.pc \in {"recheck", "delete"} => l.version = cur[t[l.at].of]

RetrievalFine(r, t, cur) ==
    /\ r \in Retrievals
    /\ r.pc # "idle" => /\ r.at \in 1 .. Len(t)
                        /\ t[r.at].of \in Documents /\ t[r.at].status \in Retrievable
                        /\ r.version = cur[t[r.at].of]

DataInv == Typed /\ RowsFine /\ ClosedFirst /\ Contents /\ PackageIsClosure

IInv ==
    /\ DataInv
    /\ LoopFine(loop, transfers, current)
    /\ RetrievalFine(retrieval, transfers, current)

(***************************************************************************)
(* Sets, sequences, rows.                                                  *)
(***************************************************************************)
LEMMA ListOf == ASSUME NEW S, IsFiniteSet(S) PROVE SetToSeq(S) \in Seq(S)
<1> DEFINE n == Cardinality(S)
<1>1. n \in Nat /\ ExistsBijection(1 .. n, S) BY FS_CardinalityType
<1>2. PICK g : g \in Bijection(1 .. n, S) BY <1>1 DEF ExistsBijection
<1>3. g \in [1 .. n -> S] /\ IsInjective(g)
  BY <1>2 DEF Bijection, Injection, IsInjective
<1>4. SetToSeq(S) \in [1 .. n -> S] BY <1>3 DEF SetToSeq
<1> QED BY <1>1, <1>4

LEMMA RowTypes ==
    ASSUME Typed
    PROVE  /\ Len(transfers) \in Nat /\ DOMAIN transfers = Rows
           /\ \A i \in Rows :
                 /\ transfers[i] \in Transfers
                 /\ transfers[i].of \in Items /\ transfers[i].status \in Statuses
                 /\ transfers[i].copy \in Copies
           /\ \A i \in Rows : transfers[i].of \in Documents => transfers[i].of \notin Cases
<1>1. \A i \in Rows : transfers[i] \in Transfers BY DEF Typed, Rows
<1> QED BY <1>1, ArchivalAssumption DEF Typed, Rows, Transfers

LEMMA Disjoint ==
    /\ Active \cap Retrievable = {} /\ "failed_permanent" \notin Active \cup Retrievable
    /\ Active \subseteq Statuses /\ Retrievable \subseteq Statuses
    /\ "failed_permanent" \in Statuses
BY DEF Active, Retrievable, Statuses

(* One row changes: it belongs to whom it belonged, stays retrievable, and *)
(* has the right content.                                                  *)
LEMMA RowChanges ==
    ASSUME DataInv, NEW i \in Rows, NEW r \in Transfers,
           transfers' = [transfers EXCEPT ![i] = r],
           r.of = transfers[i].of,
           transfers[i].status \in Retrievable => r.status \in Retrievable,
           r.status \in Taken =>
              IF r.of \in Documents THEN r.copy = current[r.of] ELSE r.copy = snapshot[r.of],
           r.copy = transfers[i].copy \/ r.of \in Documents \/ r.copy = snapshot[r.of],
           UNCHANGED <<documents, live, rendered>>,
           holds' \in Nat, requests' \in Nat, faults' \in Nat
    PROVE  /\ DataInv'
           /\ Len(transfers') = Len(transfers) /\ Rows' = Rows
           /\ transfers'[i] = r /\ \A j \in Rows \ {i} : transfers'[j] = transfers[j]
<1> USE DEF DataInv
<1>1. /\ transfers' \in Seq(Transfers) /\ Len(transfers') = Len(transfers)
      /\ transfers'[i] = r /\ \A j \in Rows \ {i} : transfers'[j] = transfers[j]
  BY RowTypes DEF Typed, Rows
<1>2. Rows' = Rows BY <1>1 DEF Rows
<1>3. Typed' BY <1>1 DEF Typed, documents
<1>4. RowsFine' BY <1>1, <1>2 DEF RowsFine, RowFine, documents
<1>5. ClosedFirst' BY DEF ClosedFirst, documents
<1>6. Contents'
  <2>1. \A d \in Documents : RetrievableRow(d) => RetrievableRow(d)'
    BY <1>1, <1>2 DEF RetrievableRow
  <2> QED BY <2>1 DEF Contents, documents
<1>7. PackageIsClosure'
  <2> SUFFICES ASSUME NEW c \in Cases, archived[c]
               PROVE  \E j \in Rows : transfers'[j].of = c /\ transfers'[j].copy = snapshot[c]
    BY <1>2 DEF PackageIsClosure, documents
  <2>1. PICK j \in Rows : transfers[j].of = c /\ transfers[j].copy = snapshot[c]
    BY DEF PackageIsClosure
  <2>2. c \notin Documents BY ArchivalAssumption
  <2>3. transfers'[j].of = c /\ transfers'[j].copy = snapshot[c] BY <1>1, <2>1, <2>2
  <2> QED BY <2>3
<1> QED BY <1>1, <1>2, <1>3, <1>4, <1>5, <1>6, <1>7

(* The loop and the retrieval go on undisturbed by what becomes of rows    *)
(* they do not work on.                                                    *)
LEMMA LoopUndisturbed ==
    ASSUME NEW l, NEW t, NEW u, NEW cur, NEW cur2, LoopFine(l, t, cur),
           Len(t) \in Nat, Len(u) \in Nat, Len(t) <= Len(u),
           \A i \in 1 .. Len(t) :
              /\ u[i].of = t[i].of
              /\ t[i].status \in Active \cup Retrievable =>
                    u[i].status = t[i].status \/ {u[i].status, t[i].status} \subseteq Retrievable
              /\ cur2[t[i].of] = cur[t[i].of] \/ t[i].of \notin Documents
    PROVE  LoopFine(l, u, cur2)
<1>1. l \in Loops BY DEF LoopFine
<1>2. l.phase \in {"documents", "dehydration", "cases"} BY <1>1 DEF Loops, NextPhase
<1>3. \A i \in 1 .. Len(t) : Queued(t, l.phase, i) => Queued(u, l.phase, i)
  BY <1>2, Disjoint DEF Queued
<1>4. l.todo \subseteq 1 .. Len(u) BY DEF LoopFine
<1>5. ServedIn["dehydration"] = Documents BY DEF ServedIn
<1>6. l.pc = "release" => u[l.at].status = "verified"
  BY DEF LoopFine, Active, Retrievable
<1>7. l.pc \in {"recheck", "delete"} => l.version = cur2[u[l.at].of]
  BY <1>5 DEF LoopFine, Queued
<1> QED BY <1>1, <1>3, <1>4, <1>6, <1>7 DEF LoopFine

LEMMA RetrievalUndisturbed ==
    ASSUME NEW r, NEW t, NEW u, NEW cur, NEW cur2, RetrievalFine(r, t, cur),
           Len(t) \in Nat, Len(u) \in Nat, Len(t) <= Len(u),
           \A i \in 1 .. Len(t) :
              /\ u[i].of = t[i].of
              /\ t[i].status \in Retrievable => u[i].status \in Retrievable
              /\ cur2[t[i].of] = cur[t[i].of] \/ t[i].of \notin Documents
    PROVE  RetrievalFine(r, u, cur2)
BY DEF RetrievalFine

(* The next row was listed, or a phase begins.                             *)
LEMMA Begins ==
    ASSUME NEW phase \in DOMAIN NextPhase, NEW t, NEW cur
    PROVE  LoopFine(Enter(phase), t, cur)
BY DEF LoopFine, Enter, Loops

LEMMA GoesOnward ==
    ASSUME NEW l \in Loops, NEW t, NEW cur, NEW m \in Onward(l),
           l.todo \subseteq 1 .. Len(t), \A i \in l.todo : Queued(t, l.phase, i)
    PROVE  LoopFine(m, t, cur)
<1>0. l.phase \in DOMAIN NextPhase /\ NextPhase[l.phase] \in DOMAIN NextPhase
  BY DEF Loops, NextPhase
<1>1. CASE l.todo = {} BY <1>0, <1>1, Begins DEF Onward
<1>2. CASE l.todo # {}
  <2>1. PICK i \in l.todo :
            m = [l EXCEPT !.pc = "work", !.at = i, !.todo = @ \ {i}, !.version = 0]
    BY <1>2 DEF Onward
  <2>2. i \in Nat /\ l.todo \in SUBSET Nat BY DEF Loops
  <2>3. /\ m \in Loops /\ m.pc = "work" /\ m.at = i /\ m.todo = l.todo \ {i}
        /\ m.phase = l.phase
    BY <2>1, <2>2 DEF Loops
  <2> QED BY <2>3 DEF LoopFine
<1> QED BY <1>1, <1>2

LEMMA Initially == ASSUME Init PROVE IInv
<1>1. Typed
  <2>1. transfers \in Seq(Transfers) BY DEF Init
  <2>2. 1 \in Versions BY ArchivalAssumption DEF Versions
  <2>3. live \in [Documents -> [Versions -> Versions \cup {None}]] BY <2>2 DEF Init
  <2> QED BY <2>1, <2>2, <2>3 DEF Init, Typed, Items
<1>2. RowsFine BY DEF Init, RowsFine, Rows
<1>3. ClosedFirst BY DEF Init, ClosedFirst, Items
<1>4. Contents
  <2>1. \A d \in Documents : /\ current[d] = 1
                             /\ \A v \in Versions : live[d][v] = IF v = 1 THEN 1 ELSE None
    BY DEF Init
  <2>2. 1 .. 1 = {1} /\ 1 \in Versions BY ArchivalAssumption DEF Versions
  <2> QED BY <2>1, <2>2 DEF Contents
<1>5. PackageIsClosure BY DEF Init, PackageIsClosure, Items
<1>6. LoopFine(loop, transfers, current) BY Begins DEF Init, NextPhase
<1>7. RetrievalFine(retrieval, transfers, current)
  BY DEF Init, Idle, RetrievalFine, Retrievals, Retrievable
<1> QED BY <1>1, <1>2, <1>3, <1>4, <1>5, <1>6, <1>7 DEF IInv, DataInv

(***************************************************************************)
(* Users and time.                                                         *)
(***************************************************************************)
LEMMA CheckInStep == ASSUME IInv, ~LateEdits, NEW d \in Documents, CheckIn(d) PROVE IInv'
<1> DEFINE n == current[d] + 1
<1>0. DataInv /\ Typed /\ Contents /\ RowsFine /\ ClosedFirst /\ PackageIsClosure
  BY DEF IInv, DataInv
<1>1. /\ ~due[d] /\ current' = [current EXCEPT ![d] = n] /\ live' = [live EXCEPT ![d][n] = n]
      /\ UNCHANGED <<due, archived, dehydrated, held, snapshot, rendered, transfers, loop,
                     retrieval, holds, requests, faults>>
      /\ current[d] < MaxVersions
  BY DEF CheckIn, bounds
<1>2. current[d] \in Versions /\ n \in Versions /\ n \in Nat
  BY <1>0, <1>1, ArchivalAssumption DEF Typed, Versions
<1> HIDE DEF n
<1>3. /\ current' \in [Documents -> Versions] /\ current'[d] = n
      /\ \A e \in Documents \ {d} : current'[e] = current[e]
  BY <1>0, <1>1, <1>2 DEF Typed
<1>4. /\ live' \in [Documents -> [Versions -> Versions \cup {None}]] /\ live'[d][n] = n
      /\ \A v \in Versions \ {n} : live'[d][v] = live[d][v]
      /\ \A e \in Documents \ {d} : live'[e] = live[e]
  BY <1>0, <1>1, <1>2 DEF Typed
<1>5. Typed' BY <1>0, <1>1, <1>3, <1>4 DEF Typed
<1>6. /\ Rows' = Rows
      /\ \A i \in Rows : transfers[i].of # d
  BY <1>0, <1>1 DEF Rows, RowsFine, RowFine
<1>7. RowsFine' BY <1>0, <1>1, <1>3, <1>6 DEF RowsFine, RowFine
<1>8. ClosedFirst' BY <1>0, <1>1 DEF ClosedFirst
<1>9. Contents'
  <2>1. \A e \in Documents : RetrievableRow(e)' <=> RetrievableRow(e)
    BY <1>1, <1>6 DEF RetrievableRow
  <2>2. ~RetrievableRow(d) BY <1>6 DEF RetrievableRow
  <2>3. \A v \in Versions : live'[d][v] \in {v, None} BY <1>0, <1>4 DEF Contents
  <2>4. ASSUME NEW v \in 1 .. n PROVE live'[d][v] = v
    <3>1. CASE v = n BY <1>4, <3>1
    <3>2. CASE v # n
      <4>1. v \in 1 .. current[d] /\ v \in Versions
        BY <1>2, <3>2, ArchivalAssumption DEF n, Versions
      <4> QED BY <1>0, <1>4, <2>2, <3>2, <4>1 DEF Contents
    <3> QED BY <3>1, <3>2
  <2> QED BY <1>0, <1>3, <1>4, <2>1, <2>3, <2>4 DEF Contents
<1>10. PackageIsClosure' BY <1>0, <1>1, <1>6 DEF PackageIsClosure
<1>11. \A i \in 1 .. Len(transfers) : current'[transfers[i].of] = current[transfers[i].of]
                                      \/ transfers[i].of \notin Documents
  BY <1>3, <1>6 DEF Rows
<1>12. Len(transfers) \in Nat BY <1>0, RowTypes
<1>13. LoopFine(loop, transfers, current') BY <1>11, <1>12, LoopUndisturbed DEF IInv
<1>14. RetrievalFine(retrieval, transfers, current') BY <1>11, <1>12, RetrievalUndisturbed DEF IInv
<1> QED BY <1>1, <1>5, <1>7, <1>8, <1>9, <1>10, <1>13, <1>14 DEF IInv, DataInv

LEMMA CloseStep == ASSUME IInv, NEW c \in Cases, CloseCase(c) PROVE IInv'
<1> DEFINE s == [d \in RefsOf[c] |-> current[d]]
<1>0. Typed /\ Contents /\ RowsFine /\ ClosedFirst /\ PackageIsClosure BY DEF IInv, DataInv
<1>1. /\ snapshot[c] = None /\ snapshot' = [snapshot EXCEPT ![c] = s]
      /\ UNCHANGED <<due, archived, current, dehydrated, held, live, rendered, transfers, loop,
                     retrieval, holds, requests, faults>>
  BY DEF CloseCase, bounds
<1>2. s \in [RefsOf[c] -> Versions] BY <1>0, ArchivalAssumption DEF Typed
<1> HIDE DEF s
<1>3. /\ snapshot' = [x \in Cases |-> snapshot'[x]] /\ snapshot'[c] = s
      /\ \A x \in Cases \ {c} : snapshot'[x] = snapshot[x]
  BY <1>0, <1>1 DEF Typed
<1>4. Typed' BY <1>0, <1>1, <1>2, <1>3 DEF Typed
<1>5. ~due[c] BY <1>0, <1>1 DEF ClosedFirst
<1>6. \A i \in Rows : transfers[i].of # c /\ transfers[i].of \in Items
  BY <1>0, <1>5, RowTypes DEF RowsFine, RowFine
<1>7. \A i \in Rows : transfers[i].of \in Documents \/ snapshot'[transfers[i].of] = snapshot[transfers[i].of]
  BY <1>3, <1>6 DEF Items
<1>8. RowsFine' BY <1>0, <1>1, <1>7 DEF RowsFine, RowFine, Rows
<1>9. ClosedFirst' BY <1>0, <1>1, <1>3, <1>5 DEF ClosedFirst
<1>10. Contents' BY <1>0, <1>1 DEF Contents, RetrievableRow, Rows
<1>11. PackageIsClosure' BY <1>0, <1>1, <1>3, <1>6 DEF PackageIsClosure, Rows
<1> QED BY <1>1, <1>4, <1>8, <1>9, <1>10, <1>11 DEF IInv, DataInv

LEMMA RequestStep == ASSUME IInv, NEW x \in Items, RequestArchive(x) PROVE IInv'
<1>0. Typed /\ Contents /\ RowsFine /\ ClosedFirst /\ PackageIsClosure BY DEF IInv, DataInv
<1>1. /\ due' = [due EXCEPT ![x] = TRUE] /\ (x \in Cases => snapshot[x] # None)
      /\ UNCHANGED <<archived, current, dehydrated, held, snapshot, live, rendered, transfers,
                     loop, retrieval, holds, requests, faults>>
  BY DEF RequestArchive, bounds
<1>2. /\ due' \in [Items -> BOOLEAN]
      /\ \A y \in Items : due[y] => due'[y]
      /\ \A y \in Items : due'[y] => due[y] \/ y = x
  BY <1>0, <1>1 DEF Typed
<1>3. Typed' BY <1>0, <1>1, <1>2 DEF Typed
<1>4. RowsFine' BY <1>0, <1>1, <1>2, RowTypes DEF RowsFine, RowFine, Rows
<1>5. ClosedFirst' BY <1>0, <1>1, <1>2 DEF ClosedFirst, Items
<1>6. Contents' /\ PackageIsClosure'
  BY <1>0, <1>1 DEF Contents, RetrievableRow, Rows, PackageIsClosure
<1> QED BY <1>1, <1>3, <1>4, <1>5, <1>6 DEF IInv, DataInv

(* Nothing but holds, renditions, and what the loop and operators remember.*)
LEMMA DataAtRest ==
    ASSUME DataInv, UNCHANGED <<due, archived, current, snapshot, live, transfers>>,
           dehydrated' \in [Documents -> BOOLEAN], held' \in [Documents -> BOOLEAN],
           rendered' \subseteq Documents \X Versions,
           holds' \in Nat, requests' \in Nat, faults' \in Nat
    PROVE  DataInv'
BY DEF DataInv, Typed, RowsFine, RowFine, Rows, ClosedFirst, Contents, RetrievableRow, PackageIsClosure

LEMMA HoldStep ==
    ASSUME IInv, NEW d \in Documents, NEW on \in BOOLEAN, SetHold(d, on) PROVE IInv'
<1>1. held' \in [Documents -> BOOLEAN] /\ holds' \in Nat
  BY DEF IInv, DataInv, Typed, SetHold
<1>2. DataInv' BY <1>1, DataAtRest DEF IInv, DataInv, Typed, SetHold
<1> QED BY <1>2 DEF IInv, SetHold

LEMMA RenderStep ==
    ASSUME IInv, NEW d \in Documents, NEW v \in Versions, Render(d, v) PROVE IInv'
<1>1. rendered' \subseteq Documents \X Versions BY DEF IInv, DataInv, Typed, Render
<1>2. DataInv' BY <1>1, DataAtRest DEF IInv, DataInv, Typed, Render, documents, bounds
<1> QED BY <1>2 DEF IInv, Render, documents

(* A row changes that neither the loop nor the retrieval works on, or not  *)
(* in what they look at.                                                   *)
LEMMA RowChangesBeside ==
    ASSUME IInv, NEW i \in Rows, NEW r \in Transfers,
           transfers' = [transfers EXCEPT ![i] = r],
           r.of = transfers[i].of, r.copy = transfers[i].copy,
           \/ r.status = transfers[i].status
           \/ {r.status, transfers[i].status} \subseteq Retrievable
           \/ transfers[i].status = "failed_permanent" /\ r.status = "pending",
           UNCHANGED <<documents, live, rendered, loop>>,
           holds' \in Nat, requests' \in Nat, faults' \in Nat
    PROVE  DataInv' /\ LoopFine(loop', transfers', current')
           /\ (UNCHANGED retrieval => RetrievalFine(retrieval', transfers', current'))
<1>0. DataInv /\ Typed BY DEF IInv, DataInv
<1>1. r.status \in Taken => transfers[i].status \in Taken BY DEF Taken, Retrievable
<1>2. r.status \in Taken =>
          IF r.of \in Documents THEN r.copy = current[r.of] ELSE r.copy = snapshot[r.of]
  BY <1>0, <1>1 DEF DataInv, RowsFine, RowFine
<1>3. transfers[i].status \in Retrievable => r.status \in Retrievable BY Disjoint
<1>4. /\ DataInv' /\ Len(transfers') = Len(transfers)
      /\ transfers'[i] = r /\ \A j \in Rows \ {i} : transfers'[j] = transfers[j]
  BY <1>0, <1>2, <1>3, RowChanges
<1>5. /\ Len(transfers) \in Nat /\ Len(transfers') \in Nat /\ Len(transfers) <= Len(transfers')
      /\ current' = current
      /\ LoopFine(loop, transfers, current) /\ RetrievalFine(retrieval, transfers, current)
  BY <1>0, <1>4, RowTypes DEF documents, IInv
<1>6. \A j \in 1 .. Len(transfers) :
         /\ transfers'[j].of = transfers[j].of
         /\ transfers[j].status \in Active \cup Retrievable =>
               \/ transfers'[j].status = transfers[j].status
               \/ {transfers'[j].status, transfers[j].status} \subseteq Retrievable
         /\ transfers[j].status \in Retrievable => transfers'[j].status \in Retrievable
         /\ current[transfers[j].of] = current[transfers[j].of] \/ transfers[j].of \notin Documents
  BY <1>3, <1>4, Disjoint DEF Rows
<1>7. LoopFine(loop, transfers', current) BY <1>5, <1>6, LoopUndisturbed
<1>8. RetrievalFine(retrieval, transfers', current) BY <1>5, <1>6, RetrievalUndisturbed
<1> QED BY <1>4, <1>5, <1>7, <1>8

LEMMA TimeStep ==
    ASSUME IInv, NEW i \in Rows, BackoffEnds(i) \/ PeriodPasses(i) PROVE IInv'
<1>0. Typed BY DEF IInv, DataInv
<1>1. PICK r : /\ transfers' = [transfers EXCEPT ![i] = r]
               /\ r = [transfers[i] EXCEPT !.waits = FALSE]
                  \/ r = [transfers[i] EXCEPT !.aged = TRUE]
  BY DEF BackoffEnds, PeriodPasses
<1>2. transfers[i] \in Transfers BY <1>0, RowTypes
<1>3. r \in Transfers /\ r.of = transfers[i].of /\ r.copy = transfers[i].copy
      /\ r.status = transfers[i].status
  BY <1>1, <1>2 DEF Transfers
<1>4. UNCHANGED <<documents, live, rendered, loop, retrieval, holds, requests, faults>>
  BY DEF BackoffEnds, PeriodPasses, bounds
<1> QED BY <1>0, <1>1, <1>3, <1>4, RowChangesBeside DEF IInv, Typed

(***************************************************************************)
(* Operators.                                                              *)
(***************************************************************************)
LEMMA RetryStep == ASSUME IInv, NEW i \in Rows, RetryTransfer(i) PROVE IInv'
<1> DEFINE r == [transfers[i] EXCEPT !.status = "pending", !.attempts = 0, !.waits = FALSE]
<1>0. Typed BY DEF IInv, DataInv
<1>1. transfers[i] \in Transfers /\ "pending" \in Statuses /\ 0 \in Nat
  BY <1>0, RowTypes DEF Statuses, Active
<1>2. /\ r \in Transfers /\ r.of = transfers[i].of /\ r.copy = transfers[i].copy
      /\ r.status = "pending"
  BY <1>1 DEF Transfers
<1>3. transfers' = [transfers EXCEPT ![i] = r] BY DEF RetryTransfer
<1> HIDE DEF r
<1>4. /\ transfers[i].status = "failed_permanent" /\ requests' \in Nat
      /\ UNCHANGED <<documents, live, rendered, loop, retrieval, holds, faults>>
  BY <1>0 DEF RetryTransfer, Request, Typed
<1> QED BY <1>0, <1>2, <1>3, <1>4, RowChangesBeside DEF IInv, Typed

LEMMA RetrieveStep == ASSUME IInv, NEW i \in Rows, Retrieve(i) PROVE IInv'
<1>0. DataInv /\ Typed BY DEF IInv, DataInv
<1>1. /\ transfers[i].of \in Documents /\ transfers[i].status \in Retrievable
      /\ retrieval' = [at |-> i, pc |-> "upload", version |-> current[transfers[i].of],
                       status |-> transfers[i].status]
      /\ requests' \in Nat
      /\ UNCHANGED <<documents, live, rendered, transfers, loop, holds, faults>>
  BY <1>0 DEF Retrieve, Request, Typed
<1>2. DataInv' BY <1>0, <1>1, DataAtRest DEF documents, Typed
<1>3. i \in Nat /\ current[transfers[i].of] \in Nat
  BY <1>0, <1>1, RowTypes DEF Rows, Typed, Versions
<1>4. RetrievalFine(retrieval', transfers', current')
  BY <1>1, <1>3 DEF RetrievalFine, Retrievals, documents, Rows
<1> QED BY <1>1, <1>2, <1>4 DEF IInv, documents

LEMMA RestoreStep == ASSUME IInv, NEW i \in Rows, Restore(i) PROVE IInv'
<1> DEFINE d == transfers[i].of
           v == current[d]
<1>0. DataInv /\ Typed /\ Contents /\ RowsFine /\ ClosedFirst /\ PackageIsClosure
  BY DEF IInv, DataInv
<1>1. /\ d \in Documents /\ transfers[i].status \in Retrievable /\ retrieval.version = v
  BY DEF IInv, RetrievalFine, Restore, Retrieving
<1>2. transfers[i].copy = v /\ v \in Versions
  BY <1>0, <1>1 DEF RowsFine, RowFine, Taken, Typed
<1>3. live' = [live EXCEPT ![d][v] = v] BY <1>1, <1>2 DEF Restore
<1>4. UNCHANGED <<documents, rendered, transfers, loop, holds, requests, faults>>
      /\ retrieval' = [retrieval EXCEPT !.pc = "mark"]
  BY DEF Restore, bounds
<1> HIDE DEF d, v
<1>5. /\ live' \in [Documents -> [Versions -> Versions \cup {None}]] /\ live'[d][v] = v
      /\ \A w \in Versions \ {v} : live'[d][w] = live[d][w]
      /\ \A e \in Documents \ {d} : live'[e] = live[e]
  BY <1>0, <1>1, <1>2, <1>3 DEF Typed
<1>6. Typed' BY <1>0, <1>4, <1>5 DEF Typed, documents
<1>7. RowsFine' /\ ClosedFirst' /\ PackageIsClosure'
  BY <1>0, <1>4 DEF RowsFine, RowFine, Rows, ClosedFirst, PackageIsClosure, documents
<1>8. Contents'
  <2>1. \A e \in Documents : RetrievableRow(e)' <=> RetrievableRow(e)
    BY <1>4 DEF RetrievableRow, Rows
  <2>2. \A e \in Documents : 1 .. current[e] \subseteq Versions
    BY <1>0, ArchivalAssumption DEF Typed, Versions
  <2> QED BY <1>0, <1>4, <1>5, <2>1, <2>2 DEF Contents, documents
<1>9. RetrievalFine(retrieval', transfers', current')
  BY <1>4 DEF IInv, RetrievalFine, Retrievals, documents, Restore, Retrieving
<1> QED BY <1>4, <1>6, <1>7, <1>8, <1>9 DEF IInv, DataInv, documents

LEMMA MarkRehydratedStep == ASSUME IInv, NEW i \in Rows, MarkRehydrated(i) PROVE IInv'
<1>0. DataInv /\ Typed BY DEF IInv, DataInv
<1>1. /\ dehydrated' \in [Documents -> BOOLEAN]
      /\ retrieval.pc = "mark" /\ retrieval' = [retrieval EXCEPT !.pc = "record"]
      /\ UNCHANGED <<due, archived, current, held, snapshot, live, rendered, transfers, loop,
                     holds, requests, faults>>
  BY <1>0 DEF MarkRehydrated, Retrieving, bounds, Typed
<1>2. DataInv' BY <1>0, <1>1, DataAtRest DEF Typed
<1>3. RetrievalFine(retrieval', transfers', current')
  BY <1>1 DEF IInv, RetrievalFine, Retrievals
<1> QED BY <1>1, <1>2, <1>3 DEF IInv

LEMMA RecordRetrievalStep == ASSUME IInv, NEW i \in Rows, RecordRetrieval(i) PROVE IInv'
<1> DEFINE s == IF retrieval.status = "released" THEN transfers[i].status ELSE "released"
           r == [transfers[i] EXCEPT !.status = s, !.aged = FALSE]
<1>0. Typed BY DEF IInv, DataInv
<1>1. transfers[i] \in Transfers /\ transfers[i].status \in Retrievable
  BY <1>0, RowTypes DEF IInv, RetrievalFine, RecordRetrieval, Retrieving
<1>2. s \in Retrievable /\ s \in Statuses BY <1>1 DEF Statuses, Retrievable
<1> HIDE DEF s
<1>3. r \in Transfers /\ r.of = transfers[i].of /\ r.copy = transfers[i].copy /\ r.status = s
  BY <1>1, <1>2 DEF Transfers
<1>4. transfers' = [transfers EXCEPT ![i] = r]
  <2>1. transfers' = [transfers EXCEPT ![i].status = s, ![i].aged = FALSE]
    BY DEF RecordRetrieval, s
  <2> QED BY <1>0, <2>1, RowTypes DEF Rows, Typed
<1> HIDE DEF r
<1>5. /\ retrieval' = Idle
      /\ UNCHANGED <<documents, live, rendered, loop, holds, requests, faults>>
  BY DEF RecordRetrieval, bounds
<1>6. DataInv' /\ LoopFine(loop', transfers', current')
  BY <1>0, <1>1, <1>2, <1>3, <1>4, <1>5, RowChangesBeside DEF Typed
<1>7. RetrievalFine(retrieval', transfers', current')
  BY <1>5 DEF RetrievalFine, Idle, Retrievals, Retrievable
<1> QED BY <1>6, <1>7 DEF IInv

LEMMA RetrievalEnds == ASSUME NEW t, NEW cur PROVE RetrievalFine(Idle, t, cur)
BY DEF RetrievalFine, Idle, Retrievals, Retrievable

(***************************************************************************)
(* The loop copies.                                                        *)
(***************************************************************************)
LEMMA DiscoverStep == ASSUME IInv, Discover PROVE IInv'
<1> DEFINE S == {x \in ServedIn[loop.phase] : Undiscovered(x)}
           found == SetToSeq(S)
           new == [i \in DOMAIN found |-> NewTransfer(found[i])]
           n == Len(transfers)
<1>0. DataInv /\ Typed /\ Contents /\ RowsFine /\ ClosedFirst /\ PackageIsClosure
  BY DEF IInv, DataInv
<1>1. /\ transfers' = transfers \o new /\ loop' = [loop EXCEPT !.pc = "list"]
      /\ loop.pc = "discover" /\ loop.phase \in {"documents", "cases"}
      /\ UNCHANGED <<documents, live, rendered, retrieval, holds, requests, faults>>
  BY DEF Discover, bounds
<1>2. ServedIn[loop.phase] \subseteq Items /\ IsFiniteSet(ServedIn[loop.phase])
  BY <1>1, ArchivalAssumption DEF ServedIn, Items
<1>3. IsFiniteSet(S) /\ S \in SUBSET Items
  <2>1. S \in SUBSET ServedIn[loop.phase] OBVIOUS
  <2> QED BY <1>2, <2>1, FS_Subset
<1>4. \A x \in S : due[x] BY DEF Undiscovered
<1> HIDE DEF S
<1>5. found \in Seq(S) BY <1>3, ListOf
<1> HIDE DEF found
<1>6. \A x \in Items : /\ NewTransfer(x) \in Transfers /\ NewTransfer(x).of = x
                       /\ NewTransfer(x).status = "pending"
  BY DEF NewTransfer, Transfers, Statuses, Active, Copies
<1>7. new \in Seq(Transfers) /\ \A i \in 1 .. Len(new) : due[new[i].of] /\ new[i].status = "pending"
  <2>1. DOMAIN found = 1 .. Len(found) /\ Len(found) \in Nat
        /\ \A i \in DOMAIN found : found[i] \in S
    BY <1>5
  <2>2. \A i \in DOMAIN found : new[i] = NewTransfer(found[i]) /\ found[i] \in Items
    BY <1>3, <2>1
  <2>3. new \in [1 .. Len(found) -> Transfers] BY <1>6, <2>1, <2>2
  <2>4. new \in Seq(Transfers) /\ Len(new) = Len(found) BY <2>1, <2>3
  <2> QED BY <1>4, <1>6, <2>1, <2>2, <2>4
<1> HIDE DEF new
<1>8. /\ transfers' \in Seq(Transfers) /\ n \in Nat /\ Len(transfers') \in Nat
      /\ n <= Len(transfers')
      /\ \A i \in 1 .. n : transfers'[i] = transfers[i]
      /\ \A i \in 1 .. Len(transfers') : i \notin 1 .. n =>
            due[transfers'[i].of] /\ transfers'[i].status = "pending"
  <2>1. transfers \in Seq(Transfers) /\ n \in Nat /\ Len(new) \in Nat BY <1>0, <1>7 DEF Typed
  <2>2. /\ transfers' \in Seq(Transfers) /\ Len(transfers') = n + Len(new)
        /\ \A i \in 1 .. (n + Len(new)) :
              transfers'[i] = IF i <= n THEN transfers[i] ELSE new[i - n]
    BY <1>1, <1>7, <2>1
  <2>3. \A i \in 1 .. (n + Len(new)) : ~(i <= n) => i - n \in 1 .. Len(new) BY <2>1
  <2> HIDE DEF n
  <2>4. n <= n + Len(new) /\ n + Len(new) \in Nat BY <2>1
  <2>5. \A i \in 1 .. n : i \in 1 .. (n + Len(new)) /\ i <= n BY <2>1
  <2>6. \A i \in 1 .. (n + Len(new)) : i \notin 1 .. n => ~(i <= n) BY <2>1
  <2>7. ASSUME NEW i \in 1 .. Len(transfers'), i \notin 1 .. n
        PROVE  due[transfers'[i].of] /\ transfers'[i].status = "pending"
    <3>1. i - n \in 1 .. Len(new) /\ transfers'[i] = new[i - n] BY <2>2, <2>3, <2>6, <2>7
    <3> QED BY <1>7, <3>1
  <2>8. \A i \in 1 .. n : transfers'[i] = transfers[i] BY <2>2, <2>5
  <2> QED BY <2>1, <2>2, <2>4, <2>7, <2>8
<1> HIDE DEF n
<1>9. Rows = 1 .. n /\ Rows' = 1 .. Len(transfers') /\ Rows \subseteq Rows'
  BY <1>8 DEF Rows, n
<1>10. Typed' BY <1>0, <1>1, <1>8 DEF Typed, documents
<1>11. RowsFine' BY <1>0, <1>1, <1>8, <1>9 DEF RowsFine, RowFine, Taken, Retrievable, documents
<1>12. ClosedFirst' BY <1>0, <1>1 DEF ClosedFirst, documents
<1>13. Contents'
  <2>1. \A d \in Documents : RetrievableRow(d) => RetrievableRow(d)'
    BY <1>8, <1>9 DEF RetrievableRow
  <2> QED BY <1>0, <1>1, <2>1 DEF Contents, documents
<1>14. PackageIsClosure'
  <2>1. \A i \in Rows : i \in Rows' /\ transfers'[i] = transfers[i] BY <1>8, <1>9
  <2>2. archived' = archived /\ snapshot' = snapshot BY <1>1 DEF documents
  <2> SUFFICES ASSUME NEW c \in Cases, archived[c]
               PROVE  (\E i \in Rows : transfers[i].of = c /\ transfers[i].copy = snapshot[c])'
    BY <2>2 DEF PackageIsClosure
  <2>3. PICK i \in Rows : transfers[i].of = c /\ transfers[i].copy = snapshot[c]
    BY <1>0 DEF PackageIsClosure
  <2> QED BY <2>1, <2>2, <2>3
<1>15. LoopFine(loop', transfers', current')
  <2>1. loop \in Loops /\ loop.at = 0 /\ loop.todo = {} BY <1>1 DEF IInv, LoopFine
  <2>2. /\ loop' \in Loops /\ loop'.at = 0 /\ loop'.todo = {} /\ loop'.pc = "list"
    BY <1>1, <2>1 DEF Loops
  <2> QED BY <2>2 DEF LoopFine
<1>16. RetrievalFine(retrieval', transfers', current')
  <2>1. RetrievalFine(retrieval, transfers, current) /\ current' = current /\ retrieval' = retrieval
    BY <1>1 DEF IInv, documents
  <2> QED BY <1>8, <2>1, RetrievalUndisturbed DEF n
<1> QED BY <1>10, <1>11, <1>12, <1>13, <1>14, <1>15, <1>16 DEF IInv, DataInv

LEMMA ListStep == ASSUME IInv, List PROVE IInv'
<1> DEFINE l == [loop EXCEPT !.todo = Listed(loop.phase), !.txn = TRUE]
<1>0. DataInv /\ Typed BY DEF IInv, DataInv
<1>1. UNCHANGED <<documents, live, rendered, transfers, retrieval, holds, requests, faults>>
      /\ loop' \in Onward(l)
  BY DEF List, bounds
<1>2. DataInv' BY <1>0, <1>1, DataAtRest DEF documents, Typed
<1>3. loop \in Loops BY DEF IInv, LoopFine
<1>4. Listed(loop.phase) \subseteq Rows
      /\ \A i \in Listed(loop.phase) : Queued(transfers, loop.phase, i)
  BY DEF Listed, Queued, Retrievable
<1>5. l \in Loops /\ l.todo = Listed(loop.phase) /\ l.phase = loop.phase
  <2>1. Listed(loop.phase) \in SUBSET Nat BY <1>0, <1>4, RowTypes DEF Rows
  <2> QED BY <1>3, <2>1 DEF Loops
<1> HIDE DEF l
<1>6. l.todo \subseteq 1 .. Len(transfers) /\ \A i \in l.todo : Queued(transfers, l.phase, i)
  BY <1>4, <1>5 DEF Rows
<1>7. LoopFine(loop', transfers, current) BY <1>1, <1>5, <1>6, GoesOnward
<1> QED BY <1>1, <1>2, <1>7 DEF IInv, documents

(* The row before the loop.                                                *)
LEMMA RowAtHand ==
    ASSUME IInv, NEW i \in Rows, loop.at = i
    PROVE  /\ loop \in Loops /\ i \notin loop.todo /\ loop.todo \subseteq Rows
           /\ Queued(transfers, loop.phase, i) /\ i \in Nat /\ i # 0
           /\ transfers[i] \in Transfers
           /\ \A j \in loop.todo : Queued(transfers, loop.phase, j)
           /\ loop.phase # "dehydration" =>
                 transfers[i].status \in Active /\ loop.pc \in {"work", "release"}
           /\ loop.phase = "dehydration" =>
                 /\ transfers[i].status \in Retrievable /\ transfers[i].of \in Documents
                 /\ loop.pc \in {"work", "recheck", "delete", "mark", "record"}
<1>1. Typed /\ LoopFine(loop, transfers, current) BY DEF IInv, DataInv
<1>2. i \in Nat /\ i # 0 /\ transfers[i] \in Transfers BY <1>1, RowTypes DEF Rows
<1>3. loop \in Loops /\ loop.pc \notin {"discover", "list"} BY <1>1, <1>2 DEF LoopFine
<1>4. ServedIn["dehydration"] = Documents BY DEF ServedIn
<1>5. loop.pc \in {"discover", "list", "work", "release", "recheck", "delete", "mark", "record"}
  BY <1>3 DEF Loops
<1> QED BY <1>1, <1>2, <1>3, <1>4, <1>5 DEF LoopFine, Queued, Rows

(* The loop changes the row it works on.                                   *)
LEMMA LoopChangesRow ==
    ASSUME IInv, NEW i \in Rows, loop.at = i, loop.phase # "dehydration", NEW r \in Transfers,
           transfers' = [transfers EXCEPT ![i] = r],
           r.of = transfers[i].of,
           r.status \in Taken =>
              IF r.of \in Documents THEN r.copy = current[r.of] ELSE r.copy = snapshot[r.of],
           r.copy = transfers[i].copy \/ r.of \in Documents \/ r.copy = snapshot[r.of],
           UNCHANGED <<documents, live, rendered, retrieval>>,
           holds' \in Nat, requests' \in Nat, faults' \in Nat,
           \/ loop' = [loop EXCEPT !.txn = FALSE] /\ loop.pc = "work" /\ r.status \in Active
           \/ loop' \in Onward(loop) \/ loop' \in Onward([loop EXCEPT !.txn = FALSE])
    PROVE  IInv'
<1>0. DataInv /\ Typed BY DEF IInv, DataInv
<1>1. /\ loop \in Loops /\ i \notin loop.todo /\ loop.todo \subseteq Rows
      /\ Queued(transfers, loop.phase, i) /\ i \in Nat /\ i # 0
      /\ \A j \in loop.todo : Queued(transfers, loop.phase, j)
      /\ transfers[i].status \in Active
  BY RowAtHand
<1>2. transfers[i].status \notin Retrievable BY <1>1, Disjoint
<1>3. /\ DataInv' /\ Len(transfers') = Len(transfers)
      /\ transfers'[i] = r /\ \A j \in Rows \ {i} : transfers'[j] = transfers[j]
  BY <1>0, <1>2, RowChanges
<1>4. Len(transfers) \in Nat /\ Rows = 1 .. Len(transfers) /\ current' = current
      /\ retrieval' = retrieval
  BY <1>0, RowTypes DEF Rows, documents
<1>5. RetrievalFine(retrieval', transfers', current')
  <2>1. RetrievalFine(retrieval, transfers, current) BY DEF IInv
  <2>2. \A j \in 1 .. Len(transfers) :
           /\ transfers'[j].of = transfers[j].of
           /\ transfers[j].status \in Retrievable => transfers'[j].status \in Retrievable
           /\ current[transfers[j].of] = current[transfers[j].of] \/ transfers[j].of \notin Documents
    BY <1>2, <1>3, <1>4
  <2>3. Len(transfers') \in Nat /\ Len(transfers) <= Len(transfers') BY <1>3, <1>4
  <2> QED BY <1>4, <2>1, <2>2, <2>3, RetrievalUndisturbed
<1>6. loop.todo \subseteq 1 .. Len(transfers')
      /\ \A j \in loop.todo : Queued(transfers', loop.phase, j)
  BY <1>1, <1>3, <1>4 DEF Queued
<1>7. CASE loop' = [loop EXCEPT !.txn = FALSE] /\ loop.pc = "work" /\ r.status \in Active
  <2>1. /\ loop' \in Loops /\ loop'.todo = loop.todo /\ loop'.at = i /\ loop'.pc = "work"
        /\ loop'.phase = loop.phase
    BY <1>1, <1>7 DEF Loops
  <2>2. Queued(transfers', loop.phase, i) BY <1>1, <1>3, <1>7 DEF Queued
  <2>3. LoopFine(loop', transfers', current') BY <1>1, <1>3, <1>4, <1>6, <2>1, <2>2 DEF LoopFine
  <2> QED BY <1>3, <1>5, <2>3 DEF IInv
<1>8. CASE loop' \in Onward(loop) \/ loop' \in Onward([loop EXCEPT !.txn = FALSE])
  <2>1. PICK l : l \in {loop, [loop EXCEPT !.txn = FALSE]} /\ loop' \in Onward(l) BY <1>8
  <2>2. l \in Loops /\ l.todo = loop.todo /\ l.phase = loop.phase BY <1>1, <2>1 DEF Loops
  <2>3. LoopFine(loop', transfers', current') BY <1>6, <2>1, <2>2, GoesOnward
  <2> QED BY <1>3, <1>5, <2>3 DEF IInv
<1> QED BY <1>7, <1>8

LEMMA AtWork ==
    ASSUME IInv, NEW i \in Rows, NEW s, Working(i, s)
    PROVE  /\ loop.at = i /\ loop.phase # "dehydration" /\ loop.pc = "work"
           /\ transfers[i].status = s /\ transfers[i] \in Transfers
           /\ RowFine(transfers[i])
           /\ holds \in Nat /\ requests \in Nat /\ faults \in Nat
BY RowAtHand DEF Working, IInv, DataInv, Typed, RowsFine

LEMMA LockStep == ASSUME IInv, NEW i \in Rows, Lock(i) PROVE IInv'
<1> DEFINE r == [transfers[i] EXCEPT !.status = "locked"]
<1>1. Working(i, "pending") BY DEF Lock
<1>2. /\ r \in Transfers /\ r.of = transfers[i].of /\ r.copy = transfers[i].copy
      /\ r.status = "locked"
  BY <1>1, AtWork DEF Transfers, Statuses, Active
<1>3. /\ transfers' = [transfers EXCEPT ![i] = r] /\ loop' = [loop EXCEPT !.txn = FALSE]
      /\ UNCHANGED <<documents, live, rendered, retrieval, holds, requests, faults>>
  BY DEF Lock, Commit, bounds
<1> HIDE DEF r
<1>4. r.status \notin Taken /\ r.status \in Active BY <1>2 DEF Taken, Retrievable, Active
<1> QED BY <1>1, <1>2, <1>3, <1>4, AtWork, LoopChangesRow

LEMMA CopyDocumentStep == ASSUME IInv, NEW i \in Rows, CopyDocument(i) PROVE IInv'
<1> DEFINE d == transfers[i].of
           r == [transfers[i] EXCEPT !.status = "copied", !.copy = current[d]]
<1>1. Working(i, "locked") /\ d \in Documents BY DEF CopyDocument
<1>2. current[d] \in Copies BY <1>1 DEF IInv, DataInv, Typed, Copies
<1>3. /\ r \in Transfers /\ r.of = d /\ r.copy = current[d] /\ r.status = "copied"
  BY <1>1, <1>2, AtWork DEF Transfers, Statuses, Active
<1>4. /\ transfers' = [transfers EXCEPT ![i] = r] /\ loop' = [loop EXCEPT !.txn = FALSE]
      /\ UNCHANGED <<documents, live, rendered, retrieval, holds, requests, faults>>
  BY DEF CopyDocument, Commit, VersionOf, bounds
<1> HIDE DEF r
<1>5. r.status \in Active BY <1>3 DEF Active
<1> QED BY <1>1, <1>3, <1>4, <1>5, AtWork, LoopChangesRow

(* What a package takes is the content of the versions at closure.         *)
LEMMA PackageIs ==
    ASSUME IInv, NEW c \in Cases, due[c], Packable(c)
    PROVE  PackageOf(c) = snapshot[c] /\ snapshot[c] \in Copies
<1>1. snapshot[c] \in [RefsOf[c] -> Versions] BY DEF IInv, DataInv, Typed, ClosedFirst
<1>2. RefsOf[c] \subseteq Documents BY ArchivalAssumption
<1>3. \A d \in RefsOf[c] : live[d][snapshot[c][d]] = snapshot[c][d]
  BY <1>1, <1>2 DEF IInv, DataInv, Contents, Packable
<1>4. PackageOf(c) = snapshot[c] BY <1>1, <1>3 DEF PackageOf
<1>5. snapshot[c] \in [RefsOf[c] -> Versions \cup {None}] BY <1>1
<1> QED BY <1>4, <1>5 DEF Copies

LEMMA CopyCaseStep == ASSUME IInv, NEW i \in Rows, CopyCase(i) PROVE IInv'
<1> DEFINE c == transfers[i].of
           r == [transfers[i] EXCEPT !.status = "copied", !.copy = PackageOf(c)]
<1>1. Working(i, "locked") /\ c \in Cases /\ Packable(c) BY DEF CopyCase
<1>2. PackageOf(c) = snapshot[c] /\ snapshot[c] \in Copies
  BY <1>1, AtWork, PackageIs DEF RowFine
<1>3. c \notin Documents BY <1>1, ArchivalAssumption
<1>4. /\ r \in Transfers /\ r.of = c /\ r.copy = snapshot[c] /\ r.status = "copied"
  BY <1>1, <1>2, AtWork DEF Transfers, Statuses, Active
<1>5. /\ transfers' = [transfers EXCEPT ![i] = r] /\ loop' = [loop EXCEPT !.txn = FALSE]
      /\ UNCHANGED <<documents, live, rendered, retrieval, holds, requests, faults>>
  BY DEF CopyCase, Commit, bounds
<1> HIDE DEF r
<1>6. r.status \in Active BY <1>4 DEF Active
<1> QED BY <1>1, <1>3, <1>4, <1>5, <1>6, AtWork, LoopChangesRow

LEMMA VerifyStep == ASSUME IInv, NEW i \in Rows, Verify(i) PROVE IInv'
<1> DEFINE r == [transfers[i] EXCEPT !.status = "verified"]
<1>1. Working(i, "copied") BY DEF Verify
<1>2. /\ r \in Transfers /\ r.of = transfers[i].of /\ r.copy = transfers[i].copy
      /\ r.status = "verified"
  BY <1>1, AtWork DEF Transfers, Statuses, Active
<1>3. /\ transfers' = [transfers EXCEPT ![i] = r] /\ loop' = [loop EXCEPT !.txn = FALSE]
      /\ UNCHANGED <<documents, live, rendered, retrieval, holds, requests, faults>>
  BY DEF Verify, Commit, bounds
<1> HIDE DEF r
<1>4. r.status \in Active BY <1>2 DEF Active
<1>5. IF r.of \in Documents THEN r.copy = current[r.of] ELSE r.copy = snapshot[r.of]
  BY <1>1, <1>2, AtWork DEF RowFine, Taken
<1> QED BY <1>1, <1>2, <1>3, <1>4, <1>5, AtWork, LoopChangesRow

LEMMA MarkArchivedStep == ASSUME IInv, NEW i \in Rows, MarkArchived(i) PROVE IInv'
<1> DEFINE x == transfers[i].of
<1>0. Typed /\ Contents /\ RowsFine /\ ClosedFirst /\ PackageIsClosure BY DEF IInv, DataInv
<1>1. Working(i, "verified") BY DEF MarkArchived
<1>2. /\ archived' = [archived EXCEPT ![x] = TRUE] /\ loop' = [loop EXCEPT !.pc = "release"]
      /\ UNCHANGED <<due, current, dehydrated, held, snapshot, live, rendered, transfers,
                     retrieval, holds, requests, faults>>
  BY DEF MarkArchived, bounds
<1>3. x \in Items /\ (x \in Cases => transfers[i].copy = snapshot[x])
  BY <1>0, <1>1, AtWork, RowTypes DEF RowFine, Taken
<1>4. archived' \in [Items -> BOOLEAN] /\ \A y \in Items \ {x} : archived'[y] = archived[y]
  BY <1>0, <1>2 DEF Typed
<1>5. Typed' BY <1>0, <1>2, <1>4 DEF Typed
<1>6. RowsFine' /\ ClosedFirst' /\ Contents'
  BY <1>0, <1>2 DEF RowsFine, RowFine, Rows, ClosedFirst, Contents, RetrievableRow
<1>7. PackageIsClosure'
  <2> SUFFICES ASSUME NEW c \in Cases, archived'[c]
               PROVE  \E j \in Rows : transfers[j].of = c /\ transfers[j].copy = snapshot[c]
    BY <1>2 DEF PackageIsClosure, Rows
  <2>1. CASE c = x BY <1>3, <2>1
  <2>2. CASE c # x
    <3>1. archived[c] BY <1>4, <2>2 DEF Items
    <3> QED BY <1>0, <3>1 DEF PackageIsClosure
  <2> QED BY <2>1, <2>2
<1>8. LoopFine(loop', transfers', current')
  <2>1. loop \in Loops BY <1>1, AtWork, RowAtHand
  <2>2. /\ loop' \in Loops /\ loop'.at = i /\ loop'.todo = loop.todo /\ loop'.pc = "release"
        /\ loop'.phase = loop.phase /\ loop.phase # "dehydration" /\ loop.at = i
        /\ transfers[i].status = "verified"
    BY <1>1, <1>2, <2>1, AtWork DEF Loops
  <2>3. LoopFine(loop, transfers, current) BY DEF IInv
  <2> QED BY <1>2, <2>2, <2>3, RowAtHand DEF LoopFine, Rows
<1> QED BY <1>2, <1>5, <1>6, <1>7, <1>8 DEF IInv, DataInv

LEMMA ReleaseStep == ASSUME IInv, NEW i \in Rows, Release(i) PROVE IInv'
<1> DEFINE r == [transfers[i] EXCEPT !.status = "released"]
<1>1. loop.pc = "release" /\ loop.at = i BY DEF Release
<1>2. /\ transfers[i].status = "verified" /\ loop.phase # "dehydration"
      /\ transfers[i] \in Transfers /\ RowFine(transfers[i])
      /\ holds \in Nat /\ requests \in Nat /\ faults \in Nat
  BY <1>1, RowAtHand DEF IInv, LoopFine, DataInv, Typed, RowsFine
<1>3. /\ r \in Transfers /\ r.of = transfers[i].of /\ r.copy = transfers[i].copy
  BY <1>2 DEF Transfers, Statuses, Retrievable
<1>4. /\ transfers' = [transfers EXCEPT ![i] = r]
      /\ loop' \in Onward([loop EXCEPT !.txn = FALSE])
      /\ UNCHANGED <<documents, live, rendered, retrieval, holds, requests, faults>>
  <2>1. transfers' = [transfers EXCEPT ![i].status = "released"] BY DEF Release
  <2> QED BY <2>1 DEF Release, bounds
<1> HIDE DEF r
<1>5. IF r.of \in Documents THEN r.copy = current[r.of] ELSE r.copy = snapshot[r.of]
  BY <1>2, <1>3 DEF RowFine, Taken
<1> QED BY <1>1, <1>2, <1>3, <1>4, <1>5, LoopChangesRow

(* The loop goes on, to the next row or the next phase.                    *)
LEMMA LoopGoesOn ==
    ASSUME IInv, UNCHANGED <<documents, live, rendered, transfers, retrieval>>,
           holds' \in Nat, requests' \in Nat, faults' \in Nat,
           \/ loop' \in Onward(loop)
           \/ \E phase \in DOMAIN NextPhase : loop' = Enter(phase)
    PROVE  IInv'
<1>0. DataInv /\ Typed BY DEF IInv, DataInv
<1>1. DataInv' BY <1>0, DataAtRest DEF documents, Typed
<1>2. LoopFine(loop', transfers', current')
  <2>1. CASE loop' \in Onward(loop)
    <3>1. /\ loop \in Loops /\ loop.todo \subseteq 1 .. Len(transfers)
          /\ \A j \in loop.todo : Queued(transfers, loop.phase, j)
      BY DEF IInv, LoopFine
    <3> QED BY <2>1, <3>1, GoesOnward
  <2>2. CASE \E phase \in DOMAIN NextPhase : loop' = Enter(phase) BY <2>2, Begins
  <2> QED BY <2>1, <2>2
<1> QED BY <1>1, <1>2 DEF IInv, documents

LEMMA FailStep ==
    ASSUME IInv, NEW i \in Rows, loop.at = i, loop.phase # "dehydration", StepFails(i),
           UNCHANGED <<documents, live, rendered, retrieval>>,
           holds' \in Nat, requests' \in Nat, faults' \in Nat
    PROVE  IInv'
<1>1. CASE loop.txn
  <2>1. loop' = Enter(NextPhase[loop.phase]) /\ UNCHANGED transfers BY <1>1 DEF StepFails
  <2>2. NextPhase[loop.phase] \in DOMAIN NextPhase BY RowAtHand DEF Loops, NextPhase
  <2> QED BY <2>1, <2>2, LoopGoesOn
<1>2. CASE ~loop.txn
  <2> DEFINE r == Counted(transfers[i])
  <2>1. transfers' = [transfers EXCEPT ![i] = r] /\ loop' \in Onward(loop)
    BY <1>2 DEF StepFails
  <2>2. transfers[i] \in Transfers /\ RowFine(transfers[i])
    BY RowAtHand DEF IInv, DataInv, RowsFine
  <2>3. /\ r \in Transfers /\ r.of = transfers[i].of /\ r.copy = transfers[i].copy
        /\ r.status = transfers[i].status \/ r.status = "failed_permanent"
    <3> DEFINE q == transfers[i]
               n == q.attempts + 1
    <3>1. q \in Transfers /\ n \in Nat /\ "failed_permanent" \in Statuses
      BY <2>2, Disjoint DEF Transfers
    <3>2. \/ r = [q EXCEPT !.attempts = n, !.status = "failed_permanent", !.waits = FALSE]
          \/ r = [q EXCEPT !.attempts = n, !.waits = TRUE]
      BY DEF Counted
    <3> HIDE DEF r, q, n
    <3>3. /\ r \in Transfers /\ r.of = q.of /\ r.copy = q.copy
          /\ r.status = q.status \/ r.status = "failed_permanent"
      BY <3>1, <3>2 DEF Transfers
    <3> QED BY <3>3 DEF q
  <2> HIDE DEF r
  <2>4. r.status \in Taken =>
            IF r.of \in Documents THEN r.copy = current[r.of] ELSE r.copy = snapshot[r.of]
    BY <2>2, <2>3 DEF RowFine, Taken, Retrievable
  <2> QED BY <2>1, <2>3, <2>4, LoopChangesRow
<1> QED BY <1>1, <1>2

LEMMA CopyingFails ==
    ASSUME IInv, NEW i \in Rows, NotRendered(i) \/ CannotPack(i) \/ CallFails(i) PROVE IInv'
<1>0. Typed BY DEF IInv, DataInv
<1>1. CASE NotRendered(i)
  BY <1>0, <1>1, LoopGoesOn DEF NotRendered, bounds, Typed
<1>2. CASE CannotPack(i)
  BY <1>0, <1>2, AtWork, FailStep DEF CannotPack, bounds, Typed
<1>3. CASE CallFails(i)
  BY <1>0, <1>3, FailStep DEF CallFails, Fault, Typed
<1> QED BY <1>1, <1>2, <1>3

(***************************************************************************)
(* The loop takes content away.                                            *)
(***************************************************************************)
(* It goes on with the row it works on.                                    *)
LEMMA DehydrationGoesOn ==
    ASSUME IInv, NEW i \in Rows, loop.at = i, loop.phase = "dehydration", NEW l,
           l \in Loops, l.at = i, l.todo = loop.todo, l.phase = loop.phase,
           l.pc \in {"recheck", "delete", "mark", "record"},
           l.pc \in {"recheck", "delete"} => l.version = current[transfers[i].of]
    PROVE  LoopFine(l, transfers, current)
<1>1. /\ LoopFine(loop, transfers, current) /\ Queued(transfers, loop.phase, i)
  BY RowAtHand DEF IInv
<1> QED BY <1>1 DEF LoopFine, Rows

LEMMA InspectStep == ASSUME IInv, NEW i \in Rows, Inspect(i) \/ CheckAgain(i) PROVE IInv'
<1> DEFINE d == transfers[i].of
<1>0. DataInv /\ Typed BY DEF IInv, DataInv
<1>1. /\ loop.at = i /\ loop.phase = "dehydration"
      /\ UNCHANGED <<documents, live, rendered, transfers, retrieval, holds, requests, faults>>
      /\ \/ loop' \in Onward(loop)
         \/ loop' = [loop EXCEPT !.pc = "recheck", !.version = current[d]]
         \/ loop.pc = "recheck" /\ loop' = [loop EXCEPT !.pc = "delete"]
  BY DEF Inspect, CheckAgain, Dehydrating, bounds
<1>2. CASE loop' \in Onward(loop) BY <1>0, <1>1, <1>2, LoopGoesOn DEF Typed
<1>3. CASE loop' \notin Onward(loop)
  <2>1. loop \in Loops /\ d \in Documents BY <1>1, RowAtHand
  <2>2. current[d] \in Nat BY <1>0, <2>1 DEF Typed, Versions
  <2>3. loop.pc = "recheck" => loop.version = current[d] BY <1>1 DEF IInv, LoopFine
  <2>4. /\ loop' \in Loops /\ loop'.at = i /\ loop'.todo = loop.todo /\ loop'.phase = loop.phase
        /\ loop'.pc \in {"recheck", "delete"} /\ loop'.version = current[d]
    BY <1>1, <1>3, <2>1, <2>2, <2>3 DEF Loops
  <2>5. LoopFine(loop', transfers, current) BY <1>1, <2>4, DehydrationGoesOn
  <2>6. DataInv' BY <1>0, <1>1, DataAtRest DEF documents, Typed
  <2> QED BY <1>1, <2>5, <2>6 DEF IInv, documents
<1> QED BY <1>2, <1>3

LEMMA DeleteStep == ASSUME IInv, NEW i \in Rows, DeleteLive(i) PROVE IInv'
<1> DEFINE d == transfers[i].of
           v == current[d]
<1>0. DataInv /\ Typed /\ Contents /\ RowsFine /\ ClosedFirst /\ PackageIsClosure
  BY DEF IInv, DataInv
<1>1. /\ loop.at = i /\ loop.phase = "dehydration" /\ loop.pc = "delete"
      /\ live' = [live EXCEPT ![d][loop.version] = None]
      /\ loop' = [loop EXCEPT !.pc = "mark"]
      /\ UNCHANGED <<documents, rendered, transfers, retrieval, holds, requests, faults>>
  BY DEF DeleteLive, Dehydrating, bounds
<1>2. loop \in Loops /\ d \in Documents /\ transfers[i].status \in Retrievable
  BY <1>1, RowAtHand
<1>3. loop.version = v BY <1>1 DEF IInv, LoopFine
<1>4. v \in Versions BY <1>0, <1>2 DEF Typed
<1>5. live' = [live EXCEPT ![d][v] = None] BY <1>1, <1>3
<1>6. RetrievableRow(d) BY <1>2 DEF RetrievableRow
<1> HIDE DEF d, v
<1>7. /\ live' \in [Documents -> [Versions -> Versions \cup {None}]] /\ live'[d][v] = None
      /\ \A w \in Versions \ {v} : live'[d][w] = live[d][w]
      /\ \A e \in Documents \ {d} : live'[e] = live[e]
  BY <1>0, <1>2, <1>4, <1>5 DEF Typed
<1>8. Typed' BY <1>0, <1>1, <1>7 DEF Typed, documents
<1>9. RowsFine' /\ ClosedFirst' /\ PackageIsClosure'
  BY <1>0, <1>1 DEF RowsFine, RowFine, Rows, ClosedFirst, PackageIsClosure, documents
<1>10. Contents'
  <2>1. \A e \in Documents : RetrievableRow(e)' <=> RetrievableRow(e)
    BY <1>1 DEF RetrievableRow, Rows
  <2>2. \A e \in Documents : 1 .. current[e] \subseteq Versions
    BY <1>0, ArchivalAssumption DEF Typed, Versions
  <2>3. current' = current /\ v = current[d] BY <1>1 DEF documents, v
  <2> QED BY <1>0, <1>6, <1>7, <2>1, <2>2, <2>3 DEF Contents
<1>11. LoopFine(loop', transfers, current)
  <2>1. /\ loop' \in Loops /\ loop'.at = i /\ loop'.todo = loop.todo /\ loop'.phase = loop.phase
        /\ loop'.pc = "mark"
    BY <1>1, <1>2 DEF Loops
  <2> QED BY <1>1, <2>1, DehydrationGoesOn
<1> QED BY <1>1, <1>8, <1>9, <1>10, <1>11 DEF IInv, DataInv, documents

LEMMA MarkDehydratedStep == ASSUME IInv, NEW i \in Rows, MarkDehydrated(i) PROVE IInv'
<1>0. DataInv /\ Typed BY DEF IInv, DataInv
<1>1. /\ loop.at = i /\ loop.phase = "dehydration" /\ dehydrated' \in [Documents -> BOOLEAN]
      /\ loop' = [loop EXCEPT !.pc = "record"]
      /\ UNCHANGED <<due, archived, current, held, snapshot, live, rendered, transfers,
                     retrieval, holds, requests, faults>>
  BY <1>0 DEF MarkDehydrated, Dehydrating, bounds, Typed
<1>2. DataInv' BY <1>0, <1>1, DataAtRest DEF Typed
<1>3. LoopFine(loop', transfers, current)
  <2>1. loop \in Loops BY <1>1, RowAtHand
  <2>2. /\ loop' \in Loops /\ loop'.at = i /\ loop'.todo = loop.todo /\ loop'.phase = loop.phase
        /\ loop'.pc = "record"
    BY <1>1, <2>1 DEF Loops
  <2> QED BY <1>1, <2>2, DehydrationGoesOn
<1> QED BY <1>1, <1>2, <1>3 DEF IInv

LEMMA RecordStep == ASSUME IInv, NEW i \in Rows, Record(i) PROVE IInv'
<1> DEFINE r == [transfers[i] EXCEPT !.status = "dehydrated"]
<1>0. DataInv /\ Typed BY DEF IInv, DataInv
<1>1. /\ loop.at = i /\ loop.phase = "dehydration" /\ loop' \in Onward(loop)
      /\ UNCHANGED <<documents, live, rendered, retrieval, holds, requests, faults>>
  BY DEF Record, Dehydrating, bounds
<1>2. /\ loop \in Loops /\ i \notin loop.todo /\ loop.todo \subseteq Rows
      /\ transfers[i] \in Transfers /\ transfers[i].status \in Retrievable
      /\ \A j \in loop.todo : Queued(transfers, loop.phase, j)
  BY <1>1, RowAtHand
<1>3. /\ r \in Transfers /\ r.of = transfers[i].of /\ r.copy = transfers[i].copy
      /\ r.status \in Retrievable
  BY <1>2 DEF Transfers, Statuses, Retrievable
<1>4. transfers' = [transfers EXCEPT ![i] = r] BY DEF Record
<1> HIDE DEF r
<1>5. IF r.of \in Documents THEN r.copy = current[r.of] ELSE r.copy = snapshot[r.of]
  BY <1>0, <1>2, <1>3 DEF DataInv, RowsFine, RowFine, Taken
<1>6. /\ DataInv' /\ Len(transfers') = Len(transfers)
      /\ transfers'[i] = r /\ \A j \in Rows \ {i} : transfers'[j] = transfers[j]
  <2>1. holds' \in Nat /\ requests' \in Nat /\ faults' \in Nat BY <1>0, <1>1 DEF Typed
  <2>2. UNCHANGED <<documents, live, rendered>> BY <1>1
  <2> QED BY <1>0, <1>3, <1>4, <1>5, <2>1, <2>2, RowChanges
<1>7. Len(transfers) \in Nat /\ Rows = 1 .. Len(transfers) /\ current' = current
      /\ retrieval' = retrieval
  BY <1>0, <1>1, RowTypes DEF Rows, documents
<1>8. RetrievalFine(retrieval', transfers', current')
  <2>1. RetrievalFine(retrieval, transfers, current) BY DEF IInv
  <2>2. \A j \in 1 .. Len(transfers) :
           /\ transfers'[j].of = transfers[j].of
           /\ transfers[j].status \in Retrievable => transfers'[j].status \in Retrievable
           /\ current[transfers[j].of] = current[transfers[j].of] \/ transfers[j].of \notin Documents
    BY <1>3, <1>6, <1>7
  <2>3. Len(transfers') \in Nat /\ Len(transfers) <= Len(transfers') BY <1>6, <1>7
  <2> QED BY <1>7, <2>1, <2>2, <2>3, RetrievalUndisturbed
<1>9. loop.todo \subseteq 1 .. Len(transfers')
      /\ \A j \in loop.todo : Queued(transfers', loop.phase, j)
  BY <1>2, <1>6, <1>7 DEF Queued
<1>10. LoopFine(loop', transfers', current') BY <1>1, <1>2, <1>9, GoesOnward
<1> QED BY <1>6, <1>8, <1>10 DEF IInv

(***************************************************************************)
(* Failures.                                                               *)
(***************************************************************************)
LEMMA FailureStep ==
    ASSUME IInv, \/ DiscoveryFails \/ RetrievalFails \/ Crash
                 \/ \E i \in Rows : DehydrationFails(i)
    PROVE  IInv'
<1>0. DataInv /\ Typed BY DEF IInv, DataInv
<1>1. holds' \in Nat /\ requests' \in Nat /\ faults' \in Nat
  BY <1>0 DEF DiscoveryFails, RetrievalFails, Crash, DehydrationFails, Fault, Typed
<1>2. CASE DiscoveryFails
  <2>1. NextPhase[loop.phase] \in DOMAIN NextPhase BY <1>2 DEF DiscoveryFails, NextPhase
  <2> QED BY <1>1, <1>2, <2>1, LoopGoesOn DEF DiscoveryFails
<1>3. CASE \E i \in Rows : DehydrationFails(i) BY <1>1, <1>3, LoopGoesOn DEF DehydrationFails
<1>4. CASE RetrievalFails \/ Crash
  <2>1. /\ UNCHANGED <<documents, live, rendered, transfers>> /\ retrieval' = Idle
        /\ loop' = loop \/ loop' = Enter("documents")
    BY <1>4 DEF RetrievalFails, Crash
  <2>2. DataInv' BY <1>0, <1>1, <2>1, DataAtRest DEF documents, Typed
  <2>3. LoopFine(loop', transfers', current')
    BY <2>1, Begins DEF IInv, NextPhase, documents
  <2> QED BY <2>1, <2>2, <2>3, RetrievalEnds DEF IInv
<1> QED BY <1>2, <1>3, <1>4

LEMMA NextStep == ASSUME IInv, ~LateEdits, [Next]_vars PROVE IInv'
<1>1. CASE UNCHANGED vars
  <2>1. IInv /\ Typed BY DEF IInv, DataInv
  <2>2. DataInv' BY <1>1, <2>1, DataAtRest DEF vars, documents, bounds, IInv, Typed
  <2> QED BY <1>1, <2>2 DEF vars, documents, IInv
<1>2. CASE LoopStep
  BY <1>2, DiscoverStep, ListStep, LockStep, CopyDocumentStep, CopyCaseStep, VerifyStep,
     MarkArchivedStep, ReleaseStep, CopyingFails, InspectStep, DeleteStep, MarkDehydratedStep,
     RecordStep
  DEF LoopStep
<1>3. CASE RetrievalStep
  BY <1>3, RestoreStep, MarkRehydratedStep, RecordRetrievalStep DEF RetrievalStep
<1>4. CASE Failure BY <1>4, FailureStep, CopyingFails DEF Failure
<1>5. CASE (\E c \in Cases : CloseCase(c)) \/ \E x \in Items : RequestArchive(x)
  BY <1>5, CloseStep, RequestStep
<1>6. ASSUME NEW d \in Documents,
             \/ CheckIn(d) \/ \E on \in BOOLEAN : SetHold(d, on)
             \/ \E v \in Versions : Render(d, v)
      PROVE  IInv'
  BY <1>6, CheckInStep, HoldStep, RenderStep
<1>7. ASSUME NEW i \in Rows,
             BackoffEnds(i) \/ PeriodPasses(i) \/ RetryTransfer(i) \/ Retrieve(i)
      PROVE  IInv'
  BY <1>7, TimeStep, RetryStep, RetrieveStep
<1> QED BY <1>1, <1>2, <1>3, <1>4, <1>5, <1>6, <1>7 DEF Next

LEMMA Invariance == ASSUME ~LateEdits PROVE Spec => []IInv
<1>1. Init => IInv BY Initially
<1>2. IInv /\ [Next]_vars => IInv' BY NextStep
<1> QED BY <1>1, <1>2, PTL DEF Spec

(***************************************************************************)
(* The theorems.                                                           *)
(***************************************************************************)
(* Rows of archival-service, document-service and case-service, the poll   *)
(* loop and the retrieval are well typed.                                  *)
THEOREM TypeCorrect == ASSUME ~LateEdits PROVE Spec => []TypeOK
<1>1. ASSUME IInv PROVE TypeOK
  <2>1. Typed /\ loop \in Loops /\ retrieval \in Retrievals
    BY <1>1 DEF IInv, DataInv, LoopFine, RetrievalFine
  <2>2. ASSUME NEW i \in Rows
        PROVE  transfers[i] \in
                   [of : Items, status : Statuses, attempts : Nat, waits : BOOLEAN,
                    aged : BOOLEAN, copy : {transfers[i].copy}]
    <3>1. transfers[i] \in Transfers BY <2>1, RowTypes
    <3> QED BY <3>1 DEF Transfers
  <2>3. DOMAIN transfers = Rows BY <2>1, RowTypes
  <2> QED BY <2>1, <2>2, <2>3 DEF TypeOK, Typed
<1> QED BY <1>1, Invariance, PTL

(* Every version of a document is on the live storage, or in a copy that   *)
(* retrieve_document brings back, in whatever order transfers, retries,    *)
(* dehydration, retrievals, failures and crashes come.                     *)
THEOREM NothingIsLost == ASSUME ~LateEdits PROVE Spec => []EveryVersionKept
<1>1. ASSUME IInv PROVE EveryVersionKept
  <2> SUFFICES ASSUME NEW d \in Documents, NEW v \in 1 .. current[d]
               PROVE  Kept(d, v)
    BY DEF EveryVersionKept
  <2>1. live[d][v] = v \/ (v = current[d] /\ RetrievableRow(d))
    BY <1>1 DEF IInv, DataInv, Contents
  <2>2. ASSUME v = current[d], RetrievableRow(d) PROVE Kept(d, v)
    <3>1. PICK i \in Rows : transfers[i].of = d /\ transfers[i].status \in Retrievable
      BY <2>2 DEF RetrievableRow
    <3>2. transfers[i].copy = v
      BY <1>1, <2>2, <3>1 DEF IInv, DataInv, RowsFine, RowFine, Taken
    <3> QED BY <3>1, <3>2 DEF Kept
  <2> QED BY <2>1, <2>2 DEF Kept
<1> QED BY <1>1, Invariance, PTL

(* The package of a disposed case has the versions that were current when  *)
(* close_case took its snapshot.                                           *)
THEOREM PackagesAreClosures == ASSUME ~LateEdits PROVE Spec => []PackageIsClosure
<1>1. IInv => PackageIsClosure BY DEF IInv, DataInv
<1> QED BY <1>1, Invariance, PTL
=============================================================================
