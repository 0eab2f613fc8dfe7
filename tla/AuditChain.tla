----------------------------- MODULE AuditChain -----------------------------
(***************************************************************************)
(* audit-service: the hash chain of all events, and the ledger of forced   *)
(* deletions beside it.                                                    *)
(*                                                                         *)
(* One subscription per subject delivers its messages one at a time; the   *)
(* handlers of different subjects run concurrently, and append_lock        *)
(* serialises what they do to the chain.  A message is acknowledged after  *)
(* its handler has returned; until then JetStream may deliver it again.    *)
(* The service may stop at any step and finds a chain that an older        *)
(* release, with fewer hashed fields, has begun.                           *)
(***************************************************************************)
EXTENDS Integers, Sequences

CONSTANTS
    Events,         \* what the producers may publish, and what older releases recorded
    Subjects,       \* Settings.subjects
    SubjectOf,      \* the subject an event matches
    Forced,         \* document.force_deleted and folder.force_deleted events
    Legacy,         \* the events older releases have recorded, in order
    DirectUpgrade,  \* may a release from before audit_meta be upgraded directly?
    MaxFaults       \* bound: failed handlers, lost acknowledgements, duplicates, stops

None == "none"

ASSUME AuditAssumption ==
    /\ SubjectOf \in [Events -> Subjects]
    /\ Forced \subseteq Events
    /\ Legacy \in Seq(Events)
    /\ \A i, j \in DOMAIN Legacy : Legacy[i] = Legacy[j] => i = j
    /\ DirectUpgrade \in BOOLEAN
    /\ MaxFaults \in Nat
    /\ None \notin Subjects

VARIABLES
    chain,          \* audit_event, in the order of id
    meta,           \* the audit_meta row, or NoMeta
    ledger,         \* lines of deletion-register.jsonl
    published,      \* the messages in the streams
    acked,          \* those acknowledged for the durable consumer
    streams,        \* the subjects a stream covers: some producer has started
    running,        \* the service is up
    pending,        \* the subjects start_consuming has not come to yet
    subscribed,     \* the subjects it consumes
    handler,        \* handler[s]: the message being handled
    lock,           \* append_lock: the subject whose handler holds it
    faults

stored == <<chain, meta, ledger>>
bus == <<published, streams>>
service == <<running, pending, subscribed>>
vars == <<stored, bus, acked, service, handler, lock, faults>>

(***************************************************************************)
(* Rows and hashes.  A hash is the sequence of everything hashed so far,   *)
(* which makes it injective: a changed or missing row changes every hash   *)
(* after it.  Of the hashed fields only those are named whose presence     *)
(* depends on the release that wrote the row.                              *)
(***************************************************************************)
Fields(e, withActor, withOnBehalfOf) ==
    [event |-> e, actor |-> withActor, onBehalfOf |-> withOnBehalfOf]

ComputeHash(prev, fields) == Append(prev, fields)

GenesisHash == <<>>

RowOf(e, prev, fields) == [event |-> e, prev |-> prev, hash |-> ComputeHash(prev, fields)]

HeadHash(c) == IF c = <<>> THEN GenesisHash ELSE c[Len(c)].hash

Recorded(c) == {c[i].event : i \in DOMAIN c}

(***************************************************************************)
(* The cutovers: up to which row a field is not part of the hash.  A NULL  *)
(* is the on_behalf_of column that the new release has just added.         *)
(***************************************************************************)
Null == -1
NoMeta == [actor |-> Null, onBehalfOf |-> Null]

ActorCutover(m, c) ==
    IF m = NoMeta THEN [actor |-> Len(c), onBehalfOf |-> 0] ELSE m

(* A row the new release inserts has 0 in the column: the default of the   *)
(* model, which is right for the empty chain of a new installation only.   *)
OnBehalfOfCutover(m, c) ==
    IF m.onBehalfOf = Null THEN [m EXCEPT !.onBehalfOf = Len(c)] ELSE m

Cutovers(m, c) == OnBehalfOfCutover(ActorCutover(m, c), c)

Verifies(c, m) ==
    \A i \in DOMAIN c :
        LET prev == IF i = 1 THEN GenesisHash ELSE c[i - 1].hash IN
        /\ c[i].prev = prev
        /\ c[i].hash = ComputeHash(prev, Fields(c[i].event, i > m.actor, i > m.onBehalfOf))

(***************************************************************************)
(* Initial states: what an older release can have left.  The first `bare'  *)
(* rows have neither field, the others the actor; the meta row exists as   *)
(* soon as a release that knows the actor has run.                         *)
(***************************************************************************)
LegacyHash(bare, n) == [j \in 1..n |-> Fields(Legacy[j], j > bare, FALSE)]

LegacyChain(bare) ==
    [i \in 1..Len(Legacy) |->
        [event |-> Legacy[i], prev |-> LegacyHash(bare, i - 1), hash |-> LegacyHash(bare, i)]]

LegacyEvents == {Legacy[i] : i \in DOMAIN Legacy}

Idle == [pc |-> "idle", event |-> None, prev |-> GenesisHash]

Init ==
    /\ \E bare \in 0..Len(Legacy) :
          /\ chain = LegacyChain(bare)
          /\ \/ meta = [actor |-> bare, onBehalfOf |-> Null]
             \/ meta = NoMeta /\ bare = Len(Legacy) /\ (bare > 0 => DirectUpgrade)
    /\ ledger = <<>>
    /\ published = LegacyEvents
    /\ acked = LegacyEvents
    /\ streams = {SubjectOf[e] : e \in LegacyEvents}
    /\ running = FALSE
    /\ pending = {}
    /\ subscribed = {}
    /\ handler = [s \in Subjects |-> Idle]
    /\ lock = None
    /\ faults = 0

Fault == faults < MaxFaults /\ faults' = faults + 1

(***************************************************************************)
(* Producers: the first start of a producer creates its stream.            *)
(***************************************************************************)
AddStream(s) ==
    /\ s \notin streams
    /\ streams' = streams \cup {s}
    /\ UNCHANGED <<stored, published, acked, service, handler, lock, faults>>

Publish(e) ==
    /\ SubjectOf[e] \in streams
    /\ e \notin published
    /\ published' = published \cup {e}
    /\ UNCHANGED <<stored, streams, acked, service, handler, lock, faults>>

(***************************************************************************)
(* The life of the service.                                                *)
(***************************************************************************)
Start ==
    /\ ~running
    /\ running' = TRUE
    /\ meta' = Cutovers(meta, chain)
    /\ pending' = Subjects
    /\ UNCHANGED <<chain, ledger, bus, acked, subscribed, handler, lock, faults>>

(* A subject without a stream is skipped, until the next start.            *)
Subscribe(s) ==
    /\ s \in pending
    /\ pending' = pending \ {s}
    /\ subscribed' = subscribed \cup ({s} \cap streams)
    /\ UNCHANGED <<stored, bus, acked, running, handler, lock, faults>>

Stop ==
    /\ running
    /\ Fault
    /\ running' = FALSE
    /\ pending' = {}
    /\ subscribed' = {}
    /\ handler' = [s \in Subjects |-> Idle]
    /\ lock' = None
    /\ UNCHANGED <<stored, bus, acked>>

(***************************************************************************)
(* The handler of one subject.                                             *)
(***************************************************************************)
At(s, pc) == handler[s].pc = pc
Goto(s, pc) == handler' = [handler EXCEPT ![s].pc = pc]

(* JetStream may deliver a message again although it is acknowledged.      *)
Deliver(s, e) ==
    /\ s \in subscribed
    /\ At(s, "idle")
    /\ e \in published
    /\ SubjectOf[e] = s
    /\ IF e \in acked THEN Fault ELSE UNCHANGED faults
    /\ handler' = [handler EXCEPT ![s] = [pc |-> "lock", event |-> e, prev |-> GenesisHash]]
    /\ UNCHANGED <<stored, bus, acked, service, lock>>

(* Mutant: the handlers do not wait for one another.                       *)
AcquireShared(s) ==
    /\ At(s, "lock")
    /\ lock' = s
    /\ Goto(s, "find")
    /\ UNCHANGED <<stored, bus, acked, service, faults>>

Acquire(s) ==
    /\ At(s, "lock")
    /\ lock = None
    /\ lock' = s
    /\ Goto(s, "find")
    /\ UNCHANGED <<stored, bus, acked, service, faults>>

(* Mutant: a redelivered message is acknowledged without more ado.         *)
FindRecordedReturns(s) ==
    /\ At(s, "find")
    /\ handler[s].event \in Recorded(chain)
    /\ lock' = None
    /\ Goto(s, "ack")
    /\ UNCHANGED <<stored, bus, acked, service, faults>>

(* append_event returns at once when the event is recorded already.        *)
FindRecorded(s) ==
    /\ At(s, "find")
    /\ handler[s].event \in Recorded(chain)
    /\ lock' = None
    /\ Goto(s, "ledger")
    /\ UNCHANGED <<stored, bus, acked, service, faults>>

(* Mutant: no look for the event_id in the chain.                          *)
FindHeadAlways(s) ==
    /\ At(s, "find")
    /\ handler' = [handler EXCEPT ![s].pc = "commit", ![s].prev = HeadHash(chain)]
    /\ UNCHANGED <<stored, bus, acked, service, lock, faults>>

FindHead(s) ==
    /\ At(s, "find")
    /\ handler[s].event \notin Recorded(chain)
    /\ handler' = [handler EXCEPT ![s].pc = "commit", ![s].prev = HeadHash(chain)]
    /\ UNCHANGED <<stored, bus, acked, service, lock, faults>>

Commit(s) ==
    /\ At(s, "commit")
    /\ LET e == handler[s].event IN
          chain' = Append(chain, RowOf(e, handler[s].prev, Fields(e, TRUE, TRUE)))
    /\ lock' = None
    /\ Goto(s, "ledger")
    /\ UNCHANGED <<meta, ledger, bus, acked, service, faults>>

(* After the commit and outside the lock; a line may be written twice.     *)
AppendLedger(s) ==
    /\ At(s, "ledger")
    /\ ledger' = IF handler[s].event \in Forced THEN Append(ledger, handler[s].event)
                                                ELSE ledger
    /\ Goto(s, "ack")
    /\ UNCHANGED <<chain, meta, bus, acked, service, lock, faults>>

Ack(s) ==
    /\ At(s, "ack")
    /\ acked' = acked \cup {handler[s].event}
    /\ handler' = [handler EXCEPT ![s] = Idle]
    /\ UNCHANGED <<stored, bus, service, lock, faults>>

AckLost(s) ==
    /\ At(s, "ack")
    /\ Fault
    /\ handler' = [handler EXCEPT ![s] = Idle]
    /\ UNCHANGED <<stored, bus, acked, service, lock>>

(* Mutant: the lock is not released on an exception.                       *)
FailKeepsLock(s) ==
    /\ handler[s].pc \in {"find", "commit", "ledger"}
    /\ Fault
    /\ handler' = [handler EXCEPT ![s] = Idle]
    /\ UNCHANGED <<stored, bus, acked, service, lock>>

(* The database or the disk raises: nothing is acknowledged, and leaving   *)
(* `async with' rolls back and releases the lock.                          *)
Fail(s) ==
    /\ handler[s].pc \in {"find", "commit", "ledger"}
    /\ Fault
    /\ handler' = [handler EXCEPT ![s] = Idle]
    /\ lock' = IF lock = s THEN None ELSE lock
    /\ UNCHANGED <<stored, bus, acked, service>>

Step(s) ==
    Acquire(s) \/ FindRecorded(s) \/ FindHead(s) \/ Commit(s) \/ AppendLedger(s) \/ Ack(s)

Next ==
    \/ \E s \in Subjects : AddStream(s) \/ Subscribe(s) \/ Step(s) \/ AckLost(s) \/ Fail(s)
    \/ \E e \in Events : Publish(e) \/ \E s \in Subjects : Deliver(s, e)
    \/ Start \/ Stop

(* The handlers run on, the lock is handed on in turn, an orchestrator     *)
(* restarts the service and JetStream delivers what is not acknowledged.   *)
Fairness ==
    /\ WF_vars(Start)
    /\ \A s \in Subjects :
          /\ WF_vars(Subscribe(s))
          /\ WF_vars(\E e \in Events \ acked : Deliver(s, e))
          /\ SF_vars(Acquire(s))
          /\ WF_vars(Step(s))

Spec == Init /\ [][Next]_vars
FairSpec == Spec /\ Fairness

----------------------------------------------------------------------------
(***************************************************************************)
(* Properties.                                                             *)
(***************************************************************************)
LedgerEntries == {ledger[i] : i \in DOMAIN ledger}

PCs == {"idle", "lock", "find", "commit", "ledger", "ack"}
Hashes == Seq([event : Events, actor : BOOLEAN, onBehalfOf : BOOLEAN])
Rows == [event : Events, prev : Hashes, hash : Hashes]

(* Every variable keeps its type, and only a running service has handlers  *)
(* at work, each on a message of its own, subscribed subject.              *)
TypeOK ==
    /\ chain \in Seq(Rows)
    /\ meta \in [actor : Nat \cup {Null}, onBehalfOf : Nat \cup {Null}]
    /\ ledger \in Seq(Forced)
    /\ acked \subseteq published /\ published \subseteq Events
    /\ streams \subseteq Subjects
    /\ running \in BOOLEAN
    /\ pending \subseteq Subjects /\ (pending # {} => running)
    /\ subscribed \subseteq streams /\ (subscribed # {} => running)
    /\ handler \in [Subjects -> [pc : PCs, event : Events \cup {None}, prev : Hashes]]
    /\ \A s \in Subjects : ~At(s, "idle") =>
          /\ s \in subscribed
          /\ handler[s].event \in published
          /\ SubjectOf[handler[s].event] = s
    /\ lock \in Subjects \cup {None}
    /\ faults \in 0..MaxFaults

(* verify_chain succeeds whenever it can be called: concurrent handlers,   *)
(* redeliveries, crashes and the rows of older releases notwithstanding.   *)
ChainVerifies == running => Verifies(chain, meta)

(* An event JetStream will not deliver again is in the chain, and in the   *)
(* deletion register when it reports a forced deletion (of the events this *)
(* release has consumed): a crash between the two loses neither.           *)
AckedIsRecorded ==
    \A e \in acked :
        /\ e \in Recorded(chain)
        /\ e \in Forced \ LegacyEvents => e \in LedgerEntries

(* The chain and the register implement the abstract log.                  *)
Log == INSTANCE AuditLog WITH
           log <- [i \in DOMAIN chain |-> chain[i].event],
           register <- LedgerEntries

ImplementsLog == Log!Spec

(* What is published on a subject the service consumes is recorded, and    *)
(* registered, in the end.                                                 *)
EventsRecorded ==
    \A e \in Events :
        (e \in published \ LegacyEvents /\ SubjectOf[e] \in subscribed) ~>
            (e \in Recorded(chain) /\ (e \in Forced => e \in LedgerEntries))
=============================================================================
