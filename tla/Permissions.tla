----------------------------- MODULE Permissions -----------------------------
(***************************************************************************)
(* permission-service: roles and groups along the resource hierarchy, the  *)
(* materialised cache of effective permissions, scope locks, and the       *)
(* mirror of the hierarchy kept by structure events.                       *)
(*                                                                         *)
(* /check reads the cache or climbs the ancestors of the resource, one     *)
(* SELECT after another, and stores what it found; every change of a role, *)
(* a group or a resource clears the cache in its own transaction.          *)
(* Structure events arrive in the order of their stream unless a handler   *)
(* raises: its message comes again, after later ones.                      *)
(***************************************************************************)
EXTENDS Naturals, Sequences, FiniteSets

CONSTANTS
    Clients,        \* callers of /check
    Principals,
    Groups,
    Everyone,       \* the group every principal belongs to
    Roles,
    Permissions_,   \* the sets of permissions a role may be given
    FirstTree,      \* an installation that has been running for a while: its tree,
    FirstAssigned,  \* its role assignments
    FirstPerms,     \* and its roles
    Root,
    Folders,
    Documents,
    Capabilities,   \* what clients ask for: "folder.read", "folder.write"
    Asked,          \* the resources they ask about
    Overlapping,    \* may grants change while a check climbs the hierarchy?
    MaxChanges,     \* bound: changes of roles, groups and inheritance
    MaxLocks,       \* bound: scope locks
    MaxMoves,       \* bound: changes of the hierarchy by its owners
    MaxFaults,      \* bound: handlers that raise, lost acknowledgements
    None

Resources == Folders \cup Documents
Nodes == {Root} \cup Resources
HolderIds == Principals \cup Groups \cup {Everyone}

(* resource_node.                                                          *)
Rows == [parent : Nodes \cup {None}, inherit : BOOLEAN]

ASSUME PermissionsAssumption ==
    /\ Root \notin Resources
    /\ None \notin Nodes
    /\ None \notin Permissions_ /\ None \notin Rows
    /\ FirstTree \in [Resources -> {Root} \cup Folders]
    /\ FirstPerms \in [Roles -> Permissions_]
    /\ FirstAssigned \subseteq HolderIds \X Roles \X Nodes
    /\ Asked \subseteq Nodes
    /\ Overlapping \in BOOLEAN
    /\ MaxChanges \in Nat /\ MaxLocks \in Nat /\ MaxMoves \in Nat /\ MaxFaults \in Nat

VARIABLES
    tree,           \* tree[r]: the parent of r in the service that owns it
    stream,         \* stream[o]: the structure events of owner o, oldest first
    late,           \* the events that will be delivered again
    node,           \* node[n]: the resource_node row, or None
    assigned,       \* the role_assignment rows <<holder, role, resource>>
    perms,          \* perms[r]: the permissions of a role, or None
    group,          \* group[g]: "new", "live" or "gone"
    member,         \* the group_membership rows <<group, principal>>
    lock,           \* lock[n]: its active scope lock; "over" when only old rows remain
    cache,          \* effective_permission_cache
    ask,            \* ask[c]: the question of client c
    check,          \* check[c]: how far its request has come
    verdict,        \* verdict[c]: the answer
    changes, locks, moves, faults

owners == <<tree, stream, moves>>
bus == <<stream, late, faults>>
roles == <<assigned, perms, group, member>>
scopes == <<lock, locks>>
requests == <<ask, check, verdict>>
vars == <<tree, bus, node, roles, scopes, cache, requests, changes, moves>>

(* The abstract specification, whose operators say what an answer means.   *)
Access == INSTANCE AccessControl

Asleep == [pc |-> "idle", at |-> None, holders |-> {}, entry |-> {}]
Nothing == [principal |-> None, resource |-> None, capability |-> None]
NoCache == [p \in Principals |-> [n \in Nodes |-> None]]

Questions == [principal : Principals, resource : Nodes, capability : Capabilities]
Requests == [pc : {"idle", "cached", "climb"}, at : Nodes \cup {None},
             holders : SUBSET HolderIds, entry : SUBSET UNION Permissions_]

RootRow == [parent |-> None, inherit |-> TRUE]

(* A first start creates the root node only (and roles assigned there); an *)
(* administrator may have gone on to create groups.                        *)
Fresh ==
    /\ tree = [r \in Resources |-> "new"]
    /\ node = [n \in Nodes |-> IF n = Root THEN RootRow ELSE None]
    /\ assigned = {}
    /\ perms = [r \in Roles |-> None]
    /\ group \in [Groups -> {"new", "live"}]
    /\ member = {}

(* Later the mirror, the roles and the groups have been filled.            *)
Running ==
    /\ tree = FirstTree
    /\ node = [n \in Nodes |-> IF n = Root THEN RootRow
                               ELSE [parent |-> FirstTree[n], inherit |-> TRUE]]
    /\ assigned = FirstAssigned
    /\ perms = FirstPerms
    /\ group = [g \in Groups |-> "live"]
    /\ member = Groups \X Principals

Init ==
    /\ Fresh \/ Running
    /\ stream = [o \in {"folder", "document"} |-> << >>]
    /\ late = {}
    /\ lock = [n \in Nodes |-> "none"]
    /\ cache = NoCache
    /\ ask = [c \in Clients |-> Nothing]
    /\ check = [c \in Clients |-> Asleep]
    /\ verdict = [c \in Clients |-> "none"]
    /\ changes = 0 /\ locks = 0 /\ moves = 0 /\ faults = 0

Climbing == \E c \in Clients : check[c].pc # "idle"
MayChange == Overlapping \/ ~Climbing

Change == MayChange /\ changes < MaxChanges /\ changes' = changes + 1
Fault == faults < MaxFaults /\ faults' = faults + 1

(* invalidate_cache: coarse on purpose.                                    *)
InvalidateCache == cache' = NoCache

(***************************************************************************)
(* Roles, groups and assignments.                                          *)
(***************************************************************************)
(* No cache entry can depend on a role that is not assigned yet.           *)
CreateRole(r, ps) ==
    /\ Change
    /\ perms[r] = None
    /\ perms' = [perms EXCEPT ![r] = ps]
    /\ UNCHANGED <<tree, bus, node, assigned, group, member, scopes, cache, requests, moves>>

(* Mutant: update_role as it was before the invalidation was added.        *)
UpdateRoleCached(r, ps) ==
    /\ Change
    /\ perms[r] # None
    /\ perms' = [perms EXCEPT ![r] = ps]
    /\ UNCHANGED <<tree, bus, node, assigned, group, member, scopes, cache, requests, moves>>

UpdateRole(r, ps) ==
    /\ Change
    /\ perms[r] # None
    /\ perms' = [perms EXCEPT ![r] = ps]
    /\ InvalidateCache
    /\ UNCHANGED <<tree, bus, node, assigned, group, member, scopes, requests, moves>>

CreateRoleAssignment(h, r, n) ==
    /\ Change
    /\ node[n] # None
    /\ perms[r] # None
    /\ assigned' = assigned \cup {<<h, r, n>>}
    /\ InvalidateCache
    /\ UNCHANGED <<tree, bus, node, perms, group, member, scopes, requests, moves>>

DeleteRoleAssignment(a) ==
    /\ Change
    /\ assigned' = assigned \ {a}
    /\ InvalidateCache
    /\ UNCHANGED <<tree, bus, node, perms, group, member, scopes, requests, moves>>

CreateGroup(g) ==
    /\ Change
    /\ group[g] = "new"
    /\ group' = [group EXCEPT ![g] = "live"]
    /\ UNCHANGED <<tree, bus, node, assigned, perms, member, scopes, cache, requests, moves>>

(* The assignments of the group stay, and match nobody any more.           *)
DeleteGroup(g) ==
    /\ Change
    /\ group[g] = "live"
    /\ group' = [group EXCEPT ![g] = "gone"]
    /\ member' = {m \in member : m[1] # g}
    /\ InvalidateCache
    /\ UNCHANGED <<tree, bus, node, assigned, perms, scopes, requests, moves>>

AddGroupMember(g, p) ==
    /\ Change
    /\ group[g] = "live"
    /\ <<g, p>> \notin member
    /\ member' = member \cup {<<g, p>>}
    /\ InvalidateCache
    /\ UNCHANGED <<tree, bus, node, assigned, perms, group, scopes, requests, moves>>

RemoveGroupMember(m) ==
    /\ Change
    /\ member' = member \ {m}
    /\ InvalidateCache
    /\ UNCHANGED <<tree, bus, node, assigned, perms, group, scopes, requests, moves>>

SetResourceInherit(n, inherit) ==
    /\ Change
    /\ node[n] # None
    /\ node[n].inherit # inherit
    /\ node' = [node EXCEPT ![n].inherit = inherit]
    /\ InvalidateCache
    /\ UNCHANGED <<tree, bus, roles, scopes, requests, moves>>

(***************************************************************************)
(* Scope locks overlay the cached permissions and never touch the cache.   *)
(* Released and expired ones keep their rows.                              *)
(***************************************************************************)
CreateScopeLock(n, kind) ==
    /\ locks < MaxLocks /\ locks' = locks + 1
    /\ node[n] # None
    /\ lock[n] \in {"none", "over"}
    /\ lock' = [lock EXCEPT ![n] = kind]
    /\ UNCHANGED <<tree, bus, node, roles, cache, requests, changes, moves>>

(* By release_scope_lock, or because expires_at has passed.                *)
ScopeLockEnds(n) ==
    /\ lock[n] \in {"write", "all"}
    /\ lock' = [lock EXCEPT ![n] = "over"]
    /\ UNCHANGED <<tree, bus, node, roles, cache, requests, locks, changes, moves>>

(***************************************************************************)
(* The owners of the hierarchy: folder-service and document-service commit *)
(* a change and publish it.  A folder is deleted when no folder is left in *)
(* it; documents in the trash may be.                                      *)
(***************************************************************************)
Live(r) == tree[r] \in Nodes
Owner(r) == IF r \in Folders THEN "folder" ELSE "document"
Owned(r, e) ==
    /\ moves < MaxMoves /\ moves' = moves + 1
    /\ stream' = [stream EXCEPT ![Owner(r)] = Append(@, e)]
    /\ UNCHANGED <<late, faults, node, roles, scopes, cache, requests, changes>>

MayHold(n) == n = Root \/ (n \in Folders /\ Live(n))
TreeParent == [n \in Nodes |-> IF n \in Resources /\ Live(n) THEN tree[n] ELSE None]

OwnerCreates(r, n) ==
    /\ tree[r] = "new"
    /\ MayHold(n)
    /\ tree' = [tree EXCEPT ![r] = n]
    /\ Owned(r, [type |-> "created", resource |-> r, parent |-> n])

OwnerMoves(r, n) ==
    /\ Live(r)
    /\ MayHold(n) /\ n # tree[r]
    /\ r \notin Access!Reached(n, TreeParent)
    /\ tree' = [tree EXCEPT ![r] = n]
    /\ Owned(r, [type |-> "moved", resource |-> r, parent |-> n])

OwnerDeletes(r) ==
    /\ Live(r)
    /\ \A s \in Folders : tree[s] # r
    /\ tree' = [tree EXCEPT ![r] = "gone"]
    /\ Owned(r, [type |-> "deleted", resource |-> r, parent |-> None])

(***************************************************************************)
(* The mirror.                                                             *)
(***************************************************************************)
(* Mutant: create_resource_node as it was before it knew the fallback.     *)
RegisteredAsGiven(r, n) ==
    IF node[r] # None THEN node
    ELSE [node EXCEPT ![r] = [parent |-> n, inherit |-> TRUE]]

(* create_resource_node leaves an existing row alone, and registers under  *)
(* the root what has an unknown parent.                                    *)
Registered(r, n) ==
    IF node[r] # None THEN node
    ELSE [node EXCEPT ![r] = [parent |-> IF node[n] = None THEN Root ELSE n, inherit |-> TRUE]]

(* POST /resources: the owner does not wait for its own event.             *)
CreateResource(r) ==
    /\ MayChange
    /\ Live(r)
    /\ node[r] = None
    /\ node' = Registered(r, tree[r])
    /\ InvalidateCache
    /\ UNCHANGED <<tree, bus, roles, scopes, requests, changes, moves>>

(* ON DELETE CASCADE takes the rows below, but not role_assignment and     *)
(* scope_lock rows: one of those makes the statement raise.                *)
Below(r) == {n \in Nodes : node[n] # None /\ r \in Access!Reached(n, Access!Parent(node))}
Referenced(n) == lock[n] # "none" \/ \E a \in assigned : a[3] = n

(* Mutant: the constraint before ON DELETE CASCADE.                        *)
RaisesWithoutCascade(e) ==
    /\ node[e.resource] # None
    /\ \/ e.type = "moved" /\ node[e.parent] = None
       \/ e.type = "deleted" /\ \/ Referenced(e.resource)
                                \/ Below(e.resource) # {e.resource}

Raises(e) ==
    /\ node[e.resource] # None
    /\ \/ e.type = "moved" /\ node[e.parent] = None
       \/ e.type = "deleted" /\ \E n \in Below(e.resource) : Referenced(n)

Mirrored(e) ==
    IF e.type = "created" THEN Registered(e.resource, e.parent)
    ELSE IF node[e.resource] = None THEN node
    ELSE IF e.type = "moved" THEN [node EXCEPT ![e.resource].parent = e.parent]
    ELSE [n \in Nodes |-> IF n \in Below(e.resource) THEN None ELSE node[n]]

Delivered(o) == /\ stream[o] # << >>
                /\ stream' = [stream EXCEPT ![o] = Tail(@)]

Handle(e) ==
    /\ MayChange
    /\ ~Raises(e)
    /\ node' = Mirrored(e)
    /\ InvalidateCache
    /\ UNCHANGED <<tree, roles, scopes, requests, changes, moves>>

StructureEvent(o) ==
    /\ Delivered(o)
    /\ Handle(Head(stream[o]))
    /\ UNCHANGED <<late, faults>>

(* What raises is delivered again, after those that followed it.           *)
StructureEventRaises(o) ==
    /\ Delivered(o)
    /\ \/ Raises(Head(stream[o])) /\ UNCHANGED faults
       \/ Fault
    /\ late' = late \cup {Head(stream[o])}
    /\ UNCHANGED <<tree, node, roles, scopes, cache, requests, changes, moves>>

AckLost(o) ==
    /\ Delivered(o)
    /\ Handle(Head(stream[o]))
    /\ late' = late \cup {Head(stream[o])}
    /\ Fault

StructureEventAgain(e) ==
    /\ Handle(e)
    /\ late' = late \ {e}
    /\ UNCHANGED <<stream, faults>>

(***************************************************************************)
(* GET /check.                                                             *)
(***************************************************************************)
At(c, pc) == check[c].pc = pc

(* The request begins with a look into the cache and, when there is        *)
(* nothing, with the groups of the principal.                              *)
CheckBegins(c, p, n, capability) ==
    /\ At(c, "idle")
    /\ ask' = [ask EXCEPT ![c] = [principal |-> p, resource |-> n, capability |-> capability]]
    /\ verdict' = [verdict EXCEPT ![c] = "none"]
    /\ check' = [check EXCEPT ![c] =
          IF cache[p][n] # None
          THEN [pc |-> "cached", at |-> None, holders |-> {}, entry |-> cache[p][n]]
          ELSE [pc |-> "climb", at |-> n, holders |-> Access!Holders(p, member), entry |-> {}]]
    /\ UNCHANGED <<tree, bus, node, roles, scopes, cache, changes, moves>>

(* _collect_effective_roles: one node of the hierarchy.                    *)
Climb(c) ==
    /\ At(c, "climb")
    /\ check[c].at # None
    /\ LET n == check[c].at IN
          check' = [check EXCEPT ![c].at = Access!Heritage(node)[n],
                                 ![c].entry = @ \cup Access!GrantedAt(check[c].holders, n)]
    /\ UNCHANGED <<tree, bus, node, roles, scopes, cache, ask, verdict, changes, moves>>

Answer(c, entry) ==
    /\ verdict' = [verdict EXCEPT ![c] =
                      IF Access!Permits(entry, ask[c]) THEN "allowed" ELSE "denied"]
    /\ check' = [check EXCEPT ![c] = Asleep]
    /\ UNCHANGED <<tree, bus, node, roles, scopes, ask, changes, moves>>

AnswerCached(c) ==
    /\ At(c, "cached")
    /\ Answer(c, check[c].entry)
    /\ UNCHANGED cache

(* INSERT ... ON CONFLICT DO NOTHING, and read back what is there.         *)
AnswerComputed(c) ==
    /\ At(c, "climb")
    /\ check[c].at = None
    /\ LET q == ask[c]
           there == cache[q.principal][q.resource]
           entry == IF there = None THEN check[c].entry ELSE there
       IN  /\ Answer(c, entry)
           /\ cache' = [cache EXCEPT ![q.principal][q.resource] = entry]

(* The process stops: nothing of the request is committed.                 *)
CheckLost(c) ==
    /\ ~At(c, "idle")
    /\ Fault
    /\ check' = [check EXCEPT ![c] = Asleep]
    /\ UNCHANGED <<tree, stream, late, node, roles, scopes, cache, ask, verdict, changes, moves>>

-----------------------------------------------------------------------------
Administer ==
    \/ \E r \in Roles, ps \in Permissions_ : CreateRole(r, ps) \/ UpdateRole(r, ps)
    \/ \E h \in HolderIds, r \in Roles, n \in Nodes : CreateRoleAssignment(h, r, n)
    \/ \E a \in assigned : DeleteRoleAssignment(a)
    \/ \E g \in Groups : CreateGroup(g) \/ DeleteGroup(g)
    \/ \E g \in Groups, p \in Principals : AddGroupMember(g, p)
    \/ \E m \in member : RemoveGroupMember(m)
    \/ \E n \in Nodes, inherit \in BOOLEAN : SetResourceInherit(n, inherit)
    \/ \E n \in Nodes, kind \in {"write", "all"} : CreateScopeLock(n, kind)
    \/ \E n \in Nodes : ScopeLockEnds(n)

Restructure ==
    \/ \E r \in Resources, n \in Nodes : OwnerCreates(r, n) \/ OwnerMoves(r, n)
    \/ \E r \in Resources : OwnerDeletes(r) \/ CreateResource(r)
    \/ \E o \in DOMAIN stream : StructureEvent(o) \/ StructureEventRaises(o) \/ AckLost(o)
    \/ \E e \in late : StructureEventAgain(e)

CheckStep(c) == Climb(c) \/ AnswerCached(c) \/ AnswerComputed(c)

Ask(c) ==
    \E p \in Principals, n \in Asked, capability \in Capabilities :
        CheckBegins(c, p, n, capability)

Next == Administer \/ Restructure \/ \E c \in Clients : Ask(c) \/ CheckStep(c) \/ CheckLost(c)

Spec == Init /\ [][Next]_vars

Events ==
    [type : {"created", "moved"}, resource : Resources, parent : Nodes]
    \cup [type : {"deleted"}, resource : Resources, parent : {None}]

(* Requests go on, and JetStream keeps delivering what is not acknowledged *)
(* while the service also gets round to it between requests.               *)
Fairness ==
    /\ \A c \in Clients : WF_vars(CheckStep(c))
    /\ SF_vars(\E o \in DOMAIN stream :
                  StructureEvent(o) \/ StructureEventRaises(o) \/ AckLost(o))
    /\ SF_vars(\E e \in late : StructureEventAgain(e))

FairSpec == Spec /\ Fairness

-----------------------------------------------------------------------------
(* Properties.                                                             *)

(* Every variable keeps its type, and a row's parent always has a row: the *)
(* foreign key of resource_node, which every handler must respect.         *)
TypeOK ==
    /\ tree \in [Resources -> Nodes \cup {"new", "gone"}]
    /\ stream \in [{"folder", "document"} -> Seq(Events)]
    /\ late \subseteq Events
    /\ node \in [Nodes -> Rows \cup {None}]
    /\ node[Root] # None /\ node[Root].parent = None
    /\ \A n \in Nodes : node[n] # None => \/ node[n].parent = None
                                          \/ node[node[n].parent] # None
    /\ assigned \subseteq HolderIds \X Roles \X Nodes
    /\ \A a \in assigned : perms[a[2]] # None /\ node[a[3]] # None
    /\ perms \in [Roles -> Permissions_ \cup {None}]
    /\ group \in [Groups -> {"new", "live", "gone"}]
    /\ member \subseteq Groups \X Principals
    /\ \A m \in member : group[m[1]] = "live"
    /\ lock \in [Nodes -> {"none", "write", "all", "over"}]
    /\ \A n \in Nodes : lock[n] # "none" => node[n] # None
    /\ cache \in [Principals -> [Nodes -> {None} \cup SUBSET UNION Permissions_]]
    /\ ask \in [Clients -> Questions \cup {Nothing}]
    /\ check \in [Clients -> Requests]
    /\ verdict \in [Clients -> {"none", "allowed", "denied"}]
    /\ changes \in 0..MaxChanges /\ locks \in 0..MaxLocks
    /\ moves \in 0..MaxMoves /\ faults \in 0..MaxFaults

(* /check answers as the abstract specification does, cache, climb and     *)
(* concurrent checks notwithstanding.                                      *)
ImplementsAccess == Access!Spec

(* The mirror catches up: again and again every structure event has been   *)
(* handled, but for those whose resource role assignments or scope locks   *)
(* below it do not let go, or whose parent has yet to be registered.       *)
Refused(e) ==
    \/ e.type = "moved" /\ node[e.parent] = None
    \/ e.type = "deleted" /\ \E n \in Below(e.resource) : Referenced(n)

MirrorCatchesUp ==
    []<>((\A o \in DOMAIN stream : stream[o] = << >>) /\ \A e \in late : Refused(e))

=============================================================================
