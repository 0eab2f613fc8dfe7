------------------------- MODULE PermissionsProofs -------------------------
(***************************************************************************)
(* Proofs about Permissions: the rows keep their types and their foreign   *)
(* keys whatever the bus delivers, loses or delivers again; and /check     *)
(* answers as AccessControl says while no grant changes under a climb.     *)
(***************************************************************************)
EXTENDS Permissions, TLAPS

-----------------------------------------------------------------------------
(* The hierarchy.                                                          *)

(* A node reaches itself.                                                  *)
LEMMA ReachesItself ==
    ASSUME NEW next, NEW n \in Nodes
    PROVE  n \in Access!Reached(n, next)
BY DEF Access!Reached

(* What the next node reaches is reached.                                  *)
LEMMA ReachedBeyond ==
    ASSUME NEW next, NEW n \in Nodes, NEW m \in Nodes,
           next[m] \in Nodes, next[m] # None, m \in Access!Reached(n, next)
    PROVE  next[m] \in Access!Reached(n, next)
BY DEF Access!Reached, Access!ClosedUnder

LEMMA ReachedFromNext ==
    ASSUME NEW next, NEW n \in Nodes, next[n] # None
    PROVE  Access!Reached(next[n], next) \subseteq Access!Reached(n, next)
BY DEF Access!Reached, Access!ClosedUnder

(* A node that has no parent reaches nothing else.                         *)
LEMMA ReachedFromTop ==
    ASSUME NEW next, NEW n \in Nodes, next[n] = None
    PROVE  Access!Reached(n, next) = {n}
<1>1. {n} \in SUBSET Nodes /\ n \in {n} /\ Access!ClosedUnder({n}, next)
  BY DEF Access!ClosedUnder
<1>2. Access!Reached(n, next) \subseteq {n}
  BY <1>1 DEF Access!Reached
<1> QED
  BY <1>2, ReachesItself

(* One step up the hierarchy: the node, and what its parent reaches.       *)
LEMMA ReachedUnfolds ==
    ASSUME NEW next \in [Nodes -> Nodes \cup {None}], NEW n \in Nodes, next[n] # None
    PROVE  Access!Reached(n, next) = {n} \cup Access!Reached(next[n], next)
<1> DEFINE S == {n} \cup Access!Reached(next[n], next)
<1>1. next[n] \in Nodes
  OBVIOUS
<1>2. S \in SUBSET Nodes /\ n \in S
  BY DEF Access!Reached
<1>3. ASSUME NEW m \in S, next[m] # None
      PROVE  next[m] \in S
  <2>1. CASE m = n
    BY <1>1, <2>1, ReachesItself
  <2>2. CASE m \in Access!Reached(next[n], next)
    <3>1. m \in Nodes /\ next[m] \in Nodes
      BY <1>2, <1>3
    <3> QED
      BY <1>1, <1>3, <2>2, <3>1, ReachedBeyond
  <2> QED
    BY <2>1, <2>2
<1>4. Access!ClosedUnder(S, next)
  BY <1>3 DEF Access!ClosedUnder
<1>5. Access!Reached(n, next) \subseteq S
  BY <1>2, <1>4 DEF Access!Reached
<1> QED
  BY <1>5, ReachesItself, ReachedFromNext

(* The root is never below a resource: no deletion takes it.               *)
LEMMA RootStays ==
    ASSUME TypeOK, NEW r \in Resources
    PROVE  Root \notin Below(r)
<1>1. Access!Parent(node)[Root] = None /\ Root \in Nodes /\ r # Root
  BY PermissionsAssumption DEF TypeOK, Access!Parent, Nodes
<1>2. Access!Reached(Root, Access!Parent(node)) = {Root}
  BY <1>1, ReachedFromTop
<1> QED
  BY <1>1, <1>2 DEF Below

(* A row that a deletion leaves has a parent that it leaves.               *)
LEMMA ParentsStay ==
    ASSUME NEW r \in Resources, NEW n \in Nodes \ Below(r),
           node[n] # None, node[n].parent # None
    PROVE  node[n].parent \notin Below(r)
<1> DEFINE next == Access!Parent(node)
<1>1. next[n] = node[n].parent
  BY DEF Access!Parent
<1>2. r \notin Access!Reached(n, next)
  BY DEF Below
<1>3. r \notin Access!Reached(next[n], next)
  BY <1>1, <1>2, ReachedFromNext
<1> QED
  BY <1>1, <1>3 DEF Below

-----------------------------------------------------------------------------
(* Types.                                                                  *)

LEMMA NodesHold == Root \in Nodes /\ Resources \subseteq Nodes
BY DEF Nodes

LEMMA ParentsType ==
    ASSUME TypeOK
    PROVE  /\ Access!Parent(node) \in [Nodes -> Nodes \cup {None}]
           /\ Access!Heritage(node) \in [Nodes -> Nodes \cup {None}]
BY DEF TypeOK, Rows, Access!Parent, Access!Heritage

LEMMA HoldersType ==
    ASSUME TypeOK, NEW p \in Principals
    PROVE  Access!Holders(p, member) \in SUBSET HolderIds
BY DEF TypeOK, Access!Holders, HolderIds

LEMMA GrantedType ==
    ASSUME TypeOK, NEW holders, NEW n
    PROVE  Access!GrantedAt(holders, n) \in SUBSET UNION Permissions_
<1>1. \A a \in assigned : perms[a[2]] \in Permissions_
  BY DEF TypeOK
<1> QED
  BY <1>1 DEF Access!GrantedAt

LEMMA RootRowType == RootRow \in Rows /\ RootRow # None /\ RootRow.parent = None
<1>1. RootRow \in Rows
  BY DEF RootRow, Rows
<1> QED
  BY <1>1, PermissionsAssumption DEF RootRow

(* No matter what parent it names, a new row has one that exists.          *)
LEMMA RegisteredType ==
    ASSUME TypeOK, NEW r \in Resources, NEW n \in Nodes
    PROVE  /\ Registered(r, n) \in [Nodes -> Rows \cup {None}]
           /\ Registered(r, n)[Root] = node[Root]
           /\ \A m \in Nodes : node[m] # None => Registered(r, n)[m] = node[m]
           /\ \A m \in Nodes : Registered(r, n)[m] # None =>
                 \/ Registered(r, n)[m].parent = None
                 \/ Registered(r, n)[Registered(r, n)[m].parent] # None
<1>1. CASE node[r] # None
  BY <1>1 DEF TypeOK, Registered
<1>2. CASE node[r] = None
  <2> DEFINE up == IF node[n] = None THEN Root ELSE n
             row == [parent |-> up, inherit |-> TRUE]
  <2>1. up \in Nodes /\ node[up] # None /\ up # r
    BY <1>2, NodesHold DEF TypeOK
  <2>2. row \in Rows /\ row.parent = up
    BY <2>1 DEF Rows
  <2>5. row # None
    BY <2>2, PermissionsAssumption
  <2>3. Registered(r, n) = [node EXCEPT ![r] = row]
    BY <1>2 DEF Registered
  <2> HIDE DEF up, row
  <2>4. r \in Nodes /\ r # Root
    BY NodesHold, PermissionsAssumption
  <2> QED
    BY <1>2, <2>1, <2>2, <2>3, <2>4, <2>5 DEF TypeOK
<1> QED
  BY <1>1, <1>2

(* The part of TypeOK that speaks of the mirror, for rows that come next.  *)
MirrorType(rows) ==
    /\ rows \in [Nodes -> Rows \cup {None}]
    /\ rows[Root] # None /\ rows[Root].parent = None
    /\ \A n \in Nodes : rows[n] # None => rows[n].parent = None \/ rows[rows[n].parent] # None
    /\ \A a \in assigned : rows[a[3]] # None
    /\ \A n \in Nodes : lock[n] # "none" => rows[n] # None

(* What a handler that does not raise writes.                              *)
LEMMA MirroredType ==
    ASSUME TypeOK, NEW e \in Events, ~Raises(e)
    PROVE  MirrorType(Mirrored(e))
<1>0. e.resource \in Resources /\ e.resource \in Nodes /\ e.resource # Root
  BY NodesHold, PermissionsAssumption DEF Events
<1>1. CASE e.type = "created"
  <2>1. e.parent \in Nodes
    BY <1>1 DEF Events
  <2>2. Mirrored(e) = Registered(e.resource, e.parent)
    BY <1>1 DEF Mirrored
  <2> QED
    BY <1>0, <2>1, <2>2, RegisteredType DEF TypeOK, MirrorType
<1>2. CASE e.type # "created" /\ node[e.resource] = None
  <2>1. Mirrored(e) = node
    BY <1>2 DEF Mirrored
  <2> QED
    BY <2>1 DEF TypeOK, MirrorType
<1>3. CASE e.type = "moved" /\ node[e.resource] # None
  <2> DEFINE row == [node[e.resource] EXCEPT !.parent = e.parent]
  <2>1. Mirrored(e) = [node EXCEPT ![e.resource] = row]
    BY <1>3 DEF Mirrored
  <2>2. e.parent \in Nodes /\ node[e.parent] # None
    BY <1>3 DEF Events, Raises
  <2>3. row \in Rows /\ row.parent = e.parent
    <3>1. node[e.resource] \in Rows
      BY <1>0, <1>3 DEF TypeOK
    <3> QED
      BY <2>2, <3>1 DEF Rows
  <2>4. row # None
    BY <2>3, PermissionsAssumption
  <2> HIDE DEF row
  <2> QED
    BY <1>0, <1>3, <2>1, <2>2, <2>3, <2>4 DEF TypeOK, MirrorType
<1>4. CASE e.type = "deleted" /\ node[e.resource] # None
  <2> DEFINE rows == [n \in Nodes |-> IF n \in Below(e.resource) THEN None ELSE node[n]]
  <2>1. Mirrored(e) = rows
    BY <1>4 DEF Mirrored
  <2>2. \A n \in Below(e.resource) : lock[n] = "none" /\ \A a \in assigned : a[3] # n
    BY <1>4 DEF Raises, Referenced
  <2>3. Root \notin Below(e.resource)
    BY <1>0, RootStays
  <2>4. ASSUME NEW n \in Nodes, rows[n] # None, rows[n].parent # None
        PROVE  rows[rows[n].parent] # None
    <3>1. n \notin Below(e.resource) /\ rows[n] = node[n]
      BY <2>4
    <3>2. node[n].parent \in Nodes /\ node[node[n].parent] # None
      BY <2>4, <3>1 DEF TypeOK, Rows
    <3>3. node[n].parent \notin Below(e.resource)
      BY <1>0, <2>4, <3>1, ParentsStay
    <3> QED
      BY <3>1, <3>2, <3>3
  <2>5. \A a \in assigned : a[3] \in Nodes
    BY DEF TypeOK
  <2>6. rows \in [Nodes -> Rows \cup {None}]
    BY DEF TypeOK
  <2>7. rows[Root] = node[Root]
    BY <2>3, NodesHold
  <2>8. \A a \in assigned : rows[a[3]] # None
    BY <2>2, <2>5 DEF TypeOK
  <2>9. \A n \in Nodes : lock[n] # "none" => rows[n] # None
    BY <2>2 DEF TypeOK
  <2> HIDE DEF rows
  <2> QED
    BY <2>1, <2>4, <2>6, <2>7, <2>8, <2>9 DEF TypeOK, MirrorType
<1> QED
  BY <1>1, <1>2, <1>3, <1>4 DEF Events

(* What concerns the mirror apart, TypeOK says.                            *)
MirrorOK == MirrorType(node)
RolesOK ==
    /\ assigned \subseteq HolderIds \X Roles \X Nodes
    /\ \A a \in assigned : perms[a[2]] # None
    /\ perms \in [Roles -> Permissions_ \cup {None}]
    /\ group \in [Groups -> {"new", "live", "gone"}]
    /\ member \subseteq Groups \X Principals
    /\ \A m \in member : group[m[1]] = "live"
BusOK ==
    /\ tree \in [Resources -> Nodes \cup {"new", "gone"}]
    /\ stream \in [{"folder", "document"} -> Seq(Events)]
    /\ late \subseteq Events
RequestsOK ==
    /\ cache \in [Principals -> [Nodes -> {None} \cup SUBSET UNION Permissions_]]
    /\ ask \in [Clients -> Questions \cup {Nothing}]
    /\ check \in [Clients -> Requests]
    /\ verdict \in [Clients -> {"none", "allowed", "denied"}]
LockOK == lock \in [Nodes -> {"none", "write", "all", "over"}]
BoundsOK ==
    /\ changes \in 0..MaxChanges /\ locks \in 0..MaxLocks
    /\ moves \in 0..MaxMoves /\ faults \in 0..MaxFaults

LEMMA TypeParts ==
    TypeOK <=> MirrorOK /\ RolesOK /\ BusOK /\ RequestsOK /\ LockOK /\ BoundsOK
BY DEF TypeOK, MirrorOK, MirrorType, RolesOK, BusOK, RequestsOK, LockOK, BoundsOK

LEMMA TypePartsNext ==
    TypeOK' <=> MirrorOK' /\ RolesOK' /\ BusOK' /\ RequestsOK' /\ LockOK' /\ BoundsOK'
BY DEF TypeOK, MirrorOK, MirrorType, RolesOK, BusOK, RequestsOK, LockOK, BoundsOK

LEMMA NoCacheType ==
    NoCache \in [Principals -> [Nodes -> {None} \cup SUBSET UNION Permissions_]]
BY DEF NoCache

LEMMA TypeInit == Init => TypeOK
<1> SUFFICES ASSUME Init PROVE TypeOK
  OBVIOUS
<1>1. LockOK /\ BoundsOK /\ \A n \in Nodes : lock[n] = "none"
  BY PermissionsAssumption DEF Init, LockOK, BoundsOK
<1>2. RequestsOK
  <2>1. Asleep \in Requests
    BY DEF Asleep, Requests
  <2> QED
    BY <2>1, NoCacheType DEF Init, RequestsOK
<1>3. BusOK
  <2>1. tree \in [Resources -> Nodes \cup {"new", "gone"}]
    BY PermissionsAssumption DEF Init, Fresh, Running, Nodes, Resources
  <2> QED
    BY <2>1 DEF Init, BusOK
<1>4. RolesOK
  <2>1. CASE Fresh
    BY <2>1 DEF Fresh, RolesOK
  <2>2. CASE Running
    <3>1. \A a \in assigned : perms[a[2]] # None
      BY <2>2, PermissionsAssumption DEF Running
    <3>2. member \subseteq Groups \X Principals /\ \A m \in member : m[1] \in Groups
      BY <2>2 DEF Running
    <3> QED
      BY <2>2, <3>1, <3>2, PermissionsAssumption DEF Running, RolesOK
  <2> QED
    BY <2>1, <2>2 DEF Init
<1>5. MirrorOK
  <2>1. CASE Fresh
    <3>1. node = [n \in Nodes |-> IF n = Root THEN RootRow ELSE None] /\ assigned = {}
      BY <2>1 DEF Fresh
    <3> QED
      BY <1>1, <3>1, RootRowType, NodesHold DEF MirrorOK, MirrorType
  <2>2. CASE Running
    <3> DEFINE row(n) == [parent |-> FirstTree[n], inherit |-> TRUE]
    <3>1. node = [n \in Nodes |-> IF n = Root THEN RootRow ELSE row(n)]
      BY <2>2 DEF Running
    <3>2. ASSUME NEW n \in Nodes, n # Root
          PROVE  row(n) \in Rows /\ row(n).parent \in Nodes
      <4>1. n \in Resources
        BY <3>2 DEF Nodes
      <4>2. FirstTree[n] \in Nodes
        BY <4>1, PermissionsAssumption DEF Nodes, Resources
      <4> QED
        BY <4>2 DEF Rows
    <3> HIDE DEF row
    <3>3. \A n \in Nodes : node[n] \in Rows
      BY <3>1, <3>2, RootRowType
    <3>4. \A n \in Nodes : node[n] # None
      BY <3>3, PermissionsAssumption
    <3>5. \A n \in Nodes : node[n].parent = None \/ node[n].parent \in Nodes
      BY <3>1, <3>2, RootRowType
    <3>6. \A a \in assigned : a[3] \in Nodes
      BY <2>2, PermissionsAssumption DEF Running
    <3>7. node \in [Nodes -> Rows \cup {None}]
      BY <3>1, <3>3
    <3>8. node[Root] # None /\ node[Root].parent = None
      BY <3>1, RootRowType, NodesHold
    <3> QED
      BY <3>4, <3>5, <3>6, <3>7, <3>8 DEF MirrorOK, MirrorType
  <2> QED
    BY <2>1, <2>2 DEF Init
<1> QED
  BY <1>1, <1>2, <1>3, <1>4, <1>5, TypeParts

(* The requests of clients and the bounds are typed whoever acts.          *)
LEMMA ChangeType == ASSUME TypeOK, Change PROVE changes' \in 0..MaxChanges
BY PermissionsAssumption DEF TypeOK, Change

LEMMA FaultType == ASSUME TypeOK, Fault PROVE faults' \in 0..MaxFaults
BY PermissionsAssumption DEF TypeOK, Fault

LEMMA AdministerType ==
    ASSUME TypeOK, Administer
    PROVE  TypeOK'
<1> USE TypePartsNext, TypeParts
<1>1. ASSUME NEW r \in Roles, NEW ps \in Permissions_, CreateRole(r, ps) \/ UpdateRole(r, ps)
      PROVE  TypeOK'
  <2>1. RolesOK'
    <3>1. perms' = [perms EXCEPT ![r] = ps] /\ UNCHANGED <<assigned, group, member>>
      BY <1>1 DEF CreateRole, UpdateRole
    <3>2. \A a \in assigned : a[2] \in Roles
      BY DEF RolesOK
    <3>3. ps # None
      BY PermissionsAssumption
    <3> QED
      BY <3>1, <3>2, <3>3 DEF RolesOK
  <2>2. RequestsOK'
    BY <1>1, NoCacheType DEF CreateRole, UpdateRole, InvalidateCache, RequestsOK, requests
  <2> QED
    BY <1>1, <2>1, <2>2, ChangeType
    DEF CreateRole, UpdateRole, bus, scopes, MirrorOK, MirrorType, BusOK, LockOK, BoundsOK
<1>2. ASSUME NEW h \in HolderIds, NEW r \in Roles, NEW n \in Nodes, CreateRoleAssignment(h, r, n)
      PROVE  TypeOK'
  <2>1. RolesOK'
    BY <1>2 DEF CreateRoleAssignment, RolesOK
  <2>2. MirrorOK'
    BY <1>2 DEF CreateRoleAssignment, MirrorOK, MirrorType, scopes
  <2>3. RequestsOK'
    BY <1>2, NoCacheType DEF CreateRoleAssignment, InvalidateCache, RequestsOK, requests
  <2> QED
    BY <1>2, <2>1, <2>2, <2>3, ChangeType
    DEF CreateRoleAssignment, bus, scopes, BusOK, LockOK, BoundsOK
<1>3. ASSUME NEW a \in assigned, DeleteRoleAssignment(a)
      PROVE  TypeOK'
  <2>1. RolesOK' /\ MirrorOK'
    BY <1>3 DEF DeleteRoleAssignment, RolesOK, MirrorOK, MirrorType, scopes
  <2>2. RequestsOK'
    BY <1>3, NoCacheType DEF DeleteRoleAssignment, InvalidateCache, RequestsOK, requests
  <2> QED
    BY <1>3, <2>1, <2>2, ChangeType
    DEF DeleteRoleAssignment, bus, scopes, BusOK, LockOK, BoundsOK
<1>4. ASSUME NEW g \in Groups, CreateGroup(g) \/ DeleteGroup(g)
      PROVE  TypeOK'
  <2>1. CASE CreateGroup(g)
    <3>1. RolesOK'
      <4>1. \A m \in member : m[1] \in Groups
        BY DEF RolesOK
      <4> QED
        BY <2>1, <4>1 DEF CreateGroup, RolesOK
    <3> QED
      BY <2>1, <3>1, ChangeType
      DEF CreateGroup, bus, scopes, requests, MirrorOK, MirrorType, BusOK, RequestsOK, LockOK, BoundsOK
  <2>2. CASE DeleteGroup(g)
    <3>1. RolesOK'
      <4>1. \A m \in member : m[1] \in Groups
        BY DEF RolesOK
      <4> QED
        BY <2>2, <4>1 DEF DeleteGroup, RolesOK
    <3>2. RequestsOK'
      BY <2>2, NoCacheType DEF DeleteGroup, InvalidateCache, RequestsOK, requests
    <3> QED
      BY <2>2, <3>1, <3>2, ChangeType
      DEF DeleteGroup, bus, scopes, MirrorOK, MirrorType, BusOK, LockOK, BoundsOK
  <2> QED
    BY <1>4, <2>1, <2>2
<1>5. ASSUME NEW g \in Groups, NEW p \in Principals, AddGroupMember(g, p)
      PROVE  TypeOK'
  <2>1. RolesOK'
    BY <1>5 DEF AddGroupMember, RolesOK
  <2>2. RequestsOK'
    BY <1>5, NoCacheType DEF AddGroupMember, InvalidateCache, RequestsOK, requests
  <2> QED
    BY <1>5, <2>1, <2>2, ChangeType
    DEF AddGroupMember, bus, scopes, MirrorOK, MirrorType, BusOK, LockOK, BoundsOK
<1>6. ASSUME NEW m \in member, RemoveGroupMember(m)
      PROVE  TypeOK'
  <2>1. RolesOK'
    BY <1>6 DEF RemoveGroupMember, RolesOK
  <2>2. RequestsOK'
    BY <1>6, NoCacheType DEF RemoveGroupMember, InvalidateCache, RequestsOK, requests
  <2> QED
    BY <1>6, <2>1, <2>2, ChangeType
    DEF RemoveGroupMember, bus, scopes, MirrorOK, MirrorType, BusOK, LockOK, BoundsOK
<1>7. ASSUME NEW n \in Nodes, NEW inherit \in BOOLEAN, SetResourceInherit(n, inherit)
      PROVE  TypeOK'
  <2>1. MirrorOK'
    <3> DEFINE row == [node[n] EXCEPT !.inherit = inherit]
    <3>1. node' = [node EXCEPT ![n] = row] /\ UNCHANGED <<assigned, lock>>
      BY <1>7 DEF SetResourceInherit, roles, scopes
    <3>2. node[n] # None /\ node[n] \in Rows
      BY <1>7 DEF SetResourceInherit, MirrorOK, MirrorType
    <3>3. row \in Rows /\ row.parent = node[n].parent
      BY <3>2 DEF Rows
    <3>4. row # None
      BY <3>3, PermissionsAssumption
    <3>5. node[n].parent = None \/ node[n].parent \in Nodes
      BY <3>2 DEF Rows
    <3>6. \A m \in Nodes : node[m] # None => node[m].parent \in Nodes \cup {None}
      BY DEF MirrorOK, MirrorType, Rows
    <3>7. \A a \in assigned : a[3] \in Nodes
      BY DEF RolesOK
    <3> HIDE DEF row
    <3> QED
      BY <3>1, <3>2, <3>3, <3>4, <3>6, <3>7, NodesHold DEF MirrorOK, MirrorType
  <2>2. RequestsOK'
    BY <1>7, NoCacheType DEF SetResourceInherit, InvalidateCache, RequestsOK, requests
  <2> QED
    BY <1>7, <2>1, <2>2, ChangeType
    DEF SetResourceInherit, bus, scopes, roles, RolesOK, BusOK, LockOK, BoundsOK
<1>8. ASSUME NEW n \in Nodes, NEW kind \in {"write", "all"}, CreateScopeLock(n, kind)
      PROVE  TypeOK'
  <2>1. MirrorOK' /\ LockOK'
    BY <1>8 DEF CreateScopeLock, MirrorOK, MirrorType, LockOK, roles
  <2>2. BoundsOK'
    BY <1>8, PermissionsAssumption DEF CreateScopeLock, BoundsOK, bus
  <2> QED
    BY <1>8, <2>1, <2>2
    DEF CreateScopeLock, bus, roles, requests, RolesOK, BusOK, RequestsOK
<1>9. ASSUME NEW n \in Nodes, ScopeLockEnds(n)
      PROVE  TypeOK'
  <2>1. MirrorOK' /\ LockOK'
    BY <1>9 DEF ScopeLockEnds, MirrorOK, MirrorType, LockOK, roles
  <2> QED
    BY <1>9, <2>1
    DEF ScopeLockEnds, bus, roles, requests, RolesOK, BusOK, RequestsOK, BoundsOK
<1> QED
  BY <1>1, <1>2, <1>3, <1>4, <1>5, <1>6, <1>7, <1>8, <1>9 DEF Administer

LEMMA EventType ==
    ASSUME TypeOK, NEW o \in {"folder", "document"}, Delivered(o)
    PROVE  /\ Head(stream[o]) \in Events
           /\ stream' \in [{"folder", "document"} -> Seq(Events)]
<1>1. stream[o] \in Seq(Events) /\ stream[o] # << >>
  BY DEF TypeOK, Delivered
<1>2. Tail(stream[o]) \in Seq(Events) /\ Head(stream[o]) \in Events
  BY <1>1
<1> QED
  BY <1>2 DEF TypeOK, Delivered

(* Every way an event comes to be handled.                                 *)
LEMMA HandleType ==
    ASSUME TypeOK, NEW e \in Events, Handle(e)
    PROVE  MirrorOK' /\ RolesOK' /\ RequestsOK' /\ LockOK'
<1>1. MirrorOK'
  BY MirroredType DEF Handle, MirrorOK, MirrorType, roles, scopes
<1>2. RequestsOK'
  BY TypeParts, NoCacheType DEF Handle, InvalidateCache, RequestsOK, requests
<1> QED
  BY <1>1, <1>2, TypeParts DEF Handle, RolesOK, LockOK, roles, scopes

LEMMA OwnedType ==
    ASSUME TypeOK, NEW r \in Resources, NEW e \in Events, Owned(r, e),
           tree' \in [Resources -> Nodes \cup {"new", "gone"}]
    PROVE  TypeOK'
<1>1. Owner(r) \in {"folder", "document"}
  BY DEF Owner
<1>2. stream' \in [{"folder", "document"} -> Seq(Events)]
  <2>1. Append(stream[Owner(r)], e) \in Seq(Events)
    BY <1>1 DEF TypeOK
  <2> QED
    BY <1>1, <2>1 DEF TypeOK, Owned
<1>3. BoundsOK'
  BY TypeParts, PermissionsAssumption DEF Owned, BoundsOK, scopes
<1> QED
  BY <1>2, <1>3, TypeParts, TypePartsNext
  DEF Owned, MirrorOK, MirrorType, RolesOK, BusOK, RequestsOK, LockOK, roles, scopes, requests

LEMMA RestructureType ==
    ASSUME TypeOK, Restructure
    PROVE  TypeOK'
<1> USE TypePartsNext, TypeParts
<1>1. ASSUME NEW r \in Resources, NEW n \in Nodes, OwnerCreates(r, n) \/ OwnerMoves(r, n)
      PROVE  TypeOK'
  <2>1. tree' \in [Resources -> Nodes \cup {"new", "gone"}]
    BY <1>1 DEF OwnerCreates, OwnerMoves, BusOK
  <2>2. [type |-> "created", resource |-> r, parent |-> n] \in Events
    BY DEF Events
  <2>3. [type |-> "moved", resource |-> r, parent |-> n] \in Events
    BY DEF Events
  <2> QED
    BY <1>1, <2>1, <2>2, <2>3, OwnedType DEF OwnerCreates, OwnerMoves
<1>2. ASSUME NEW r \in Resources, OwnerDeletes(r)
      PROVE  TypeOK'
  <2>1. tree' \in [Resources -> Nodes \cup {"new", "gone"}]
    BY <1>2 DEF OwnerDeletes, BusOK
  <2>2. [type |-> "deleted", resource |-> r, parent |-> None] \in Events
    BY DEF Events
  <2> QED
    BY <1>2, <2>1, <2>2, OwnedType DEF OwnerDeletes
<1>3. ASSUME NEW r \in Resources, CreateResource(r)
      PROVE  TypeOK'
  <2>1. tree[r] \in Nodes
    BY <1>3 DEF CreateResource, Live
  <2>2. MirrorOK'
    <3>1. \A a \in assigned : a[3] \in Nodes
      BY DEF RolesOK
    <3> QED
      BY <1>3, <2>1, <3>1, RegisteredType
      DEF CreateResource, MirrorOK, MirrorType, roles, scopes
  <2>3. RequestsOK'
    BY <1>3, NoCacheType DEF CreateResource, InvalidateCache, RequestsOK, requests
  <2> QED
    BY <1>3, <2>2, <2>3
    DEF CreateResource, bus, roles, scopes, RolesOK, BusOK, LockOK, BoundsOK
<1>4. ASSUME NEW o \in DOMAIN stream, StructureEvent(o)
      PROVE  TypeOK'
  <2>1. Delivered(o) /\ Handle(Head(stream[o])) /\ o \in {"folder", "document"}
    BY <1>4 DEF StructureEvent, BusOK
  <2>2. BusOK' /\ BoundsOK'
    BY <1>4, <2>1, EventType DEF StructureEvent, Handle, BusOK, BoundsOK, scopes
  <2> QED
    BY <2>1, <2>2, EventType, HandleType
<1>5. ASSUME NEW o \in DOMAIN stream, StructureEventRaises(o)
      PROVE  TypeOK'
  <2>1. Delivered(o) /\ o \in {"folder", "document"}
    BY <1>5 DEF StructureEventRaises, BusOK
  <2>2. BusOK'
    BY <1>5, <2>1, EventType DEF StructureEventRaises, BusOK
  <2>3. BoundsOK'
    BY <1>5, FaultType DEF StructureEventRaises, BoundsOK, scopes
  <2> QED
    BY <1>5, <2>2, <2>3
    DEF StructureEventRaises, MirrorOK, MirrorType, RolesOK, RequestsOK, LockOK, roles, scopes,
        requests
<1>6. ASSUME NEW o \in DOMAIN stream, AckLost(o)
      PROVE  TypeOK'
  <2>1. Delivered(o) /\ Handle(Head(stream[o])) /\ o \in {"folder", "document"}
    BY <1>6 DEF AckLost, BusOK
  <2>2. BusOK'
    BY <1>6, <2>1, EventType DEF AckLost, Handle, BusOK
  <2>3. BoundsOK'
    BY <1>6, <2>1, FaultType DEF AckLost, Handle, BoundsOK, scopes
  <2> QED
    BY <2>1, <2>2, <2>3, EventType, HandleType
<1>7. ASSUME NEW e \in late, StructureEventAgain(e)
      PROVE  TypeOK'
  <2>1. Handle(e) /\ e \in Events
    BY <1>7 DEF StructureEventAgain, BusOK
  <2>2. BusOK' /\ BoundsOK'
    BY <1>7, <2>1 DEF StructureEventAgain, Handle, BusOK, BoundsOK, scopes
  <2> QED
    BY <2>1, <2>2, HandleType
<1> QED
  BY <1>1, <1>2, <1>3, <1>4, <1>5, <1>6, <1>7 DEF Restructure

LEMMA CheckType ==
    ASSUME TypeOK, NEW c \in Clients, Ask(c) \/ CheckStep(c) \/ CheckLost(c)
    PROVE  TypeOK'
<1> USE TypePartsNext, TypeParts
<1>0. Asleep \in Requests /\ check[c] \in Requests
  BY DEF Asleep, Requests, RequestsOK
<1>1. ASSUME NEW p \in Principals, NEW n \in Asked, NEW capability \in Capabilities,
             CheckBegins(c, p, n, capability)
      PROVE  TypeOK'
  <2>0. n \in Nodes
    BY PermissionsAssumption
  <2>1. [principal |-> p, resource |-> n, capability |-> capability] \in Questions
    BY <2>0 DEF Questions
  <2>2. cache[p][n] # None => cache[p][n] \in SUBSET UNION Permissions_
    BY <2>0 DEF RequestsOK
  <2>3. (IF cache[p][n] # None
         THEN [pc |-> "cached", at |-> None, holders |-> {}, entry |-> cache[p][n]]
         ELSE [pc |-> "climb", at |-> n, holders |-> Access!Holders(p, member), entry |-> {}])
        \in Requests
    BY <2>0, <2>2, HoldersType DEF Requests
  <2>4. RequestsOK'
    BY <1>1, <2>1, <2>3 DEF CheckBegins, RequestsOK
  <2> QED
    BY <1>1, <2>4
    DEF CheckBegins, bus, roles, scopes, MirrorOK, MirrorType, RolesOK, BusOK, LockOK, BoundsOK
<1>2. CASE Climb(c)
  <2> DEFINE n == check[c].at
  <2>1. n \in Nodes
    BY <1>0, <1>2 DEF Climb, Requests
  <2>2. Access!Heritage(node)[n] \in Nodes \cup {None}
    BY <2>1, ParentsType
  <2>3. Access!GrantedAt(check[c].holders, n) \in SUBSET UNION Permissions_
    BY GrantedType
  <2>4. check' = [check EXCEPT ![c] =
                    [check[c] EXCEPT !.at = Access!Heritage(node)[n],
                                     !.entry = @ \cup Access!GrantedAt(check[c].holders, n)]]
    BY <1>0, <1>2 DEF Climb, RequestsOK, Requests
  <2>5. [check[c] EXCEPT !.at = Access!Heritage(node)[n],
                         !.entry = @ \cup Access!GrantedAt(check[c].holders, n)] \in Requests
    BY <1>0, <2>2, <2>3 DEF Requests
  <2>6. RequestsOK'
    BY <1>2, <2>4, <2>5 DEF Climb, RequestsOK
  <2> QED
    BY <1>2, <2>6
    DEF Climb, bus, roles, scopes, MirrorOK, MirrorType, RolesOK, BusOK, LockOK, BoundsOK
<1>3. CASE AnswerCached(c)
  <2>1. RequestsOK'
    BY <1>0, <1>3 DEF AnswerCached, Answer, RequestsOK
  <2> QED
    BY <1>3, <2>1
    DEF AnswerCached, Answer, bus, roles, scopes, MirrorOK, MirrorType, RolesOK, BusOK, LockOK,
        BoundsOK
<1>4. CASE AnswerComputed(c)
  <2> DEFINE p == ask[c].principal
             n == ask[c].resource
             entry == IF cache[p][n] = None THEN check[c].entry ELSE cache[p][n]
  <2>1. Answer(c, entry) /\ cache' = [cache EXCEPT ![p][n] = entry]
    BY <1>4 DEF AnswerComputed
  <2>2. cache' \in [Principals -> [Nodes -> {None} \cup SUBSET UNION Permissions_]]
    <3>1. CASE p \in Principals /\ n \in Nodes
      <4>1. entry \in SUBSET UNION Permissions_
        BY <1>0, <3>1 DEF RequestsOK, Requests
      <4> QED
        BY <2>1, <3>1, <4>1 DEF RequestsOK
    <3>2. CASE p \notin Principals
      BY <2>1, <3>2 DEF RequestsOK
    <3>3. CASE p \in Principals /\ n \notin Nodes
      <4> DEFINE Entries == {None} \cup SUBSET UNION Permissions_
                 row == [cache[p] EXCEPT ![n] = entry]
      <4>1. cache[p] \in [Nodes -> Entries]
        BY <3>3 DEF RequestsOK
      <4> HIDE DEF Entries, entry
      <4>2. row \in [Nodes -> Entries]
        BY <3>3, <4>1
      <4>3. cache' = [cache EXCEPT ![p] = row]
        BY <2>1
      <4> HIDE DEF row
      <4>4. cache' \in [Principals -> [Nodes -> Entries]]
        BY <4>2, <4>3 DEF RequestsOK, Entries
      <4> QED
        BY <4>4 DEF Entries
    <3> QED
      BY <3>1, <3>2, <3>3
  <2>3. RequestsOK'
    BY <1>0, <2>1, <2>2 DEF Answer, RequestsOK
  <2> QED
    BY <2>1, <2>3
    DEF Answer, bus, roles, scopes, MirrorOK, MirrorType, RolesOK, BusOK, LockOK, BoundsOK
<1>5. CASE CheckLost(c)
  <2>1. RequestsOK'
    BY <1>0, <1>5 DEF CheckLost, RequestsOK
  <2> QED
    BY <1>5, <2>1, FaultType
    DEF CheckLost, roles, scopes, MirrorOK, MirrorType, RolesOK, BusOK, LockOK, BoundsOK
<1> QED
  BY <1>1, <1>2, <1>3, <1>4, <1>5 DEF Ask, CheckStep

LEMMA TypeStep == TypeOK /\ [Next]_vars => TypeOK'
<1>1. ASSUME TypeOK, UNCHANGED vars PROVE TypeOK'
  BY <1>1 DEF TypeOK, vars, bus, roles, scopes, requests
<1> QED
  BY <1>1, AdministerType, RestructureType, CheckType DEF Next

(* Whatever structure events are lost, repeated or overtaken, no row loses *)
(* its parent, no role assignment and no scope lock its resource, and no   *)
(* membership its group.                                                   *)
THEOREM TypeCorrect == Spec => []TypeOK
  BY TypeInit, TypeStep, PTL DEF Spec

-----------------------------------------------------------------------------
(* /check.                                                                 *)

(* What the question of client c is due: all that the roles say.           *)
Due(c) == Access!Effective(ask[c].principal, ask[c].resource)

(* What the climb of client c has yet to collect.                          *)
Remaining(c) ==
    IF check[c].at = None THEN {} ELSE Access!EffectiveFor(check[c].holders, check[c].at)

(* An entry of effective_permission_cache says what the roles say.         *)
CacheInv ==
    \A p \in Principals, n \in Nodes :
        cache[p][n] # None => cache[p][n] = Access!Effective(p, n)

(* A request on its way has found, or will have found, what the roles say. *)
CheckInv ==
    \A c \in Clients : check[c].pc # "idle" =>
        /\ ask[c].principal \in Principals /\ ask[c].resource \in Nodes
        /\ verdict[c] = "none"
        /\ \/ check[c].pc = "cached" /\ check[c].entry = Due(c)
           \/ check[c].pc = "climb" /\ check[c].entry \cup Remaining(c) = Due(c)

AccessInv == TypeOK /\ CacheInv /\ CheckInv

(* The climb: what is granted at a node, and what its parent passes on.    *)
LEMMA EffectiveUnfolds ==
    ASSUME TypeOK, NEW holders, NEW n \in Nodes
    PROVE  Access!EffectiveFor(holders, n) =
              Access!GrantedAt(holders, n)
              \cup (IF Access!Heritage(node)[n] = None THEN {}
                    ELSE Access!EffectiveFor(holders, Access!Heritage(node)[n]))
<1> DEFINE next == Access!Heritage(node)
<1>1. next \in [Nodes -> Nodes \cup {None}]
  BY ParentsType
<1> HIDE DEF next
<1>2. CASE next[n] = None
  BY <1>2, ReachedFromTop DEF Access!EffectiveFor, next
<1>3. CASE next[n] # None
  <2>1. Access!Reached(n, next) = {n} \cup Access!Reached(next[n], next)
    BY <1>1, <1>3, ReachedUnfolds
  <2>2. UNION {Access!GrantedAt(holders, m) : m \in Access!Reached(n, next)} =
           Access!GrantedAt(holders, n)
           \cup UNION {Access!GrantedAt(holders, m) : m \in Access!Reached(next[n], next)}
    BY <2>1
  <2> QED
    BY <1>3, <2>2 DEF Access!EffectiveFor, next
<1> QED
  BY <1>2, <1>3 DEF next

(* Steps that touch no grant leave every answer as it was.                 *)
LEMMA SameGrants ==
    ASSUME UNCHANGED <<node, assigned, perms, member>>
    PROVE  /\ \A p, n : Access!Effective(p, n)' = Access!Effective(p, n)
           /\ \A h, n : Access!EffectiveFor(h, n)' = Access!EffectiveFor(h, n)
BY DEF Access!Effective, Access!EffectiveFor, Access!Holders, Access!GrantedAt,
       Access!Heritage, Access!Reached, Access!ClosedUnder

LEMMA SameDue ==
    ASSUME UNCHANGED <<node, assigned, perms, member>>,
           NEW c \in Clients, ask'[c] = ask[c], check'[c] = check[c]
    PROVE  Due(c)' = Due(c) /\ Remaining(c)' = Remaining(c)
<1>1. Due(c)' = Access!Effective(ask[c].principal, ask[c].resource)'
  BY DEF Due, Access!Effective, Access!EffectiveFor, Access!Holders, Access!GrantedAt,
         Access!Heritage, Access!Reached, Access!ClosedUnder
<1>2. Remaining(c)' =
         IF check[c].at = None THEN {} ELSE Access!EffectiveFor(check[c].holders, check[c].at)'
  BY DEF Remaining, Access!EffectiveFor, Access!GrantedAt,
         Access!Heritage, Access!Reached, Access!ClosedUnder
<1> QED
  BY <1>1, <1>2, SameGrants DEF Due, Remaining

(* A role that did not exist is assigned to nobody.                        *)
LEMMA NewRoleGrantsNothing ==
    ASSUME TypeOK, NEW r \in Roles, NEW ps \in Permissions_, CreateRole(r, ps)
    PROVE  \A p, n : Access!Effective(p, n)' = Access!Effective(p, n)
<1>1. UNCHANGED <<node, assigned, member>> /\ perms' = [perms EXCEPT ![r] = ps] /\ perms[r] = None
  BY DEF CreateRole
<1>2. \A a \in assigned : a[2] \in Roles /\ perms[a[2]] # None
  BY DEF TypeOK
<1>3. \A a \in assigned : perms'[a[2]] = perms[a[2]]
  BY <1>1, <1>2 DEF TypeOK
<1>4. ASSUME NEW h, NEW n
      PROVE  Access!GrantedAt(h, n)' = Access!GrantedAt(h, n)
  <2>1. {perms'[a[2]] : a \in {x \in assigned : x[1] \in h /\ x[3] = n}} =
           {perms[a[2]] : a \in {x \in assigned : x[1] \in h /\ x[3] = n}}
    BY <1>3
  <2> QED
    BY <1>1, <2>1 DEF Access!GrantedAt
<1> QED
  BY <1>1, <1>4
  DEF Access!Effective, Access!EffectiveFor, Access!Holders, Access!Heritage, Access!Reached,
      Access!ClosedUnder

(* What a step does when it is not a client's.                             *)
Untouched ==
    /\ UNCHANGED <<node, assigned, perms, member, ask, check, verdict>>
    /\ cache' = NoCache \/ UNCHANGED cache
Cleared ==
    /\ ~Climbing
    /\ UNCHANGED <<ask, check, verdict>>
    /\ cache' = NoCache
RoleCreated == \E r \in Roles, ps \in Permissions_ : CreateRole(r, ps)

LEMMA StepKinds ==
    ASSUME ~Overlapping, Administer \/ Restructure
    PROVE  Untouched \/ Cleared \/ RoleCreated
<1> USE DEF Change, MayChange, InvalidateCache, roles, scopes, requests
<1>1. CASE Administer
  <2>1. ASSUME NEW r \in Roles, NEW ps \in Permissions_, UpdateRole(r, ps)
        PROVE  Cleared
    BY <2>1 DEF UpdateRole, Cleared
  <2>2. ASSUME NEW h \in HolderIds, NEW r \in Roles, NEW n \in Nodes, CreateRoleAssignment(h, r, n)
        PROVE  Cleared
    BY <2>2 DEF CreateRoleAssignment, Cleared
  <2>3. ASSUME NEW a \in assigned, DeleteRoleAssignment(a)
        PROVE  Cleared
    BY <2>3 DEF DeleteRoleAssignment, Cleared
  <2>4. ASSUME NEW g \in Groups, CreateGroup(g)
        PROVE  Untouched
    BY <2>4 DEF CreateGroup, Untouched
  <2>5. ASSUME NEW g \in Groups, DeleteGroup(g)
        PROVE  Cleared
    BY <2>5 DEF DeleteGroup, Cleared
  <2>6. ASSUME NEW g \in Groups, NEW p \in Principals, AddGroupMember(g, p)
        PROVE  Cleared
    BY <2>6 DEF AddGroupMember, Cleared
  <2>7. ASSUME NEW m \in member, RemoveGroupMember(m)
        PROVE  Cleared
    BY <2>7 DEF RemoveGroupMember, Cleared
  <2>8. ASSUME NEW n \in Nodes, NEW inherit \in BOOLEAN, SetResourceInherit(n, inherit)
        PROVE  Cleared
    BY <2>8 DEF SetResourceInherit, Cleared
  <2>9. ASSUME NEW n \in Nodes, NEW kind \in {"write", "all"}, CreateScopeLock(n, kind)
        PROVE  Untouched
    BY <2>9 DEF CreateScopeLock, Untouched
  <2>10. ASSUME NEW n \in Nodes, ScopeLockEnds(n)
         PROVE  Untouched
    BY <2>10 DEF ScopeLockEnds, Untouched
  <2> QED
    BY <1>1, <2>1, <2>2, <2>3, <2>4, <2>5, <2>6, <2>7, <2>8, <2>9, <2>10
    DEF Administer, RoleCreated
<1>2. CASE Restructure
  <2>1. ASSUME NEW r \in Resources, NEW n \in Nodes, OwnerCreates(r, n) \/ OwnerMoves(r, n)
        PROVE  Untouched
    BY <2>1 DEF OwnerCreates, OwnerMoves, Owned, Untouched
  <2>2. ASSUME NEW r \in Resources, OwnerDeletes(r)
        PROVE  Untouched
    BY <2>2 DEF OwnerDeletes, Owned, Untouched
  <2>3. ASSUME NEW r \in Resources, CreateResource(r)
        PROVE  Cleared
    BY <2>3 DEF CreateResource, Cleared
  <2>4. ASSUME NEW e, Handle(e)
        PROVE  Cleared
    BY <2>4 DEF Handle, Cleared
  <2>5. ASSUME NEW o, StructureEventRaises(o)
        PROVE  Untouched
    BY <2>5 DEF StructureEventRaises, Untouched
  <2> QED
    BY <1>2, <2>1, <2>2, <2>3, <2>4, <2>5
    DEF Restructure, StructureEvent, AckLost, StructureEventAgain
<1> QED
  BY <1>1, <1>2

LEMMA NoCacheEmpty == \A p \in Principals, n \in Nodes : NoCache[p][n] = None
BY DEF NoCache

(* No step of the administrators, the owners or the bus makes the cache or *)
(* a request under way say something else than the roles.                  *)
LEMMA GrantsStep ==
    ASSUME ~Overlapping, AccessInv, Administer \/ Restructure
    PROVE  CacheInv' /\ CheckInv'
<1>1. CASE Untouched
  <2>1. CacheInv'
    BY <1>1, SameGrants, NoCacheEmpty DEF AccessInv, CacheInv, Untouched
  <2>2. CheckInv'
    BY <1>1, SameDue DEF AccessInv, CheckInv, Untouched
  <2> QED
    BY <2>1, <2>2
<1>2. CASE Cleared
  BY <1>2, NoCacheEmpty DEF Cleared, Climbing, CacheInv, CheckInv
<1>3. CASE RoleCreated
  <2>1. PICK r \in Roles, ps \in Permissions_ : CreateRole(r, ps)
    BY <1>3 DEF RoleCreated
  <2>2. CacheInv'
    BY <2>1, NewRoleGrantsNothing DEF CreateRole, AccessInv, CacheInv
  <2>3. CheckInv'
    BY <2>1 DEF CreateRole, Change, MayChange, Climbing, requests, CheckInv
  <2> QED
    BY <2>2, <2>3
<1> QED
  BY <1>1, <1>2, <1>3, StepKinds

(* What one client does leaves the requests of the others alone.           *)
LEMMA OthersChecks ==
    ASSUME AccessInv, UNCHANGED <<node, assigned, perms, member>>, NEW c \in Clients,
           \A d \in Clients \ {c} :
               ask'[d] = ask[d] /\ check'[d] = check[d] /\ verdict'[d] = verdict[d],
           check'[c].pc # "idle" =>
               /\ ask'[c].principal \in Principals /\ ask'[c].resource \in Nodes
               /\ verdict'[c] = "none"
               /\ \/ check'[c].pc = "cached" /\ check'[c].entry = Due(c)'
                  \/ check'[c].pc = "climb" /\ check'[c].entry \cup Remaining(c)' = Due(c)'
    PROVE  CheckInv'
BY SameDue DEF AccessInv, CheckInv

LEMMA BeginsStep ==
    ASSUME AccessInv, NEW c \in Clients, NEW p \in Principals, NEW n \in Asked,
           NEW capability \in Capabilities, CheckBegins(c, p, n, capability)
    PROVE  CacheInv' /\ CheckInv' /\ Access!Ask(c)
<1>0. n \in Nodes /\ TypeOK /\ CacheInv
  BY PermissionsAssumption DEF AccessInv
<1>1. UNCHANGED <<node, assigned, perms, member, lock, cache>>
  BY DEF CheckBegins, roles, scopes
<1>2. CacheInv'
  BY <1>0, <1>1, SameGrants DEF CacheInv
<1>3. \A d \in Clients \ {c} :
         ask'[d] = ask[d] /\ check'[d] = check[d] /\ verdict'[d] = verdict[d]
  BY <1>0 DEF CheckBegins, TypeOK
<1>4. /\ ask'[c] = [principal |-> p, resource |-> n, capability |-> capability]
      /\ verdict'[c] = "none"
      /\ check'[c] = IF cache[p][n] # None
                     THEN [pc |-> "cached", at |-> None, holders |-> {}, entry |-> cache[p][n]]
                     ELSE [pc |-> "climb", at |-> n, holders |-> Access!Holders(p, member),
                           entry |-> {}]
  BY <1>0 DEF CheckBegins, TypeOK
<1>5. Due(c)' = Access!Effective(p, n)
  <2>1. Due(c)' = Access!Effective(p, n)'
    BY <1>4
    DEF Due, Access!Effective, Access!EffectiveFor, Access!Holders, Access!GrantedAt,
        Access!Heritage, Access!Reached, Access!ClosedUnder
  <2> QED
    BY <1>1, <2>1, SameGrants
<1>6. cache[p][n] = None => check'[c].pc = "climb" /\ check'[c].entry \cup Remaining(c)' = Due(c)'
  <2> SUFFICES ASSUME cache[p][n] = None
               PROVE  check'[c].entry \cup Remaining(c)' = Due(c)' /\ check'[c].pc = "climb"
    OBVIOUS
  <2> DEFINE h == Access!Holders(p, member)
  <2>1. check'[c].at = n /\ check'[c].holders = h /\ check'[c].entry = {} /\ n # None
    BY <1>0, <1>4, PermissionsAssumption
  <2>2. Remaining(c)' = Access!EffectiveFor(check'[c].holders, check'[c].at)
    BY <1>1, <2>1
    DEF Remaining, Access!EffectiveFor, Access!GrantedAt, Access!Heritage, Access!Reached,
        Access!ClosedUnder
  <2>3. Remaining(c)' = Access!Effective(p, n)
    BY <2>1, <2>2 DEF Access!Effective
  <2> QED
    BY <1>4, <1>5, <2>1, <2>3
<1>7. cache[p][n] # None => check'[c].pc = "cached" /\ check'[c].entry = Due(c)'
  BY <1>0, <1>4, <1>5 DEF CacheInv
<1>8. CheckInv'
  BY <1>0, <1>1, <1>3, <1>4, <1>6, <1>7, OthersChecks
<1>9. Access!Ask(c)
  BY <1>1, <1>3 DEF Access!Ask, Access!grants, CheckBegins
<1> QED
  BY <1>2, <1>8, <1>9

LEMMA ClimbStep ==
    ASSUME AccessInv, NEW c \in Clients, Climb(c)
    PROVE  CacheInv' /\ CheckInv' /\ Access!Change
<1> DEFINE n == check[c].at
           h == check[c].holders
           up == Access!Heritage(node)[n]
<1>0. TypeOK /\ CacheInv /\ n \in Nodes /\ check[c] \in Requests /\ check[c].pc = "climb"
  BY DEF AccessInv, TypeOK, Climb, At, Requests
<1>1. UNCHANGED <<node, assigned, perms, member, cache, ask, verdict>>
  BY DEF Climb, roles
<1>2. CacheInv'
  BY <1>0, <1>1, SameGrants DEF CacheInv
<1>3. /\ check'[c].pc = "climb" /\ check'[c].at = up /\ check'[c].holders = h
      /\ check'[c].entry = check[c].entry \cup Access!GrantedAt(h, n)
      /\ \A d \in Clients \ {c} : check'[d] = check[d]
  BY <1>0 DEF Climb, TypeOK, Requests
<1>4. ask[c].principal \in Principals /\ ask[c].resource \in Nodes /\ verdict[c] = "none"
  BY <1>0 DEF AccessInv, CheckInv
<1>5. check[c].entry \cup Access!EffectiveFor(h, n) = Due(c)
  BY <1>0, PermissionsAssumption DEF AccessInv, CheckInv, Remaining
<1>6. Remaining(c)' = IF up = None THEN {} ELSE Access!EffectiveFor(h, up)
  <2>1. Remaining(c)' = IF check'[c].at = None THEN {}
                        ELSE Access!EffectiveFor(check'[c].holders, check'[c].at)
    BY <1>1
    DEF Remaining, Access!EffectiveFor, Access!GrantedAt, Access!Heritage, Access!Reached,
        Access!ClosedUnder
  <2> QED
    BY <1>3, <2>1
<1>7. Due(c)' = Due(c)
  BY <1>1
  DEF Due, Access!Effective, Access!EffectiveFor, Access!Holders, Access!GrantedAt,
      Access!Heritage, Access!Reached, Access!ClosedUnder
<1>8. check'[c].entry \cup Remaining(c)' = Due(c)'
  <2>1. Access!EffectiveFor(h, n) = Access!GrantedAt(h, n) \cup Remaining(c)'
    BY <1>0, <1>6, EffectiveUnfolds
  <2> QED
    BY <1>3, <1>5, <1>7, <2>1
<1>9. CheckInv'
  BY <1>1, <1>3, <1>4, <1>8, OthersChecks
<1> QED
  BY <1>1, <1>2, <1>9 DEF Access!Change

LEMMA AnswerStep ==
    ASSUME AccessInv, NEW c \in Clients, AnswerCached(c) \/ AnswerComputed(c)
    PROVE  CacheInv' /\ CheckInv' /\ Access!Decide(c)
<1> DEFINE p == ask[c].principal
           n == ask[c].resource
<1>0. TypeOK /\ CacheInv /\ check[c].pc \in {"cached", "climb"}
  BY DEF AccessInv, AnswerCached, AnswerComputed, At
<1>1. p \in Principals /\ n \in Nodes /\ verdict[c] = "none"
  BY <1>0 DEF AccessInv, CheckInv
<1>2. PICK entry : /\ Answer(c, entry) /\ entry = Due(c)
                   /\ UNCHANGED cache \/ cache' = [cache EXCEPT ![p][n] = entry]
  <2>1. CASE AnswerCached(c)
    BY <2>1 DEF AnswerCached, At, AccessInv, CheckInv
  <2>2. CASE AnswerComputed(c)
    <3>1. check[c].entry = Due(c)
      BY <1>0, <2>2 DEF AnswerComputed, At, AccessInv, CheckInv, Remaining
    <3>2. cache[p][n] # None => cache[p][n] = Due(c)
      BY <1>0, <1>1 DEF CacheInv, Due
    <3> QED
      BY <2>2, <3>1, <3>2 DEF AnswerComputed
  <2> QED
    BY <2>1, <2>2
<1>3. UNCHANGED <<node, assigned, perms, member, lock, ask>>
  BY <1>2 DEF Answer, roles, scopes
<1>4. /\ check'[c] = Asleep
      /\ \A d \in Clients \ {c} : check'[d] = check[d] /\ verdict'[d] = verdict[d]
  BY <1>0, <1>2 DEF Answer, TypeOK
<1>5. CheckInv'
  BY <1>3, <1>4, OthersChecks DEF Asleep
<1>6. CacheInv'
  <2>1. \A q \in Principals, m \in Nodes :
           cache'[q][m] = cache[q][m] \/ (q = p /\ m = n /\ cache'[q][m] = Due(c))
    BY <1>0, <1>1, <1>2 DEF TypeOK
  <2> QED
    BY <1>0, <1>3, <2>1, SameGrants DEF CacheInv, Due
<1>7. Access!Decide(c)
  BY <1>1, <1>2, <1>3
  DEF Answer, Access!Decide, Access!grants, Access!Allowed, Due
<1> QED
  BY <1>5, <1>6, <1>7

LEMMA LostStep ==
    ASSUME AccessInv, NEW c \in Clients, CheckLost(c)
    PROVE  CacheInv' /\ CheckInv' /\ Access!Change
<1>1. UNCHANGED <<node, assigned, perms, member, cache, ask, verdict>>
  BY DEF CheckLost, roles
<1>2. check'[c] = Asleep /\ \A d \in Clients \ {c} : check'[d] = check[d]
  BY DEF CheckLost, AccessInv, TypeOK
<1>3. CheckInv'
  BY <1>1, <1>2, OthersChecks DEF Asleep
<1> QED
  BY <1>1, <1>3, SameGrants DEF AccessInv, CacheInv, Access!Change

LEMMA AccessInit == Init => AccessInv /\ Access!Init
<1>1. Init => CacheInv /\ CheckInv
  BY NoCacheEmpty DEF Init, CacheInv, CheckInv, Asleep
<1> QED
  BY <1>1, TypeInit DEF Init, AccessInv, Access!Init

(* Every step keeps the invariant, and is a step of AccessControl.         *)
LEMMA AccessStep ==
    ASSUME ~Overlapping, AccessInv, [Next]_vars
    PROVE  AccessInv' /\ [Access!Next]_<<Access!grants, ask, verdict>>
<1>1. CASE Administer \/ Restructure
  <2>1. UNCHANGED <<ask, verdict>>
    BY <1>1, StepKinds DEF Untouched, Cleared, RoleCreated, CreateRole, requests
  <2> QED
    BY <1>1, <2>1, GrantsStep, TypeStep DEF AccessInv, Next, Access!Next, Access!Change
<1>2. ASSUME NEW c \in Clients, Ask(c) \/ CheckStep(c) \/ CheckLost(c)
      PROVE  AccessInv' /\ Access!Next
  BY <1>2, BeginsStep, ClimbStep, AnswerStep, LostStep, TypeStep
  DEF AccessInv, Next, Ask, CheckStep, Access!Next
<1>3. CASE UNCHANGED vars
  <2>1. UNCHANGED <<node, assigned, perms, member, lock, cache, ask, check, verdict>>
    BY <1>3 DEF vars, roles, scopes, requests
  <2>2. CheckInv'
    BY <2>1, SameDue DEF AccessInv, CheckInv
  <2> QED
    BY <2>1, <2>2, SameGrants, TypeStep DEF AccessInv, CacheInv, Access!grants
<1> QED
  BY <1>1, <1>2, <1>3 DEF Next

(* /check answers what AccessControl says, from a cache or by a climb, as  *)
(* long as no grant changes while a request climbs: the hypothesis.        *)
THEOREM AnswersAsGranted ==
    ASSUME ~Overlapping
    PROVE  Spec => ImplementsAccess
<1>1. Spec => []AccessInv
  BY AccessInit, AccessStep, PTL DEF Spec
<1> QED
  BY <1>1, AccessInit, AccessStep, PTL DEF Spec, ImplementsAccess, Access!Spec

=============================================================================
