---------------------------- MODULE AccessControl ----------------------------
(***************************************************************************)
(* What permission-service promises whoever asks /check: the answer that   *)
(* the roles, groups, resources and scope locks of this moment give.       *)
(* There is no cache here, and no walk.  Permissions is shown to implement *)
(* it.                                                                     *)
(***************************************************************************)
CONSTANTS Clients, Nodes, Everyone, None

VARIABLES
    node,       \* node[n]: the resource_node row [parent, inherit], or None
    assigned,   \* the role assignments <<holder, role, resource>>
    perms,      \* perms[r]: the permissions of a role, or None
    member,     \* the group memberships <<group, principal>>
    lock,       \* lock[n]: the scope lock of the resource
    ask,        \* ask[c]: the question of a client
    verdict     \* verdict[c]: its answer, "none" until there is one

grants == <<node, assigned, perms, member, lock>>

(* A set closed under `and the parent too', as far as next leads.          *)
ClosedUnder(S, next) == \A n \in S : next[n] # None => next[n] \in S

Reached(n, next) ==
    {m \in Nodes : \A S \in SUBSET Nodes : n \in S /\ ClosedUnder(S, next) => m \in S}

Parent(rows) == [n \in Nodes |-> IF rows[n] = None THEN None ELSE rows[n].parent]
Heritage(rows) ==
    [n \in Nodes |-> IF rows[n] = None \/ ~rows[n].inherit THEN None ELSE rows[n].parent]

Holders(p, groups) == {p, Everyone} \cup {m[1] : m \in {x \in groups : x[2] = p}}

(* What the roles assigned to these holders at n itself permit.            *)
GrantedAt(holders, n) ==
    IF node[n] = None THEN {}
    ELSE UNION {perms[a[2]] : a \in {x \in assigned : x[1] \in holders /\ x[3] = n}}

EffectiveFor(holders, n) ==
    UNION {GrantedAt(holders, m) : m \in Reached(n, Heritage(node))}

Effective(p, n) == EffectiveFor(Holders(p, member), n)

(* A scope lock covers the whole subtree, inherit or not.                  *)
Blocks(l, access) == l = "all" \/ (l = "write" /\ access = "write")
Locked(n, access) ==
    \E m \in Reached(n, Parent(node)) : node[m] # None /\ Blocks(lock[m], access)

Access(capability) == IF capability = "folder.read" THEN "read" ELSE "write"

Permits(entry, q) ==
    /\ q.capability \in entry
    /\ Locked(q.resource, Access(q.capability)) => "scope_lock.bypass" \in entry

Allowed(q) == Permits(Effective(q.principal, q.resource), q)

Init == verdict = [c \in Clients |-> "none"]

Ask(c) ==
    /\ verdict' = [verdict EXCEPT ![c] = "none"]
    /\ \A d \in Clients \ {c} : ask'[d] = ask[d]
    /\ UNCHANGED grants

Decide(c) ==
    /\ verdict[c] = "none"
    /\ verdict' = [verdict EXCEPT ![c] = IF Allowed(ask[c]) THEN "allowed" ELSE "denied"]
    /\ UNCHANGED <<grants, ask>>

Change == UNCHANGED <<ask, verdict>>

Next == Change \/ \E c \in Clients : Ask(c) \/ Decide(c)

Spec == Init /\ [][Next]_<<grants, ask, verdict>>
=============================================================================
