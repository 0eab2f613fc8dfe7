------------------------------ MODULE AuditLog ------------------------------
(***************************************************************************)
(* What audit-service promises: a log to which every event is appended at  *)
(* most once and from which nothing is ever removed, and a register of     *)
(* forced deletions that never runs ahead of the log.  AuditChain is shown *)
(* to implement it.                                                        *)
(***************************************************************************)
EXTENDS Sequences

CONSTANTS
    Events,     \* what the producers may publish
    Forced      \* the events that report a forced deletion

VARIABLES
    log,        \* the events recorded, oldest first
    register    \* the forced deletions entered in the register

Logged == {log[i] : i \in DOMAIN log}

Init ==
    /\ log \in Seq(Events)
    /\ \A i, j \in DOMAIN log : log[i] = log[j] => i = j
    /\ register = {}

Record(e) ==
    /\ e \in Events \ Logged
    /\ log' = Append(log, e)
    /\ UNCHANGED register

Enter(e) ==
    /\ e \in Forced \cap Logged
    /\ register' = register \cup {e}
    /\ UNCHANGED log

Next == \E e \in Events : Record(e) \/ Enter(e)

Spec == Init /\ [][Next]_<<log, register>>
=============================================================================
