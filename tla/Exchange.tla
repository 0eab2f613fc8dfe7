------------------------------ MODULE Exchange ------------------------------
(***************************************************************************)
(* What the federation promises a federated task: one process is started   *)
(* for it at the other installation, and its answer completes the task,    *)
(* once.  Federation is shown to implement it.                             *)
(***************************************************************************)
CONSTANTS Tasks, Handovers

VARIABLES
    stage,      \* stage[t]: how far the task has come
    processes   \* processes[t]: the processes started for it elsewhere

Init ==
    /\ stage = [t \in Tasks |-> "waiting"]
    /\ processes = [t \in Tasks |-> {}]

Advance(t, from, to) ==
    /\ stage[t] = from
    /\ stage' = [stage EXCEPT ![t] = to]

Reach(t) == Advance(t, "waiting", "ready") /\ UNCHANGED processes

Start(t, h) ==
    /\ Advance(t, "ready", "working")
    /\ processes[t] = {}
    /\ processes' = [processes EXCEPT ![t] = {h}]

Answer(t) == Advance(t, "working", "answered") /\ UNCHANGED processes
Complete(t) == Advance(t, "answered", "done") /\ UNCHANGED processes

Next == \E t \in Tasks :
    Reach(t) \/ Answer(t) \/ Complete(t) \/ \E h \in Handovers : Start(t, h)

Spec == Init /\ [][Next]_<<stage, processes>>
=============================================================================
