--------------------------- MODULE VersionHistory ---------------------------
(***************************************************************************)
(* What document-service promises of a document's versions: the main       *)
(* version moves by compare-and-set, and what comes too late is kept       *)
(* beside it as a conflict copy.  Nothing is overwritten or dropped.       *)
(***************************************************************************)
EXTENDS Naturals

CONSTANT VersionNumbers

VARIABLES
    last,           \* the number of the main version
    main,           \* all that were the main version, each with what it was based on
    copies          \* the numbers of the conflict copies

Numbers == {m.number : m \in main} \cup copies

Init ==
    /\ last = 1
    /\ main = {[number |-> 1, base |-> 0]}
    /\ copies = {}

(* A number of its own for every version, whatever becomes of it.          *)
Fresh(n) == n \notin Numbers

Advance(n) ==
    /\ Fresh(n)
    /\ main' = main \cup {[number |-> n, base |-> last]}
    /\ last' = n
    /\ UNCHANGED copies

KeepCopy(n) ==
    /\ Fresh(n)
    /\ copies' = copies \cup {n}
    /\ UNCHANGED <<last, main>>

Next == \E n \in VersionNumbers : Advance(n) \/ KeepCopy(n)

Spec == Init /\ [][Next]_<<last, main, copies>>
=============================================================================
