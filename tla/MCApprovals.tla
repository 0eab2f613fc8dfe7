----------------------------- MODULE MCApprovals -----------------------------
(***************************************************************************)
(* Instances of Approvals: requests of one initiator, two people.          *)
(***************************************************************************)
EXTENDS Approvals

MCActionOf == [r \in Requests |-> r]
MCInitiatorOf == [r \in Requests |-> "ann"]
=============================================================================
