---------------------------- MODULE MCFederation ----------------------------
(***************************************************************************)
(* Instances of Federation: one operator, up to two tasks and handovers.   *)
(***************************************************************************)
EXTENDS Federation
=============================================================================
