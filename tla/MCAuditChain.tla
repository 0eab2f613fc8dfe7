---------------------------- MODULE MCAuditChain ----------------------------
(***************************************************************************)
(* Instance of AuditChain: a forced deletion on a subject whose stream has *)
(* two older rows in the chain, and an event on a subject whose stream has *)
(* yet to appear.                                                          *)
(***************************************************************************)
EXTENDS AuditChain

MCSubjectOf ==
    [e \in Events |-> IF e = "registered" THEN "registry.>" ELSE "document.>"]
MCLegacy == <<"created", "updated">>
=============================================================================
