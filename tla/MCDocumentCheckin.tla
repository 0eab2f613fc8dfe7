-------------------------- MODULE MCDocumentCheckin --------------------------
(***************************************************************************)
(* Instances of DocumentCheckin: one document and two or three users.      *)
(***************************************************************************)
EXTENDS DocumentCheckin
=============================================================================
