----------------------------- MODULE MCArchival -----------------------------
(***************************************************************************)
(* Instances of Archival: a document, and a case that refers to it.        *)
(***************************************************************************)
EXTENDS Archival

RefersToAll == [c \in Cases |-> Documents]
=============================================================================
