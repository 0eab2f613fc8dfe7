------------------------- MODULE MCDocumentRetention -------------------------
(***************************************************************************)
(* Instances of DocumentRetention: two documents of one or two versions.   *)
(***************************************************************************)
EXTENDS DocumentRetention

SecondLocked == {<<"d1", "v2">>}
OneCopy == {<<"d2", "d1">>}
AllOrNone == {{}, {"document.delete", "document.force_delete"}}
=============================================================================
