---------------------------- MODULE MCPermissions ----------------------------
(***************************************************************************)
(* Instance of Permissions: a folder with a document in it and one role,   *)
(* which may allow nothing, reading, or reading under scope locks as well, *)
(* and which a group has at the root.                                      *)
(***************************************************************************)
EXTENDS Permissions

MCPermissions_ == {{}, {"folder.read"}, {"folder.read", "scope_lock.bypass"}}
MCFirstTree == [x \in Resources |-> IF x \in Folders THEN Root ELSE CHOOSE y \in Folders : TRUE]
MCFirstPerms == [x \in Roles |-> {"folder.read"}]
MCFirstAssigned == {<<x, y, Root>> : x \in Groups, y \in Roles}
=============================================================================
