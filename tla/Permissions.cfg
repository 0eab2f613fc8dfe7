SPECIFICATION FairSpec
CONSTANTS
    Clients = {c1}
    Principals = {p}
    Groups = {g}
    Everyone = everyone
    Roles = {r}
    Permissions_ <- MCPermissions_
    FirstPerms <- MCFirstPerms
    FirstTree <- MCFirstTree
    FirstAssigned <- MCFirstAssigned
    Root = root
    Folders = {a}
    Documents = {d}
    Capabilities = {"folder.read"}
    Asked = {d}
    Overlapping = FALSE
    MaxChanges = 1
    MaxLocks = 1
    MaxMoves = 2
    MaxFaults = 1
    None = None
INVARIANT TypeOK
 
PROPERTY MirrorCatchesUp
CHECK_DEADLOCK FALSE
