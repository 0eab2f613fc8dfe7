CONSTANTS
  a = a  b = b  c = c  z = z
  TargetIds = {a, b, z}
  FirstTargets = {b, z}
  Position <- RankOf
  EnvRole <- RoleOf
  Roles <- RolesOfB
  Objects = {k1, k2}
  ArchiveObjects = {k2}
  Admins = {x}
  Quorums = {1, 2}
  Policies = {TRUE}
  Exclusive = TRUE
  MaxChanges = 3
  MaxSwaps = 1
  MaxStarts = 2
SPECIFICATION TargetsSpec
CHECK_DEADLOCK FALSE
INVARIANT TargetsTypeOK
PROPERTY SwapsDetected
 
INVARIANT RowsFollowTargets
PROPERTY NothingStranded
