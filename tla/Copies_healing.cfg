CONSTANTS
  k1 = k1  k2 = k2
  a = a  b = b  c = c  z = z
  v1 = v1  v2 = v2
  None = None
  Rotten = Rotten
  Keys <- OneKey
  ArchiveKeys = {}
  Contents = {v1, v2}
  Body <- OneBody
  Live = {a, b, c}
  Archive = {}
  Primary = a
  Rank <- RankOf
  Governed = {}
  FlakyReads = {}
  Strategy = "primary_async"
  QuorumCount = 1
  MaxAttempts = 3
  Horizon = 0
  MaxUploads = 1
  MaxRemovals = 0
  MaxFaults = 0
  MaxRot = 1
SPECIFICATION HealingSpec
CHECK_DEADLOCK FALSE
PROPERTY DamageHeals
