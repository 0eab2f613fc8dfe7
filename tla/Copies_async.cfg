SPECIFICATION HealingSpec
CONSTANTS
    k1 = k1
    k2 = k2
    a = a
    b = b
    c = c
    z = z
    v1 = v1
    v2 = v2
    None = None
    Rotten = Rotten
    Keys <- OneKey
    ArchiveKeys = {}
    Contents = {v1, v2}
    Body <- OneBody
    Live = {a, b, c}
    Archive = {}
    Primary = a
    Rank <- RankOf
    Governed = {}
    FlakyReads = {c}
    Strategy = "primary_async"
    QuorumCount = 1
    MaxAttempts = 2
    Horizon = 0
    MaxUploads = 2
    MaxRemovals = 0
    MaxFaults = 2
    MaxRot = 0
CHECK_DEADLOCK FALSE
 
INVARIANT ReadsAcknowledged
INVARIANT AlwaysRecoverable
INVARIANT PermanentIsAlerted
PROPERTY OwedCopiesSettle
