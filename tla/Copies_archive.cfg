SPECIFICATION Spec
CONSTANTS
    k1 = k1
    k2 = k2
    a = a
    b = b
    c = c
    z = z
    v1 = v1
    v2 = v2
    None = None
    Rotten = Rotten
    Keys <- TwoKeys
    ArchiveKeys = {k2}
    Contents = {v1, v2}
    Body <- OneBody
    Live = {a, b}
    Archive = {c, z}
    Primary = a
    Rank <- RankOf
    Governed = {b}
    FlakyReads = {}
    Strategy = "quorum"
    QuorumCount = 2
    MaxAttempts = 1
    Horizon = 1
    MaxUploads = 1
    MaxRemovals = 1
    MaxFaults = 1
    MaxRot = 0
CHECK_DEADLOCK FALSE
PROPERTY LockHonoured
PROPERTY QuorumHolds
