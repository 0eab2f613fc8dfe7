SPECIFICATION FairSpec
CONSTANTS
    Documents = {"d"}
    Cases = {"c"}
    RefsOf <- RefersToAll
    None = None
    Unrenderable = {}
    MaxAttempts = 2
    LateEdits = FALSE
    Overlapping = FALSE
    MaxVersions = 2
    MaxHolds = 1
    MaxRequests = 1
    MaxFaults = 2
CHECK_DEADLOCK FALSE
INVARIANT EveryVersionKept
INVARIANT PackageIsClosure
PROPERTY DueIsReleased
PROPERTY DehydrationSettles
