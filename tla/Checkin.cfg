SPECIFICATION Spec
CONSTANTS
    Users = {"ann", "bob"}
    Overlapping = FALSE
    MaxVersions = 4
    MaxFaults = 1
INVARIANT NoLostUpdate
INVARIANT VersionsRetrievable
PROPERTY CheckinEndsSession
PROPERTY ImplementsHistory
