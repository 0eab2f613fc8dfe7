SPECIFICATION Spec
CONSTANTS
    Users = {"ann", "bob"}
    Overlapping = TRUE
    MaxVersions = 3
    MaxFaults = 0
INVARIANT NoLostUpdate
