SPECIFICATION FairSpec
CONSTANTS
    Events = {"created", "updated", "registered", "force_deleted"}
    Subjects = {"document.>", "registry.>"}
    SubjectOf <- MCSubjectOf
    Forced = {"force_deleted"}
    Legacy <- MCLegacy
    DirectUpgrade = FALSE
    MaxFaults = 2
INVARIANT ChainVerifies
INVARIANT AckedIsRecorded
PROPERTY ImplementsLog
PROPERTY EventsRecorded
CHECK_DEADLOCK FALSE
