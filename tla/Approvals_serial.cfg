SPECIFICATION FairSpec
CONSTANTS
    Requests = {"superuser.activate", "role.create", "force_unlock"}
    ActionOf <- MCActionOf
    InitiatorOf <- MCInitiatorOf
    People = {"ann", "bob"}
    Holders = {"ann", "bob"}
    Serialised = TRUE
    MaxFaults = 1
INVARIANT OnlyApprovedExecuted
 
PROPERTY BreakGlassNeedsTwo
PROPERTY ApprovedTakesEffect
