SPECIFICATION FairSpec
CONSTANTS
    Documents = {"d1", "d2"}
    Parts = {"v1", "v2"}
    Locks <- SecondLocked
    Derivations <- OneCopy
    Plans = {"trash", "erase", "pseudonymize"}
    Configs <- AllOrNone
    MaxEdits = 2
    MaxFaults = 1
 
 
PROPERTY OverdueIsHandled
