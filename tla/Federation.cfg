SPECIFICATION FairSpec
CONSTANTS
    Tasks = {"t"}
    Handovers = {"h1", "h2"}
    Operators = {"operator"}
    MaxAttempts = 2
    Overlapping = FALSE
    MaxRetries = 2
    MaxFaults = 5
INVARIANT PayloadKept
PROPERTY ImplementsExchange
PROPERTY RetriesEnd
CHECK_DEADLOCK FALSE
