CONSTANTS
    Cpus = {0}
    Max = 2
    MaxLogs = 3
    Debugger = TRUE
SPECIFICATION FairSpec
INVARIANTS NoOrphan ExitSeen HonestOutcome
PROPERTIES UsesChannel CloseStops
CHECK_DEADLOCK FALSE
