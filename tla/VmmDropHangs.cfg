CONSTANTS
    Cpus = {0}
    Max = 1
    MaxLogs = 1
    Debugger = TRUE
SPECIFICATION FairSpec
PROPERTIES DropReturns
CHECK_DEADLOCK FALSE
