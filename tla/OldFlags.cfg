CONSTANTS
    Threads = {t1, t2}
    Sigs = {9, 17, 20}
    Handlers = {0, 1, 4096}
    Masks = {{}, {9, 20}}
    Flags = {{"SA_SIGINFO"}, {"SA_SIGINFO", "SA_RESTART"}, {"SA_SIGINFO", "SA_NOCLDSTOP", "SA_NOCLDWAIT"}}
    Pid = 11
SPECIFICATION SignalsSpec
PROPERTIES OldFlags
CHECK_DEADLOCK FALSE
