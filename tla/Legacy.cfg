CONSTANTS
    t1 = t1
    t2 = t2
    Entries <- ENTRIES
    Keys <- MCKeys
    Asked <- MCAsked
    Values = {0, 24}
    Slots = {0, 12, 13}
    Threads = {t1, t2}
    Sigs = {9, 17, 20}
    Handlers = {0, 1, 4096}
    Masks = {{}, {9, 20}}
    Flags = {{"SA_SIGINFO"}, {"SA_SIGINFO", "SA_RESTART"}, {"SA_SIGINFO", "SA_NOCLDSTOP", "SA_NOCLDWAIT"}}
    Pid = 11
    Spawners = {t1, t2}
    MaxPid = 12
    MaxTid = 2
SPECIFICATION MCSpec
INVARIANTS OneEntry SignalsConsistent OwnPid OneVnode Lands
CHECK_DEADLOCK FALSE
