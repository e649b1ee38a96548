CONSTANTS
    Top = 16
    PAGE = 2
    GRAN = 1
    STACK = 2
    Threads = {t1, t2}
    Prots <- MCProts
    Names = {"x"}
    Lens = {}
    Requests = {}
    Images <- MCImages
    OBCODE = 2
    OBDATA = 2
SPECIFICATION LeakSpec
PROPERTIES DropReleases
CHECK_DEADLOCK FALSE
