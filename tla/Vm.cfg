CONSTANTS
    Top = 8
    PAGE = 1
    GRAN = 1
    STACK = 1
    Threads = {t1, t2}
    Prots <- MCProts
    Names = {"x"}
    Lens = {2}
    Requests <- MCRequests
    Images <- MCImages
    OBCODE = 1
    OBDATA = 1
SPECIFICATION MCSpec
VIEW MCView
INVARIANTS Disjoint HostAgrees SegmentsProtected
PROPERTIES PageByPage
CHECK_DEADLOCK FALSE
