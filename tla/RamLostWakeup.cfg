CONSTANTS
    Threads = {t1, t2, t3}
    BlockSize = 2
    NumBlocks = 1
    MaxUsize = 9
    BlockRanges <- OneBlockRanges
    LockRanges <- OneLockRanges
    MaxHeld = 1
SPECIFICATION FairSpec
PROPERTIES LockReturnsNone
CHECK_DEADLOCK FALSE
