CONSTANTS
    Threads = {t1, t2}
    BlockSize = 2
    NumBlocks = 3
    MaxUsize = 9
    BlockRanges <- MCBlockRanges
    LockRanges <- MCLockRanges
    MaxHeld = 2
SPECIFICATION HFairSpec
INVARIANTS SafeLoans
PROPERTIES LendsWholeRanges LockAnswer DeallocComplete CallsReturn
CHECK_DEADLOCK FALSE
