CONSTANTS
    Senders = {s1, s2, s3}
    Max = 2
    MaxMsgs = 2
SPECIFICATION FairSpec
INVARIANTS Wakeups Fifo
PROPERTIES Delivered
CHECK_DEADLOCK FALSE
