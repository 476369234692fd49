SPECIFICATION FairSpec
CONSTANTS
    Threads = {t1, t2}
    Trxs = {x1, x2}
    NoThread = NoThread
    NoTrx = NoTrx
    LogBufferSize = 4
    CommitLen = 1
    RecordLen = 2
    MaxRecords = 1
    MaxCrashes = 0
    MaxRestarts = 0
    Debug = FALSE
    MaxFails = 1
INVARIANTS CommitComplete SizeBounded
PROPERTY CallsReturnOnceQuiet
CHECK_DEADLOCK FALSE
