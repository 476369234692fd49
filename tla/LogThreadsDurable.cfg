SPECIFICATION Spec
CONSTANTS
    Threads = {t1, t2}
    Trxs = {x1, x2}
    NoThread = NoThread
    NoTrx = NoTrx
    LogBufferSize = 4
    CommitLen = 1
    RecordLen = 2
    MaxRecords = 0
    MaxCrashes = 0
    MaxRestarts = 0
    Debug = TRUE
    MaxFails = 0
INVARIANT CommitDurable
CHECK_DEADLOCK FALSE
