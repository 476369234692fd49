SPECIFICATION Spec
CONSTANTS
    Threads = {t1}
    Trxs = {x1, x2}
    NoThread = NoThread
    NoTrx = NoTrx
    LogBufferSize = 4
    CommitLen = 1
    RecordLen = 2
    MaxRecords = 2
    MaxCrashes = 1
    MaxRestarts = 1
    Debug = TRUE
    MaxFails = 1
INVARIANTS CommitDurable BeginNeverFull CommitReadable
PROPERTY ImplementsWriteAheadLog
CHECK_DEADLOCK FALSE
