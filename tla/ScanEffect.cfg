SPECIFICATION ScanSpec
CONSTANTS
    Threads = {t1}
    Values = {v1, v2}
    Blank = Blank
    NoThread = NoThread
    Capacity = 2
    ByteBits = 2
    MaxPages = 3
    AnyRow = AnyRow
SYMMETRY ValueSymmetry
INVARIANTS StatementEffect StatementEnds
PROPERTY ScanAdvances
CHECK_DEADLOCK FALSE
