SPECIFICATION Spec
CONSTANTS
    Threads = {t1}
    Values = {v1, v2}
    Blank = Blank
    NoThread = NoThread
    Capacity = 3
    ByteBits = 2
    MaxPages = 2
    PageDataSize = 8184
    PageHeaderSize = 20
    MaxRecordSize = 8400
SYMMETRY ValueSymmetry
INVARIANTS PageExact AckedIsStored SearchesExact NoSpaceLost LayoutFits
