CONSTANTS
    Chars = {1, 2, 3, 4, 5}
    Rids = {1, 2, 3}
    RidSpan = 5
    LeafMax = 4
    InternalMax = 4
    MaxPages = 12
    MaxLeaks = 1
    UserKeys <- MCUserKeys
    Files <- MCFiles
SPECIFICATION Spec
CHECK_DEADLOCK FALSE
INVARIANTS TreeValid PinsAccounted ScansExact
PROPERTY ImplementsOrderedIndex
