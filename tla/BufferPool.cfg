SPECIFICATION Spec
CONSTANTS
    Files = {f1, f2}
    Handles = {h1, h2}
    Values = {v1}
    Zero = Zero
    Garbage = Garbage
    NoFd = NoFd
    NumFrames = 4
    MaxPageNum = 4
    MaxOpens = 2
    MaxDisposes = 1
SYMMETRY HandleAndFileSymmetry
INVARIANTS PagesConsistent PinsExact ReadsSeeWrites
CHECK_DEADLOCK FALSE
