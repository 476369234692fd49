SPECIFICATION FairSpec
CONSTANTS
    Cap = 4
    MaxBytes = 12
    MaxErrors = 1
INVARIANTS RingExact ClosedIsFlushed
PROPERTIES ImplementsByteStream CallsReturn
CHECK_DEADLOCK FALSE
