SPECIFICATION Spec
CONSTANTS
    Second = 3
    MaxOffset = 39
    MaxTime = 9
INVARIANTS TypeOK CloseClockPasses DriftIsNoticed
CHECK_DEADLOCK FALSE
