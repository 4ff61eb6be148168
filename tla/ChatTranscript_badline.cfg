SPECIFICATION Spec
CONSTANTS
    Turns = {t1, t2}
    NoTurn = NoTurn
    MaxCrashes = 0
    MaxFaults = 1
INVARIANT OneBadLineNeverEatsTheLog
CHECK_DEADLOCK FALSE
