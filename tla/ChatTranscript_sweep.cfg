SPECIFICATION Spec
CONSTANTS
    Turns = {t1, t2}
    NoTurn = NoTurn
    MaxCrashes = 1
    MaxFaults = 0
INVARIANT SweepLeavesNoOrphans
CHECK_DEADLOCK FALSE
