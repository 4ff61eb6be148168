SPECIFICATION Spec
CONSTANTS
    Turns = {t1, t2}
    NoTurn = NoTurn
    MaxCrashes = 1
    MaxFaults = 0
PROPERTY CompletedIsImmutable
CHECK_DEADLOCK FALSE
