SPECIFICATION Spec
CONSTANTS
    Turns = {t1, t2}
    NoTurn = NoTurn
    MaxCrashes = 0
    MaxFaults = 0
INVARIANT ForgottenStaysForgotten
CHECK_DEADLOCK FALSE
