SPECIFICATION Spec
CONSTANTS
    Terms = {t1}
    Notes = {n1}
    MaxJobs = 4
    Together = 2
    MaxCrashes = 1
    MaxFaults = 1
INVARIANTS
    RevocationHolds
    DismissalHolds
    ApprovalHolds
CHECK_DEADLOCK FALSE
