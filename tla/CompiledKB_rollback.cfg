SPECIFICATION Spec
CONSTANTS
    Terms = {t1}
    Notes = {}
    MaxJobs = 4
    Together = 2
    MaxCrashes = 1
    MaxFaults = 0
PROPERTIES
    RollbackSparesClicks
CHECK_DEADLOCK FALSE
