CONSTANTS
    Labs = {ai, lab}
    Builds = {old, new}
    Slack = 1
    MaxTime = 3
    MaxFailures = 2
    MaxProbes = 2
    MaxTroubles = 2
SPECIFICATION Spec
INVARIANTS TypeOK FailureStands PassLifts
SYMMETRY Symmetry
CHECK_DEADLOCK FALSE
