CONSTANTS
    Labs = {ai, lab}
    Builds = {old}
    Slack = 1
    MaxTime = 3
    MaxFailures = 2
    MaxProbes = 2
    MaxTroubles = 2
SPECIFICATION Spec
INVARIANT NoneClearedDuringItsProbe
CHECK_DEADLOCK FALSE
