SPECIFICATION SwitchSpec
CONSTANTS
    MaxCommands = 4
    MaxCrashes = 3
    MaxFaults = 2
INVARIANTS
    EdgeKeepsTheHold
    ResumeIsFinal
CHECK_DEADLOCK FALSE
