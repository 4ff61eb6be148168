SPECIFICATION SwitchSpec
CONSTANTS
    MaxCommands = 4
    MaxCrashes = 3
    MaxFaults = 0
INVARIANTS
    HoldSurvivesRestart
CHECK_DEADLOCK FALSE
