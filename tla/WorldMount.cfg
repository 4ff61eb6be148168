SPECIFICATION Spec
CONSTANTS
    Worlds = {a, b}
    NoWorld = NoWorld
    Hinting = {a}
    Actors = {"portal", "grow", "cli"}
    MaxJobs = 3
    Together = 2
    Chained = FALSE
    Brought = {2}
    MaxFaults = 1
    MaxVersion = 2
INVARIANTS
    TypeOK
    MountHeals
    UnmountClears
PROPERTIES
    SwitchNeedsARace
CHECK_DEADLOCK FALSE
