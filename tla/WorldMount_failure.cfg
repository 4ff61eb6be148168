SPECIFICATION Spec
CONSTANTS
    Worlds = {a, b}
    NoWorld = NoWorld
    Hinting = {a}
    Actors = {"cli"}
    MaxJobs = 2
    Together = 2
    Chained = FALSE
    Brought = {2}
    MaxFaults = 1
    MaxVersion = 3
INVARIANTS
    OldWorldStays
CHECK_DEADLOCK FALSE
