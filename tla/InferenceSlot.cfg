SPECIFICATION FairSlotSpec
CONSTANTS
    Callers = {s1, s2, s3, h1, h2}
    Streams = {s1, s2, s3}
    Capacity = 2
INVARIANTS
    SlotsConserved
    NoLostWakeUp
    PendingAccounted
PROPERTIES
    WaitersAreServed
CHECK_DEADLOCK FALSE
