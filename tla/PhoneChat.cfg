SPECIFICATION FairSpec
CONSTANTS
    Callers = {p1, p2, p3, s1}
    Streams = {s1}
    Phones = {p1, p2, p3}
    Capacity = 1
    CapTurns = 2
    CapTokens = 1
    MaxAnswer = 1
    MaxCrashes = 1
    MaxFaults = 1
INVARIANTS
    TypeOK
    TurnsWithinTheDay
    TokensWithinTheDay
PROPERTIES
    PhoneHears
CHECK_DEADLOCK FALSE
