SPECIFICATION Spec
CONSTANTS
    Turns = {t1, t2}
    NoTurn = NoTurn
    MaxCrashes = 2
    MaxFaults = 1
SYMMETRY Interchange
INVARIANTS
    TypeOK
    DamageIsBounded
    SoundSweepLeavesNoOrphans
    DeletedStaysHidden
PROPERTIES
    AnswerStands
CHECK_DEADLOCK FALSE
