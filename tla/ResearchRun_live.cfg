SPECIFICATION FairSpec
CONSTANTS
    Goals = {g1}
    NoGoal = NoGoal
    Exps = {e1, e2}
    NoExp = NoExp
    ChosenLimit = 1
    MaxClicks = 2
    MaxTroubles = 0
PROPERTIES
    HoldEndsTheRun
    RunsDoNotHang
