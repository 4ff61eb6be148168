SPECIFICATION Spec
CONSTANTS
    Goals = {g1, g2}
    NoGoal = NoGoal
    Exps = {e1, e2}
    NoExp = NoExp
    ChosenLimit = 2
    MaxClicks = 1
    MaxTroubles = 2
INVARIANT ReportsFinishedWorkOnly
