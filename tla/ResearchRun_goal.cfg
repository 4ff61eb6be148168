SPECIFICATION Spec
CONSTANTS
    Goals = {g1, g2}
    NoGoal = NoGoal
    Exps = {e1, e2}
    NoExp = NoExp
    ChosenLimit = 2
    MaxClicks = 2
    MaxTroubles = 0
PROPERTY WorksForItsGoal
