SPECIFICATION Spec
CONSTANTS
    buddy = buddy
    lab = lab
    Callers = {buddy, lab}
    Agents = {buddy}
    MaxCalls = 3
    MaxCommands = 2
    MaxTroubles = 1
PROPERTY PurgeKeepsLines
CHECK_DEADLOCK FALSE
