SPECIFICATION Spec
CONSTANTS
    Screens = {1, 2}
    Classes = {1, 2}
    MaxXp = 3
    MaxLevel = 2
    MaxInc = 2
    MaxCalls = 2
    MaxLoads = 2
CHECK_DEADLOCK FALSE
INVARIANT
    ResetAccounted
