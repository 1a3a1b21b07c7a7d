SPECIFICATION Spec
CONSTANTS
    axe = axe
    Stats <- Axe
    StartLists <- AxeLists
    MaxPips = 2
    Rolls = {1, 2}
    MaxLevel = 3
    MaxSession = 3
    MaxInc = 2
    MaxLoads = 1
CONSTRAINT Slices
CHECK_DEADLOCK FALSE
INVARIANTS
    OldPipsKept
    GainsAccounted
PROPERTIES
    CancelRestores
    UnresolvedIsFinal
    ScreenIsTransaction
