SPECIFICATION Spec
CONSTANTS
    Actors = {a1}
    Effects = {e1, e2}
    Messages = {m1}
    Fields <- MCFields
    Casters <- MCCasters
    Receivers <- MCReceivers
    Verbs = {"spell"}
    None = None
    Paths = {"action", "message", "direct", "link"}
    MaxDepth = 2
    LiveMax = 2
    TotalMax = 3
    MaxLife = 2
    MaxUses = 2
    MaxStack = 3
    MaxEvents = 1
    caster = caster
    queue = queue
CONSTRAINT Slices
SYMMETRY Swapped
INVARIANTS
    OwnedExactly
    LevelIsTrue
    NothingLeftBehind
    WorkingLevel
PROPERTIES
    NothingAfterDisable
