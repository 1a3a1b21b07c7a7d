SPECIFICATION Spec
CONSTANTS
    Actors = {a1}
    Effects = {e1}
    Messages = {}
    Fields <- MCFields
    Casters <- MCCasters
    Receivers <- MCReceivers
    Verbs = {"spell"}
    None = None
    Paths = {"action"}
    MaxDepth = 1
    LiveMax = 1
    TotalMax = 2
    MaxLife = 1
    MaxUses = 1
    MaxStack = 3
    MaxEvents = 1
    caster = caster
    queue = queue
INVARIANT WorkingLevel
