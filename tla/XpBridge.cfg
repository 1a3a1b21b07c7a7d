SPECIFICATION FairSpec
CONSTANTS
    U32 = 7
    ExactMax = 15
    MaxRevision = 2
    s1 = s1
    s2 = s2
    e1 = e1
    e2 = e2
    Sprites = {s1, s2}
    Effects = {e1, e2}
    None = None
    Shapes <- ASetOrAnAward
    Setters <- ALoss
    FreshWords = {6}
    DriftWords = {5}
    RetryLimit = 1
    ForeignSlots = 1
    MaxInc = 3
    MaxDepth = 2
    MaxChanges = 2
    MaxEvents = 1
CONSTRAINT Slices
INVARIANTS
    NoXpLost
    ChangesCountOnce
PROPERTIES
    HandsOff
    SaveIsQuiet
    EffectsResolve
