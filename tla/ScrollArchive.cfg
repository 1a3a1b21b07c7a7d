SPECIFICATION Spec
CONSTANTS
    Chars = {a, b}
    a = a
    b = b
    Holders = {a}
    None = None
    MaxEffects = 2
    MaxUses = 1
    MaxChanges = 3
    MaxLives = 3
    MaxRestarts = 1
CHECK_DEADLOCK FALSE
INVARIANT
    AncestryIsTrue
    AncestrySurvives
