SPECIFICATION RulesSpec
CONSTANTS
    hide = hide
    locks = locks
    b = b
    Bad <- b
    MaxByte = 4
    RuleSets <- Rules
    Skills <- Thief
    MaxSkill = 2
    Words = 8
    XpLimit = 4
CHECK_DEADLOCK FALSE
INVARIANTS
    SplitFree
    PlanIsExact
