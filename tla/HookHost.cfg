SPECIFICATION Spec
CONSTANTS
    Order <- StartOrder
    SiteCount <- FewSites
    u = u
    v = v
    Threads <- Others
    MaxMeddle = 2
SYMMETRY Alike
CHECK_DEADLOCK FALSE
INVARIANTS
    NothingDangles
    OutcomeIsTrue
