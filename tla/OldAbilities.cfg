SPECIFICATION Spec
CONSTANTS
    strike = strike
    pact = pact
    ward = ward
    self = self
    A = A
    P = P
    X = X
    Nothing = Nothing
    Catalog <- Installed
    Starts <- GrantedBefore
    Batch = 2
    MaxPoints = 3
    MaxTickets = 4
    MaxXp = 1
    MaxSession = 2
    MaxLoads = 1
CHECK_DEADLOCK FALSE
INVARIANTS
    AbilitiesAccounted
    RewardXpKept
    SelectionIsLegal
