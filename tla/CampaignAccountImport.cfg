CONSTANTS
    U32 = 8900003
    ExactMax = 15000000
    MaxRevision = 4
    NativeCap = 8000000
    Amounts <- MCAmounts
    Writes <- MCWrites
    Baselines <- MCBaselines
SPECIFICATION Spec
INVARIANT BothBalancesUsable
CHECK_DEADLOCK FALSE
