CONSTANTS
    b1 = b1
    b2 = b2
    Absent = Absent
    Builders <- MCBuilders
    Values = {1}
    Collaterals = {0, 2}
    InitCollateral = 2
    NumSubs = 2
    SubBuilder <- PairSubBuilder
    SubSlot <- PairSubSlot
    MaxSlot = 2
    MaxOperatorCalls = 1
    DBFaults = TRUE

SPECIFICATION Spec

INVARIANT TypeOK


CHECK_DEADLOCK FALSE
