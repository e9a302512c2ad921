CONSTANTS
    b1 = b1
    b2 = b2
    Absent = Absent
    Builders <- MCBuilders
    Values = {1}
    Collaterals = {0, 2}
    InitCollateral = 2
    NumSubs = 2
    SubBuilder <- TwoSubBuilder
    SubSlot <- TwoSubSlot
    MaxSlot = 2
    MaxOperatorCalls = 1
    DBFaults = FALSE

SPECIFICATION Spec

PROPERTY OperatorBitsKept

CHECK_DEADLOCK FALSE
