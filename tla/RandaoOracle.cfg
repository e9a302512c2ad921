SPECIFICATION Spec

CONSTANTS
    MaxSlot = 3
    NumSubs = 2
    EarlySubmissions = TRUE
    RandaoFaults = TRUE

INVARIANT TypeOK
INVARIANT FlagNeverWedged

CHECK_DEADLOCK FALSE
