SPECIFICATION FairSpec

CONSTANTS
    StartSlot = 14
    MaxSlot = 18
    MaxVersion = 2
    RedisFaults = TRUE

INVARIANT TypeOK
PROPERTY DutiesNeverOlder
PROPERTY FlagReleased

CHECK_DEADLOCK FALSE
