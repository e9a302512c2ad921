CONSTANTS
    p1 = p1
    p2 = p2
    Proposers <- MCProposers
    SleepTicks = 5
    PayloadDelay = 3
    BestBidDelay = 1
    MaxTime = 7
    RedisFaults = TRUE


SPECIFICATION FairSpec

INVARIANT TypeOK
INVARIANT NoCommittedProposerRefused
PROPERTY ShutdownCompletes
CHECK_DEADLOCK FALSE
