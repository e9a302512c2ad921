CONSTANTS
    b1 = b1
    b2 = b2
    Builders <- MCBuilders
    NoBid = NoBid
    MaxSlot = 2
    NumRequests = 3
    ReqBuilder <- RaceBuilder
    ReqSlot <- RaceSlot
    Values = {1, 2}
    StoreFaults = FALSE

SPECIFICATION Spec

PROPERTY LatestBidNeverOlder
