CONSTANTS
    b1 = b1
    b2 = b2
    Builders <- MCBuilders
    NoBid = NoBid
    NumRequests = 3
    ReqBuilder <- RaceBuilder
    ReqSlot <- RaceSlot
    MaxSlot = 1
    Values = {1, 2}
    StoreFaults = TRUE

SPECIFICATION Spec

INVARIANT TypeOK
INVARIANT TopBidBacked
INVARIANT AcceptedBidReflected
PROPERTY AuctionRefinement
