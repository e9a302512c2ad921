SPECIFICATION Spec

CONSTANTS
    v1 = v1
    v2 = v2
    Validators <- MCValidators
    Known = {v1}
    LaterKnown = {v2}
    Handlers = {1, 2}
    Batch <- RaceBatch
    ChanCap = 1
    Workers = {1, 2}
    Timestamps = {1, 2}
    RedisFaults = TRUE
    DBFaults = TRUE

INVARIANT TypeOK
 

CHECK_DEADLOCK FALSE
