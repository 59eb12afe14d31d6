SPECIFICATION FairFwdSpec
CONSTANTS
    Proc = {p1, p2}
    Required = 1
    MaxFaults = 0
    TxUnlisted = FALSE
    NeedsGas = FALSE
    AdminForwards = FALSE
    MaxAttempts = 1
INVARIANTS DetectedIsWatched
PROPERTIES DetectedIsDelivered 
CHECK_DEADLOCK FALSE
