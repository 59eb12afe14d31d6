SPECIFICATION FairSpec
CONSTANTS
    Proc = {p1, p2}
    Required = 2
    MaxFaults = 1
    TxUnlisted = TRUE
INVARIANTS CompletedIsPaid ExpiredFreesStock StockWaitsForPayer
PROPERTIES PendingEnds StockSettles
CHECK_DEADLOCK FALSE
