SPECIFICATION OrderSpec
CONSTANTS
    Proc = {p1, p2}
    Required = 1
    MaxFaults = 0
    TxUnlisted = FALSE
    InitialBalance = 1
    MaxRequests = 2
SYMMETRY MCSymmetry
INVARIANTS CompletedIsFunded RefundTakesGoodsBack HandedIsKept
CHECK_DEADLOCK FALSE
