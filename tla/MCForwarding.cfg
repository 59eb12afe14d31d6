SPECIFICATION FwdSpec
CONSTANTS
    Proc = {p1, p2}
    Required = 1
    MaxFaults = 1
    TxUnlisted = FALSE
    NeedsGas = TRUE
    AdminForwards = TRUE
    MaxAttempts = 2
CHECK_DEADLOCK FALSE
SYMMETRY MCSymmetry
INVARIANTS ForwardedIsPaid ForwardedIsSwept
