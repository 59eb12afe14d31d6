SPECIFICATION Spec
CONSTANTS
    Proc = {p1, p2}
    Amounts = {1, 2}
    TopUpAmount = 2
    Required = 1
    MaxChanges = 2
    MaxFaults = 0
INVARIANTS BalanceIsLedger
CHECK_DEADLOCK FALSE
