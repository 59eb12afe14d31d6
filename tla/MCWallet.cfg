SPECIFICATION FairSpec
CONSTANTS
    Proc = {p1, p2}
    Amounts = {1, 2}
    TopUpAmount = 2
    Required = 2
    MaxChanges = 1
    MaxFaults = 1
INVARIANTS BalanceIsFunded CreditIsPaid
PROPERTIES PendingTopUpEnds
CHECK_DEADLOCK FALSE
