SPECIFICATION FairSpec
CONSTANTS
    i1 = i1
    NoItem = NoItem
    Line = {l1, l2}
    Item = {i1}
    Tx = {t1, t2}
    Quantity <- MCQuantity
    InitialStock = {0}
    CounterEdits = {}
    MaxStock = 1
PROPERTIES StaleReservationEnds
