SPECIFICATION Spec
CONSTANTS
    i1 = i1
    NoItem = NoItem
    Line = {l1, l2, l3}
    Item = {i1, i2}
    Tx = {t1, t2}
    Quantity <- MCQuantity
    InitialStock = {0, 1}
    CounterEdits = {2}
    MaxStock = 3
SYMMETRY MCSymmetry
INVARIANTS LineOwnership
PROPERTIES ImplementsLife
