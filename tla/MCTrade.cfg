SPECIFICATION Spec
CONSTANTS
    Focus = {"coupons", "checkout", "drops", "vouches", "products", "images", "categories"}
    Proc = {p1, p2}
    MaxRequests = 4
    CouponId = {k1, k2}
    Code = {A, B}
    Values = {50, 104}
    Limits = {0, 1}
    g1 = g1
    g2 = g2
    Category = {g1, g2}
    Asked <- MCAsked
    NewCoupons <- MCNewCoupons
    Patches <- MCPatches
    User = {u1}
    Good = {g1, g2}
    Lined = {g1}
    Price = {100}
    Quantity = {1}
    InitialStock = 2
    MaxLines = 3
    Fee = 5
    DropId = {d1}
    Claimant = {c1, c2}
    Variant = {v1}
    Line = {l1, l2}
    Quantities = {1, 2}
    DropPatches <- MCDropPatches
    Author = {a1}
    Item = {i1}
    Claimed = {dc1}
    Vouch = {w1, w2, w3}
    MaxPerItem = 1
    Product = {x1, x2}
    Name = {n1, n2}
    MaxSuffix = 1
    Picture = {m1, m2, m3}
    VariantId = {y1}
    Stocks = {1}
    ProductDtos <- MCProductDtos
INVARIANTS
    TradeTypeOK
    DiscountIsCapped
    StockIsAccounted
    CouponUseIsBounded
    ClaimsAreSound
    VouchesAreSound
    OnePrimary
PROPERTIES
    WithdrawnStaysWithdrawn
SYMMETRY MCSymmetry
CHECK_DEADLOCK FALSE
