SPECIFICATION Spec
CONSTANTS
    Focus = {"tickets", "secrets", "addresses", "users", "team", "faq", "caches", "notices", "audit", "reads"}
    s1 = s1
    i1 = i1
    e1 = e1
    n1 = n1
    c1 = c1
    c2 = c2
    q1 = q1
    q2 = q2
    Proc = {p1, p2}
    MaxRequests = 5
    Ticket = {t1}
    Customer = {u1}
    Staff = {s1, s2}
    SuperAdmin = {}
    TicketPatches <- MCTicketPatches
    MaxMessages = 3
    Account = {i1, i2}
    Email = {e1, e2}
    UserName = {n1, n2}
    Category = {c1, c2}
    Item = {q1, q2}
    Orders <- MCOrders
    MaxPosition = 2
    Customers = {1, 2, 3, 4}
    NoticeBatch = 2
    Attempts = 2
    BatchSize = 1
    RowCap = 3
    InitialRows <- MCInitialRows
    RowId = {1, 2, 3, 4}
INVARIANTS
    BackOfficeTypeOK
    NewsIsOnItsWay
    SpentCodesStaySpent
    ReorderIsWhole
    StaleIsExcused
    NoticeReachesAll
    AuditIsKept
    ReadingIsExact
PROPERTIES
    BanIsKept
SYMMETRY MCSymmetry
CHECK_DEADLOCK FALSE
