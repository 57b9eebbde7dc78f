SPECIFICATION Spec
CONSTANTS
    p1 = p1
    p2 = p2
    None = None
    Sweeper = sweeper
    Workers = {w1, w2}
    Users = {admin}
    Admins = {admin}
    OrderIds = {o1, o2}
    Products = {p1}
    InitRows = {p1}
    InitStock = 2
    MaxQty = 1
    MaxStock = 2
    StockEdits = {}
    PaymentIds = {k1, k2}
    Faults = TRUE
    ClientOps = {"pay"}
    Baskets <- OneProduct
INVARIANTS PaymentIdBindsOneOrder SuccessMeansDone
SYMMETRY Symmetry
