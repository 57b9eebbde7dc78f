SPECIFICATION Spec
CONSTANTS
    p1 = p1
    p2 = p2
    None = None
    Sweeper = sweeper
    Workers = {w1}
    Users = {alice}
    Admins = {}
    OrderIds = {o1}
    Products = {p1}
    InitRows = {p1}
    InitStock = 1
    MaxQty = 1
    MaxStock = 2
    StockEdits = {}
    PaymentIds = {k1}
    Faults = FALSE
    ClientOps = {"pay", "cancel", "refund", "ship", "complete"}
    Baskets <- OneProduct
INVARIANTS CancelledPayRejected
SYMMETRY Symmetry
