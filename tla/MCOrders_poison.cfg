SPECIFICATION FairSpec
CONSTANTS
    p1 = p1
    p2 = p2
    None = None
    Sweeper = sweeper
    Workers = {w1}
    Users = {admin}
    Admins = {admin}
    OrderIds = {o1}
    Products = {p1}
    InitRows = {p1}
    InitStock = 1
    MaxQty = 1
    MaxStock = 1
    StockEdits = {1}
    PaymentIds = {}
    Faults = FALSE
    ClientOps = {"pay", "cancel", "refund", "ship", "complete"}
    Baskets <- OneProduct
PROPERTIES OverdueSettled
