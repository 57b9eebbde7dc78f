SPECIFICATION Spec
CONSTANTS
    p1 = p1
    p2 = p2
    None = None
    Sweeper = sweeper
    Workers = {w1, w2}
    Users = {alice, admin}
    Admins = {admin}
    OrderIds = {o1, o2}
    Products = {p1}
    InitRows = {}
    InitStock = 0
    MaxQty = 2
    MaxStock = 3
    StockEdits = {1, 3}
    PaymentIds = {}
    Faults = TRUE
    ClientOps = {"cancel"}
    Baskets <- TwiceBaskets
INVARIANTS TypeOK Conserved ChangesAreInvalidated
SYMMETRY Symmetry
