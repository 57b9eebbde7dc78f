SPECIFICATION Spec
CONSTANTS
    p1 = p1
    p2 = p2
    None = None
    Sweeper = sweeper
    Workers = {w1, w2}
    Users = {admin}
    Admins = {admin}
    OrderIds = {o1, o2}
    Products = {p1, p2}
    InitRows = {p1, p2}
    InitStock = 1
    MaxQty = 1
    MaxStock = 2
    StockEdits = {}
    PaymentIds = {}
    Faults = FALSE
    ClientOps = {"pay", "cancel", "refund", "ship", "complete"}
    Baskets <- BothProducts
INVARIANTS LocksBelongToTransactions SuccessMeansDone RefusalsAreFinal ChangesAreInvalidated WaitingEnds RoundSettles IInv
PROPERTIES RefinesBook LatePaymentRefused
SYMMETRY Symmetry
