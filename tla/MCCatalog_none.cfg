SPECIFICATION Spec
CONSTANTS
    None = None
    Readers = {r1, r2}
    Writers = {x1}
    Products = {p1}
    InitRows = {p1}
    InitVer = 1
    MaxRev = 2
    MaxUnits = 2
    MaxVer = 3
    WriteOps = {"create", "update", "sell", "delist", "relist"}
    SlowRebuilds = FALSE
    Crashes = FALSE
INVARIANTS NoneMeansNoProduct
SYMMETRY Symmetry
