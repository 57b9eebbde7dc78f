SPECIFICATION FairSpec
CONSTANTS
    None = None
    Readers = {r1, r2}
    Writers = {x1}
    Products = {p1}
    InitRows = {}
    InitVer = 0
    MaxRev = 2
    MaxUnits = 2
    MaxVer = 2
    WriteOps = {"create", "sell"}
    SlowRebuilds = FALSE
    Crashes = TRUE
INVARIANTS OneRebuilder DetailStaleOnlyByRace ListStaleOnlyByRace
PROPERTIES AskedProductsAreCached
