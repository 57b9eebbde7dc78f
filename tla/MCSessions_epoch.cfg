SPECIFICATION Spec
CONSTANTS
    None = None
    Requests = {t1, t2}
    Tokens = {j1, j2}
    MaxPwd = 5
    Limit = 2
    ClientOps = {"change"}
    SerialChanges = FALSE
    Crashes = FALSE
PROPERTIES EpochNeverDecreases
SYMMETRY Symmetry
