SPECIFICATION Spec
CONSTANTS
    None = None
    Requests = {t1, t2}
    Tokens = {j1, j2}
    MaxPwd = 3
    Limit = 1
    ClientOps = {"access", "logout", "change"}
    SerialChanges = TRUE
    Crashes = TRUE
INVARIANTS TypeOK LogoutIsFinal PasswordChangeRevokes TokensProveThePassword WindowIsBounded
PROPERTIES RefinesAdmission
SYMMETRY Symmetry
