SPECIFICATION AppSpec
CONSTANTS
    None = None
    Requests = {r1, r2, seed}
    Scripts = {seed}
    ExpiryTask = sweeper
    Users = {1, 2}
    Usernames = {n1, n2}
    StoreErrors = {"ProductNotFoundError"}
    MaxLoops = 2
    Faults = TRUE
INVARIANTS TypeOK NamesUnique AnswersTellTheTruth HeldClientsWork CleanShutdown
PROPERTIES RefinesNames
SYMMETRY Symmetry
CHECK_DEADLOCK FALSE
