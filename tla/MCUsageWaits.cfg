SPECIFICATION FairSpec
CONSTANTS
    u1 = u1
    u2 = u2
    p1 = p1
    x1 = x1
    x2 = x2
    Uploaders = {}
    Reports = {p1}
    Runs = {x1, x2}
    Providers = {"ai", "search", "synthesis"}
    AnalysisLimit = 1
    StorageLimit = 1
    Budget = 1
    MaxCost = 1
    MaxMonth = 1
    MaxInterrupts = 1
PROPERTIES
    EveryTransactionEnds
CHECK_DEADLOCK FALSE
