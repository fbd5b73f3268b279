SPECIFICATION Spec
CONSTANTS
    u1 = u1
    u2 = u2
    p1 = p1
    x1 = x1
    x2 = x2
    Uploaders = {u1, u2}
    Reports = {p1}
    Runs = {x1}
    Providers = {"ai", "search", "synthesis"}
    AnalysisLimit = 1
    StorageLimit = 1
    Budget = 1
    MaxCost = 1
    MaxMonth = 2
    MaxInterrupts = 1
SYMMETRY SameUploaders
INVARIANTS
    TypeOK
    CountersMatchRows
    RowHasOneWriter
    OvershootIsBounded
    BudgetOvershootIsBounded
CHECK_DEADLOCK FALSE
