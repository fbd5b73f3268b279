SPECIFICATION FairSpec
CONSTANTS
    i1 = i1
    i2 = i2
    Inspections = {i1, i2}
    Files <- FilesOf
    Engines <- BothEngines
    TrustOn = TRUE
    MaxStops = 1
INVARIANTS
    FailuresOnlyWithhold
    NothingIsLeftBehind
PROPERTIES
    EveryInspectionEnds
CHECK_DEADLOCK FALSE
