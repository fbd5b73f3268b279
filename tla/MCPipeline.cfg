SPECIFICATION FairSpec
CONSTANTS
    a1 = a1
    a2 = a2
    Analyses = {a1, a2}
    NSteps = 3
    Critical = {1, 2}
    MaxCrashes = 1
    MaxFaults = 1
INVARIANTS
    TypeOK
    CompletedIsWhole
    FailureIsExplained
    ReturnedMeansTerminal
    ProgressHasNoHoles
PROPERTIES
    TerminalIsFrozen
    LoadedSettles
    LifecycleSpec
CHECK_DEADLOCK FALSE
