SPECIFICATION Spec
CONSTANTS
    a1 = a1
    a2 = a2
    Analyses = {a1}
    NSteps = 3
    Critical = {1, 2}
    MaxCrashes = 0
    MaxFaults = 1
INVARIANTS
    NeverRaises
CHECK_DEADLOCK FALSE
