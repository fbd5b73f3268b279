SPECIFICATION FairSpec
CONSTANTS
    x1 = x1
    x2 = x2
    x3 = x3
    k1 = k1
    m1 = m1
    m2 = m2
    Runs = {x1, x2, x3}
    Users = {m1}
    Keys = {k1}
    MaxInterrupts = 1
INVARIANTS
    TypeOK
    RepeatsAreFree
PROPERTIES
    EveryStepEnds
CHECK_DEADLOCK FALSE
