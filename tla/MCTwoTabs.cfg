SPECIFICATION Spec
CONSTANTS
    t1 = t1
    t2 = t2
    t3 = t3
    f1 = f1
    f2 = f2
    Tabs = {t1, t2}
    Prefetches = {}
    MaxLogins = 1
    MaxTokens = 4
    MaxFailures = 0
PROPERTIES
    DeniedMeansDead
CHECK_DEADLOCK FALSE
