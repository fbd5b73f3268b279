SPECIFICATION Spec
CONSTANTS
    t1 = t1
    t2 = t2
    t3 = t3
    f1 = f1
    f2 = f2
    Tabs = {t1}
    Prefetches = {f1, f2}
    MaxLogins = 3
    MaxTokens = 5
    MaxFailures = 2
INVARIANTS
    TypeOK
    JarMatchesSession
PROPERTIES
    LogoutIsFinal
CHECK_DEADLOCK FALSE
