SPECIFICATION Spec
CONSTANTS
    a1 = a1
    a2 = a2
    r1 = r1
    r2 = r2
    w1 = w1
    w2 = w2
    Analyses = {a1}
    Reports = {r1}
    Sweepers = {w1}
    ContentHours = 1
    RecordDays = 0
    GraceDays = 1
    MaxInterrupts = 0
    MaxStorageFaults = 0
PROPERTIES
    KeptOriginalStays
CHECK_DEADLOCK FALSE
