SPECIFICATION Spec
CONSTANTS
    a1 = a1
    a2 = a2
    r1 = r1
    r2 = r2
    w1 = w1
    w2 = w2
    Analyses = {a1}
    Reports = {}
    Sweepers = {w1, w2}
    ContentHours = 1
    RecordDays = 1
    GraceDays = 1
    MaxInterrupts = 1
    MaxStorageFaults = 1
SYMMETRY Interchangeable
INVARIANTS
    MarksAreTrue
    ExpiredOriginalIsGone
    KeepInTimeIsHonoured
    PurgeRemovesRecordedObjects
CHECK_DEADLOCK FALSE
