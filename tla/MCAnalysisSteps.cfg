SPECIFICATION Spec
CONSTANTS
    AiHigh = 85
    AiMedium = 50
    LanguageProbable = 90
    FamiliesForStrong = 2
    LevelConfidence <- Confidences
    Overrides <- Lowering
    ConflictPenalty = 15
    Tolerance = 1
    Forensic <- Defaults
    NearImage = 10
    NearText = 50
    Worlds <- AllWorlds
INVARIANTS
    TypeOK
    NoStepMissesItsInput
    FindingsRestOnSteps
    ConflictsKeepBothSides
    CorrelatedSignalsCountOnce
    
    GroundedMeansSupported
PROPERTIES
    LevelsWithinCeilings
    ColumnsAreNotClobbered
CHECK_DEADLOCK FALSE
