CONSTANTS
    Shapes <- MCShapes
    Matrix <- MCMatrix
    MaxRows = 2
    Cap = 1
    Files <- MCFiles
    MaxChanges = 2
    MaxChecks = 2
    SampleSize = 2
SPECIFICATION MCSpec
INVARIANTS
    VerdictIsExact
    EnginesAgree
    VerdictIsSound
CHECK_DEADLOCK FALSE
