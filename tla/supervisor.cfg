CONSTANTS
    MaxBatches = 1
    MaxFaults = 1
    MaxRestarts = 1
    MaxTroubles = 3
    RowsOf <- ThreeAndTwo
    IdRank <- LaterFirst
    SessionOf <- Homes
    BucketOf <- Hours
    PageSize = 2
    MaxEdits = 2
    MaxBreaks = 2
    MaxCrashes = 1
SPECIFICATION RepairSafety
INVARIANTS
    RepairNeverForgotten
    StaleIsHandled
    SearchSettles
    RebuildDoesNotRaceOps
CHECK_DEADLOCK FALSE
