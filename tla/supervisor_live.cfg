CONSTANTS
    MaxBatches = 1
    MaxFaults = 1
    MaxRestarts = 1
    MaxTroubles = 1
SPECIFICATION Spec
PROPERTIES
    ScanGateOpensEventually
    StopEnds
    DebtIsRepaid
CHECK_DEADLOCK FALSE
