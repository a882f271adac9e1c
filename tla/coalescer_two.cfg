CONSTANTS
    s1 = s1
    s2 = s2
    p1 = p1
    Sources = {s1, s2}
    Parents = {p1}
    Streams <- TwoStreams
    ChanCap = 1
    MergedCap = 1
    BatchSize = 2
    FlushMaxRetries = 1
    MaxFailures = 1
    MaxRestarts = 1
SPECIFICATION Spec
INVARIANTS NothingLostInOrder CursorCovered
PROPERTY LedgerSpec
CHECK_DEADLOCK FALSE
