CONSTANTS
    s1 = s1
    s2 = s2
    p1 = p1
    Sources = {s1}
    Parents = {p1}
    Streams <- OneStream
    ChanCap = 2
    MergedCap = 1
    BatchSize = 2
    FlushMaxRetries = 1
    MaxFailures = 2
    MaxRestarts = 1
SPECIFICATION FairSpec
PROPERTIES EventuallySettled ShutdownCompletes
CHECK_DEADLOCK FALSE
