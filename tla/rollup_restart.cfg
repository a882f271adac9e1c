CONSTANTS
    s1 = s1
    x1 = x1
    o1 = o1
    Sources = {s1}
    Sessions = {x1}
    Ops = {o1}
    SourceOf <- MCSourceOf
    SessionOf <- MCSessionOf
    HoursPerDay = 2
    MaxClock = 2
    MaxVersion = 2
    MaxRestarts = 1
SPECIFICATION MCSpec
INVARIANTS TypeOK MismatchCovered OpenNeverMaterialized
CHECK_DEADLOCK FALSE
