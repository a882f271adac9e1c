CONSTANTS
    Files = {f}
    Days <- OnlyDay
    DayOf <- Placement
    ChanCap = 1
    MaxLines = 3
    MaxFaults = 1
    MaxCrashes = 1
    Main = main
    Agents = {a}
    MaxCalls = 2
    MaxWork = 2
    MaxSlips = 1
SPECIFICATION TailsSpec
INVARIANTS
    CursorsAreHonest
    NothingForgotten
    CompletionKept
    NamesCatchUp
    TranscriptsKeptUp
PROPERTIES
    EofNotRepeated
    ClosesAreDue
CHECK_DEADLOCK FALSE
