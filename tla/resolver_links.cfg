CONSTANTS
    Feed <- Lineage
    Scope <- Sources
    NativeOf <- Natives
    MaxCommits = 3
    MaxFailures = 1
    MaxRestarts = 1
SPECIFICATION Spec
INVARIANTS GatesHideNothing CleanStopLinked OpsLinkOwnChildren
PROPERTIES LinksAreAnnounced LinksAreStable EventuallyLinked
CHECK_DEADLOCK FALSE
