SPECIFICATION FairSpec
CONSTANTS
    Callers = {c1, c2}
    Free = Free
    CallSites <- Eventual
    MaxQueueSize = 1
    MaxCommands = 2
    LibraryApi = FALSE
PROPERTIES
    EveryCommandLeaves
    EveryAwaitEnds
CHECK_DEADLOCK FALSE
