SPECIFICATION Spec
CONSTANTS
    Callers = {c1, c2}
    Free = Free
    CallSites <- Mixed
    MaxQueueSize = 1
    MaxCommands = 3
    LibraryApi = TRUE
SYMMETRY Symmetry
INVARIANTS
    OverLimitOnlyEssential
    Conservation
    NoLostWakeup
PROPERTIES
    EssentialKept
    ImplementsPriorityQueue
CHECK_DEADLOCK FALSE
