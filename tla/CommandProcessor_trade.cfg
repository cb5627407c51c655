SPECIFICATION FreeSpec
CONSTANTS
    Requests <- Trades
    MaxQueueSize = 2
    MaxRequests = 2
    MaxWindows = 1
    Toggles <- NoFlags
    SkipFlipsWhenFull = TRUE
INVARIANTS
    ExecutesCurrent
CHECK_DEADLOCK FALSE
