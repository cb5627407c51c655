SPECIFICATION MCSpec
CONSTANTS
    Requests <- All
    MaxQueueSize = 2
    MaxRequests = 3
    MaxWindows = 1
    Toggles <- Inventory
    SkipFlipsWhenFull = TRUE
INVARIANTS
    FlipsExecuteWhenFree
PROPERTIES
    ManageWindowKept
    CommandCompletes
    SellingModeCollects
CHECK_DEADLOCK FALSE
