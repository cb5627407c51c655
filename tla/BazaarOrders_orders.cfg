SPECIFICATION Spec
CONSTANTS
    Buys = {"coal"}
    Sells = {"iron"}
    AgeCancel = FALSE
    Prompt = TRUE
    OrdersAtStart <- CoalOpen
    MaxOrders = 2
    MaxWindows = 2
    MaxAsks = 1
    MaxCancels = 1
    MaxWork = 2
    MaxCancelRetries = 1

    
PROPERTIES
    YoungOrdersKept
CHECK_DEADLOCK FALSE
