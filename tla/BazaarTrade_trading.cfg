SPECIFICATION MCSpec
CONSTANTS
    MaxTrades = 2
    MaxSales = 1
    MaxCookies = 1
    MaxPreempts = 1
    MaxSlots = 1
    Names <- MCNames
    x = x
    MaxFlips = 2
    MaxBought = 3
    MaxEnds = 2
    Items = {coal}
    OrdersAtStart = 1
    AgeCancel = TRUE
    Prompt = TRUE
    MaxOrders = 2
    MaxEvents = 2
    MaxCancels = 1
    MaxRuns = 2
INVARIANTS
    PlacedAsAsked
    ToldIsPlaced
    OneCookie
    CountedOnce
    HeldIsResolved
    
PROPERTIES
    TradeEnds
    CancelledStaysOut
CHECK_DEADLOCK FALSE
