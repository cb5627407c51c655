SPECIFICATION MCSpec
CONSTANTS
    Tasks = {t1}
    MaxUpdates = 4
    MaxRestarts = 2
    NumAccounts = 2
    SwitchAfter = 3
    OneAtATime = TRUE
    QuietBreaks = TRUE
    MaxPanel = 2
    MaxCrashes = 1
    Parts = {"writer", "session", "purchase", "stock", "seller"}
    MaxConfirmRetries = 1
    MaxByHand = 1
    MaxBuys = 1
    MaxWindows = 2
    MaxInbox = 2
    Goods = {gem, bow}
    Priced = {gem, bow}
    PriceServers = {"cofl", "finder", "none"}
    Room = 2
    NearFull = 1
    HouseSlots = 1
    MaxTrouble = 1
    Selected = {a1}
    SellerChannels = {d1}
    Others = TRUE
    MaxStarts = 2
    MaxStops = 1
INVARIANTS
    
    BreakKeepsSession
PROPERTIES
    ChangesAreSaved
    EveryAccountHasItsTurn
    PurchaseEnds
    PurchasesAreSold
    
CHECK_DEADLOCK FALSE
