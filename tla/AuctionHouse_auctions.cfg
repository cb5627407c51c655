SPECIFICATION MCSpec
CONSTANTS
    Items = {sword, bow}
    NoItem = NoItem
    Theirs = theirs
    OwnOnly = FALSE
    Limit = 1
    MaxRetries = 1
    MaxSells = 2
    MaxClaims = 2
    MaxCancels = 1
    MaxMoves = 1
    MaxResets = 1
    Parallel = FALSE
    MaxRequests = 4
    MaxRestarts = 1
    Instances = {i1}
    Grace = 1
    MaxTime = 2
    MaxNews = 3
    MaxDrops = 1
    Accounts = {a1, a2}
    Mate = mate
    Wares = {x}
    Bids = {1, 2}
    MaxListings = 1
    Pages = 2
    MaxAuctions = 2
    MaxEnds = 1
    MaxWeeks = 1
INVARIANTS
    PriceIsItsOwn
    SettingsKept
PROPERTIES
    FlowEnds
    
    PaidRuns
CHECK_DEADLOCK FALSE
