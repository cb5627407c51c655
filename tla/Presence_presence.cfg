SPECIFICATION MCSpec
CONSTANTS
    Friends = {TRUE, FALSE}
    Steps = 1
    RejoinCap = 3
    StallMax = 2
    MaxDrops = 1
    MaxOutages = 1
    MaxLeaves = 1
    MaxCommands = 2
CHECK_DEADLOCK FALSE
PROPERTIES
    StartupComes
    ServesAgain
    ComesHome
