SPECIFICATION SettingsSpec
CONSTANTS
    Parallel = TRUE
    MaxRequests = 2
    MaxRestarts = 0
INVARIANT SessionsStay
CHECK_DEADLOCK FALSE
