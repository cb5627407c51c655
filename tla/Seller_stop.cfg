SPECIFICATION SellerSpec
CONSTANTS
    Selected = {a1}
    SellerChannels = {d1}
    Others = TRUE
    MaxStarts = 1
    MaxStops = 1
PROPERTY StopsAll
CHECK_DEADLOCK FALSE
