SPECIFICATION ProgressSpec
CONSTANTS
    a = a
    b = b
    c = c
    Peers = {a, b, c}
    MaxActive = 1
    MaxPassive = 2
    ActiveRandomWalkLength = 1
    ShuffleSampleSize = 2
    Scenarios <- Crowded
PROPERTIES Settles
CHECK_DEADLOCK FALSE
