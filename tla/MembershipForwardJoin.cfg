SPECIFICATION FairSpec
CONSTANTS
    a = a
    b = b
    c = c
    Peers = {a, b, c}
    MaxActive = 3
    MaxPassive = 2
    ActiveRandomWalkLength = 1
    ShuffleSampleSize = 2
    Scenarios <- Joining
PROPERTIES ForwardJoinsEnd
CHECK_DEADLOCK FALSE
