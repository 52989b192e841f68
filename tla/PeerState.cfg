SPECIFICATION PartSpec
CONSTANTS
    Peers = {l, p1, p2, p3, p4}
    Local = l
    MaxActive = 2
    MaxPassive = 2
    ActiveRandomWalkLength = 1
    ShuffleSampleSize = 2
    MaxShuffled = 1
SYMMETRY RemoteSymmetry
INVARIANTS ViewOK ReconnectsFitFreeSlots VerifiedOnOneLine
PROPERTIES TransitionsTellView VerifiedMovesOn
CHECK_DEADLOCK FALSE
