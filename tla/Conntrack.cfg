SPECIFICATION FairSpec
CONSTANTS
    Conns = {c1, c2}
    Peers = {p}
    ThePeer = p
    PeerOf <- AllToOne
    MaxPeerConnections = 1
INVARIANTS NoOrphan 
PROPERTIES  GarbageIsCollected
