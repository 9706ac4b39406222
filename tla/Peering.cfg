SPECIFICATION Spec
CONSTANTS
    pOut = pOut
    pIn = pIn
    Peer = {pIn}
    Inbound = {pIn}
    MaxFailures = 2
    MaxAdded = 2
    AutoPeers = {pIn}
INVARIANTS
    OneNeighborPerPeer
    DroppedStaysDisconnected
PROPERTIES
    RemovalAndStopReturn
CHECK_DEADLOCK FALSE
