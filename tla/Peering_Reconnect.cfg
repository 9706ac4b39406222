SPECIFICATION SpecReachable
CONSTANTS
    pOut = pOut
    pIn = pIn
    Peer = {pOut}
    Inbound = {}
    MaxFailures = 1
    MaxAdded = 1
    AutoPeers = {}
PROPERTIES
    Reconnects
CHECK_DEADLOCK FALSE
