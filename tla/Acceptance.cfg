SPECIFICATION SpecAcceptance
CONSTANTS
    b1 = b1
    b2 = b2
    b3 = b3
    b4 = b4
    b5 = b5
    b6 = b6
    v1 = v1
    v2 = v2
    w1 = w1
    w2 = w2
    Block = {b1, b2, b3, b4, b5, b6}
    StrongParents <- MCParents
    WeakParents <- MCWeakParents
    MaxPastMarkerDistance = 2
    Voter = {v1, v2}
    Weight <- MCWeight
    Issuer <- MCIssuer
    SequenceNumber <- MCSequenceNumber
    Worker = {w1, w2}
    MaxHandlers = 2
SYMMETRY WorkerSymmetry
INVARIANTS
    VotesInAnyOrder
    
    AcceptedByQuorum
    PastConeAccepted
CHECK_DEADLOCK FALSE
