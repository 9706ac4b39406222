SPECIFICATION SpecVoting
CONSTANTS
    cA = cA
    cB = cB
    cD = cD
    outX = outX
    outY = outY
    v1 = v1
    v2 = v2
    b1 = b1
    b2 = b2
    b3 = b3
    Forker = Forker
    ConflictID <- ChainConflicts
    ResourceID = {outX, outY}
    Voter = {v1, v2}
    Weight <- MCWeight
    Block = {b1, b2, b3}
    Issuer <- MCIssuer
    SequenceNumber <- MCSequenceNumber
    Spends <- ChainSpends
    ParentsOf <- MCParents
    ResourcesOf <- ChainResources
    First = {cA, cD}
    Rank <- MCRank
INVARIANTS
    AcceptedBacked
    QuorumDecided
    LikedReality
PROPERTIES
    LaterVotesStay
CHECK_DEADLOCK FALSE
