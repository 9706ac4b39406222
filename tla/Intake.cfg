SPECIFICATION Spec
CONSTANTS
    blkA = blkA
    blkB = blkB
    blkC = blkC
    blkD = blkD
    txA = txA
    txB = txB
    Genesis = Genesis
    NoTransaction = NoTransaction
    Block <- MCBlocks
    Transaction <- MCTransactions
    Parents <- MCParents
    LikeParents <- MCLikeParents
    Payload <- MCPayload
    IssuingTime <- MCIssuingTime
    Inputs <- MCInputs
    ByGenesisNode = {blkA, blkB}
    Filtered = {}
    Relayed = {blkB}
    MaxParentsTimeDifference = 1
    MaxRequestThreshold = 1
    FilterSize = 1
    MaxArrivals = 3
    MaxRestarts = 1
INVARIANTS
    RequestsTracked
    NoLostWakeUps
    CompleteConesBooked
PROPERTIES
    BlocksInCausalOrder
CHECK_DEADLOCK FALSE
