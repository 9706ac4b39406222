SPECIFICATION Spec
CONSTANTS
    blk1 = blk1
    blk2 = blk2
    blk3 = blk3
    node1 = node1
    node2 = node2
    None = None
    Block <- MCBlocks
    Node <- MCNodes
    Issuer <- MCIssuer
    IssuingTime <- MCIssuingTime
    Parents <- MCParents
    BlockSize <- MCBlockSize
    ManaVectors <- MCManaVectors
    MaxBuffer = 2
    MaxBlockSize = 2
    Unit = 8
    TotalMana = 2
    Threshold = 0
    MaxTime = 1
    Confirmable = {blk1}
INVARIANTS
    SchedulerTypeOK
    SizeConsistent
    ParentsEligible
    NoLostReady
PROPERTIES
    ReadyBlocksLeave
CHECK_DEADLOCK FALSE
