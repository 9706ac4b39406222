SPECIFICATION Spec
CONSTANTS
    txA = txA
    txB = txB
    outG = outG
    outA = outA
    outB = outB
    blkA1 = blkA1
    blkA2 = blkA2
    blkB = blkB
    NoTransaction = NoTransaction
    Inputs <- MCInputs
    Outputs <- MCOutputs
    Payload <- MCPayload
    IssuingTime <- MCIssuingTime
    ConflictParents <- NoParents
    ResourceID = {outG, outA, outB}
    GenesisOutputs = {outG}
    Duration = 2
    MinCommittableEpochAge = 0
    SnapshotDepth = 1
    CounterSize = 16
    MaxEpoch = 2
    ConflictID <- ChainTransactions
    Block <- ChainBlocks
    InitialBlocks <- EarlyBlocks
    Conflicting = {txB}
    StartSynced = FALSE
INVARIANTS
    NotarizationTypeOK
    TransactionInOneEpoch
    
    
    CommittedEpochsClosed
CHECK_DEADLOCK FALSE
