SPECIFICATION SpecLedger
CONSTANTS
    txA = txA
    txB = txB
    txC = txC
    txD = txD
    txE = txE
    outX = outX
    outZ = outZ
    outA = outA
    Genesis = Genesis
    None = None
    ConflictID <- ForkTransactions
    ResourceID = {outX, outZ, outA}
    Inputs <- ForkInputs
    Creator <- ForkCreator
    Invalid = {}
    Loaded <- FirstSpenders
    Includable = {txD}
INVARIANTS
    DoubleSpendsConflict
    ConflictsInherited
PROPERTIES
    ImplementsDAG
    
CHECK_DEADLOCK FALSE
