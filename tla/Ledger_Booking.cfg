SPECIFICATION SpecBooking
CONSTANTS
    txA = txA
    txB = txB
    txC = txC
    txD = txD
    txE = txE
    outX = outX
    outZ = outZ
    outA = outA
    Genesis = Genesis
    None = None
    ConflictID <- BookingTransactions
    ResourceID = {outX, outA}
    Inputs <- BookingInputs
    Creator <- BookingCreator
    Invalid = {}
    Loaded = {}
    Includable = {}
INVARIANTS
    
    ConflictsInherited

    
CHECK_DEADLOCK FALSE
