SPECIFICATION SpecDAG
CONSTANTS
    c1 = c1
    c2 = c2
    c3 = c3
    r1 = r1
    r2 = r2
    ConflictID <- MCConflictID
    ResourceID <- MCResourceID
INVARIANTS
    ReferencesConsistent
    NoConflictingAccepted
    
PROPERTIES
    AcceptedWithParents
    LosesOnlyToWinner
SYMMETRY MCSymmetry
