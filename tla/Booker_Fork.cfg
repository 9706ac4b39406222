SPECIFICATION SpecBooker
CONSTANTS
    b1 = b1
    b2 = b2
    b3 = b3
    b4 = b4
    b5 = b5
    b6 = b6
    b7 = b7
    tA = tA
    tB = tB
    Block = {b1, b2, b3, b4, b5, b6, b7}
    StrongParents <- MeshParents
    MaxPastMarkerDistance = 3
    Conflict = {tA}
    Attachments <- NestedAttachments
    ParentConflicts <- NestedConflicts
INVARIANTS
    ForkReachesFutureCone
CHECK_DEADLOCK FALSE
