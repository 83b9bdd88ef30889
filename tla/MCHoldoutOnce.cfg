SPECIFICATION Spec
CONSTANTS
    Proc = {p1, p2, p3}
    None = None
SYMMETRY Symmetry
INVARIANTS
    TypeOK
    MutualExclusion
    TouchLeavesMark
    NoRerunOnceSpent
    UsedHasEvidence
    SerialAtMostOnce
    SidecarMatches
PROPERTIES
    ConsumedForever
    OneShot
CHECK_DEADLOCK FALSE
