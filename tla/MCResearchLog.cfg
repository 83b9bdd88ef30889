SPECIFICATION Spec
CONSTANTS
    Writer = {w1, w2, w3}
    Tag = {t1, t2}
    NoTag = NoTag
    Content = {c1, c2}
    Guarded = {w1}
    MaxCrash = 1
SYMMETRY Symmetry
INVARIANTS
    TypeOK
    VerifiedHoldsAcked
    SerialChainIntact
    SerialTagsOnce
PROPERTY
    JunkStopsAppends
CHECK_DEADLOCK FALSE
