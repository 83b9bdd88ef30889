SPECIFICATION FairSpec
CONSTANTS
    Thread = {t1, t2}
    Free = Free
    Max = 2
    Window = 2
    MaxCalls = 3
    MaxTime = 4
INVARIANTS
    TypeOK
    WindowBound
    RemembersRecent
PROPERTY
    AcquireReturns
CHECK_DEADLOCK FALSE
