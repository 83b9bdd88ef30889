SPECIFICATION Spec
CONSTANTS
    NSymbols = 2
    MaxAttempts = 2
    MaxRuns = 2
INVARIANTS
    TypeOK
    OnlyCutStoresLose
    QuietRunStoredAll
PROPERTIES
    RunEnds
    AtomicUpserts
CHECK_DEADLOCK FALSE
