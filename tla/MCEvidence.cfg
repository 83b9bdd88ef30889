SPECIFICATION Spec
CONSTANTS
    Symbol <- Symbols
    Fundamental = {"piotroski_f_score"}
    Least <- LeastData
    Falling = {"ivol_20d"}
    Friday = {2, 4, 6, 7}
    Trail = 3
    Ahead = 2
    Quantiles = 3
    LeastIC = 3
    LeastPool = 4
    LeastDecile = 3
    LeastDates = 2
    AverageDays = 2
    Active <- ActiveFactors
    Registered <- RegisteredFactors
    High = "52w_high_proximity"
    FlipAsked = {"ivol_20d", "high_52w"}
    Seeds = {"ivol_20d", "holdout_sharpe"}
    HoldoutRow = "holdout_sharpe"
    LeastPaired = 3
    Coverage = 2
    Wide = 4
    Narrow = 2
    Holdout = 10
    Cases <- AllCases
INVARIANTS
    TypeOK
    NoPeek
    BooksSound
    PassedOnEvidence
    LogAgreesWithDisk
    NotesSurvive
CHECK_DEADLOCK FALSE
