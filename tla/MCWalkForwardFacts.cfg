SPECIFICATION Spec
CONSTANTS
    MinTrain = 3
    LeastTest = 1
    Month = 2
    Window = 4
    IvolDays = 2
    IvolReach = 3
    HighDays = 3
    MomDays = 4
    MomSkip = 1
    PriorMin = 3
    PriorTarget = 4
    PriorMax = 5
    LeastNames = 5
    MinRows = 10
    LeastReturns = 2
    Setups <- Calls
    Tables <- SomeTables
    Universe = 10
    Gaps <- SomeGaps
INVARIANT
    FactsKnown
CHECK_DEADLOCK FALSE
