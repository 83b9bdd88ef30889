SPECIFICATION Spec
CONSTANTS
    NSymbols = 6
    MaxScore = 1
    TopN = 6
    ExitRank = 9
    Sectors = {A, B, C, D}
    Exposures <- Full
    PositionCap <- TwoFifths
    SectorCap <- ThreeTenth
    EarningsCap <- AFifth
INVARIANT
    SectorsCapped
CHECK_DEADLOCK FALSE
