SPECIFICATION Spec
CONSTANTS
    NSymbols = 6
    MaxScore = 2
    TopN = 4
    ExitRank = 5
    Sectors = {A, B, C}
    Exposures <- Regimes
    PositionCap <- ThreeTenth
    SectorCap <- ThreeTenth
    EarningsCap <- AFifth
SYMMETRY Symmetry
INVARIANTS
    TypeOK
    SellBuffer
    LoneSectorsCapped
PROPERTY
    ExposureNeverGrows
CHECK_DEADLOCK FALSE
