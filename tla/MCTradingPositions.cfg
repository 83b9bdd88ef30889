SPECIFICATION Spec
CONSTANTS
    NSymbols = 2
    MaxWeight = 4
    Lot = 2
    Inertia = 1
    MaxCycles = 2
    Wirings <- ScriptWiring
INVARIANT PositionsFollowTargets
CHECK_DEADLOCK TRUE
