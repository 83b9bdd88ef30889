SPECIFICATION Spec
CONSTANTS
    NSymbols = 2
    MaxWeight = 3
    Lot = 2
    Inertia = 1
    MaxCycles = 3
    Wirings <- AllWirings
INVARIANTS
    TypeOK
    BooksThePlan
    BookedOnce
CHECK_DEADLOCK TRUE
