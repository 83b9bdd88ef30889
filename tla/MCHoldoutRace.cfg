SPECIFICATION Spec
CONSTANTS
    Proc = {p1, p2}
    None = None
SYMMETRY Symmetry
INVARIANT
    AtMostOnce
CHECK_DEADLOCK FALSE
