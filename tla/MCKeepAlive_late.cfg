SPECIFICATION Spec
CONSTANTS
    Pythons = {p1}
    Hosts = {h1}
    NONE = NONE
SYMMETRY Interchangeable
CHECK_DEADLOCK FALSE
INVARIANT NoUseAfterFree
