SPECIFICATION Spec
CONSTANTS
    Dict = {d1, d2, d3}
    Stamp = {s1, s2}
    Cursor = {c1}
    Key = {1, 2}
    Datum = {plain}
    None = None
    MaxCount = 2
SYMMETRY Addresses
CHECK_DEADLOCK FALSE
INVARIANTS PointersSound IterationIsSound
PROPERTIES RefusedForGood
