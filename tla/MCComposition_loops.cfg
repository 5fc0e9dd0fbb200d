\* Clients that also build cycles and remove outside the list: what still holds.
CONSTANTS
    Compositions = {c1, c2}
    Leaves = {l1}
    NULL = NULL
    Lists <- MCLists
    Indices <- MCIndices
    Capacity = 3
    Obligations = {"replace_empty", "distinct"}
    AllowClone = TRUE
SPECIFICATION Spec
SYMMETRY Permuted
INVARIANTS PlacedOnce
PROPERTIES RefusalIsClean NoStealing
