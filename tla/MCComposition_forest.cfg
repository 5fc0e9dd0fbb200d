\* Clients that honour every duty: the hierarchy is a forest.
CONSTANTS
    Compositions = {c1, c2, c3}
    Leaves = {l1}
    NULL = NULL
    Lists <- MCLists
    Indices <- MCIndices
    Capacity = 3
    Obligations = {"replace_empty", "distinct", "in_range", "no_cycle"}
    AllowClone = TRUE
SPECIFICATION Spec
SYMMETRY Permuted
INVARIANTS TypeOK HierarchySound
PROPERTIES ImplementsForest
