SPECIFICATION Spec
CONSTANTS
    Kinds = {"any", "proxy", "collection", "composition"}
    Values = {a, b, c, x}
    Elsewhere = {x}
    NULL = NULL
    Ends <- Indexes
    Steps <- StepsTaken
    Capacity = 4
SYMMETRY Interchangeable
INVARIANTS IndexedLikeAList SlicedLikeAList ChildrenKept
