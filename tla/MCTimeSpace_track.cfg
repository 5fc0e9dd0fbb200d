SPECIFICATION Spec
CONSTANTS
    Tracks = {t1}
    Stacks = {}
    Items = {i1, i2, i3}
    Transitions = {x1, x2}
    NULL = NULL
    Ranges <- SomeRanges
    Offsets <- SomeOffsets
    Frames <- AllFrames
    Capacity = 4
SYMMETRY Interchangeable
INVARIANTS PlacesAgree SearchesFind TrimIsIntersection
