SPECIFICATION Spec
CONSTANTS
    Tracks = {t1, t2}
    Stacks = {s1}
    Items = {i1, i2}
    Transitions = {}
    NULL = NULL
    Ranges <- TwoRanges
    Offsets <- SomeOffsets
    Frames <- AllFrames
    Capacity = 2
SYMMETRY Interchangeable
INVARIANTS FoundAtItsTime SpacesAgree SearchesAsDocumented
