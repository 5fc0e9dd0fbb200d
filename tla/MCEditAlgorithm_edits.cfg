SPECIFICATION Spec
CONSTANTS
    Clips = {a, b}
    NULL = NULL
    Available <- MCAvailable
    Sources <- MCSources
    Offsets <- MCOffsets
    Times <- MCTimes
    Deltas <- MCDeltas
    Lengths <- MCLengths
    Capacity = 2
    MaxEdits = 1
CHECK_DEADLOCK FALSE
INVARIANTS SlicePlaysTheSame InsertMakesRoom OverwriteReplaces RestStaysInPlace ClampedToMedia
