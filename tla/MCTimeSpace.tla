------------------------------ MODULE MCTimeSpace ------------------------------
(* TimeSpace for TLC: the ranges and offsets that the instances use.  Objects  *)
(* of one kind are interchangeable.                                            *)
EXTENDS TimeSpace

\* One long item trimmed in, one of a frame, one of two.
SomeRanges == {TimeRange(1, 3), TimeRange(0, 1), TimeRange(2, 2)}
TwoRanges == {TimeRange(1, 2), TimeRange(0, 1)}
SomeOffsets == {<<1, 1>>, <<2, 0>>}

\* The times around every edge these instances can have.
AllFrames == -4..12

Interchangeable ==
    Permutations(Tracks) \cup Permutations(Stacks)
        \cup Permutations(Items) \cup Permutations(Transitions)
================================================================================
