---------------------------- MODULE MCEditAlgorithm ----------------------------
(* EditAlgorithm for TLC: one media of four frames and one that has no         *)
(* available range, and items of one frame and of three.                       *)
EXTENDS EditAlgorithm

MCAvailable == [m \in Clips |-> IF m = CHOOSE n \in Clips : TRUE THEN TimeRange(0, 4) ELSE TimeRange(0, 0)]
MCSources == {TimeRange(1, 1), TimeRange(0, 3)}
MCOffsets == {<<1, 1>>}
MCTimes == -2..7
MCDeltas == {-2, -1, 0, 1, 3}
MCLengths == {1, 2, 3}
================================================================================
