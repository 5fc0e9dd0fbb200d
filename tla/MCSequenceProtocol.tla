-------------------------- MODULE MCSequenceProtocol --------------------------
(* Small instances of SequenceProtocol.                                      *)
EXTENDS SequenceProtocol, TLC

Interchangeable == Permutations(Values \ Elsewhere)
Indexes == -5..4
StepsTaken == {-2, -1, 1, 2}
===============================================================================
