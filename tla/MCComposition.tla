----------------------------- MODULE MCComposition -----------------------------
(* Small instances of Composition for TLC.                                     *)
EXTENDS Composition

\* The argument vectors of set_children: up to two children, repeats included.
MCLists == BoundedSeq(Objects, 2)

\* Inside, at the end of and beyond a list of two, from both ends.
MCIndices == -3..2

Permuted == Permutations(Compositions) \cup Permutations(Leaves)
================================================================================
