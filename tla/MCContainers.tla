---------------------------- MODULE MCContainers ----------------------------
(***************************************************************************)
(* Small instances of Containers.                                          *)
(***************************************************************************)
EXTENDS Containers, TLC

Addresses == Permutations(Dict) \cup Permutations(Stamp) \cup Permutations(Cursor)
=============================================================================
