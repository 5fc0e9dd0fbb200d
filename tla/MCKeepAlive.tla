------------------------------ MODULE MCKeepAlive ------------------------------
(* KeepAlive for TLC: threads of one kind are interchangeable.                 *)
EXTENDS KeepAlive, TLC

Interchangeable == Permutations(Pythons) \cup Permutations(Hosts)
================================================================================
