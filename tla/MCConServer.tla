---------------------------- MODULE MCConServer -----------------------------
(* Small instances of ConServer for TLC. *)
EXTENDS ConServer, TLC

Symmetry == Permutations(Threads) \cup Permutations(Works)
=============================================================================
