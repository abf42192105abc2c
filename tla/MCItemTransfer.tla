--------------------------- MODULE MCItemTransfer ---------------------------
(***************************************************************************)
(* Small instances of ItemTransfer for TLC.                                *)
(***************************************************************************)
EXTENDS ItemTransfer, TLC

\* A file that grows by a block.
Short == <<1, 2>>

Symmetry == Permutations(Readers) \cup Permutations(Items) \cup Permutations(Inodes)
=============================================================================
