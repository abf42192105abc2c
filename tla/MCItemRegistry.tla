--------------------------- MODULE MCItemRegistry ---------------------------
(***************************************************************************)
(* Small instances of ItemRegistry for TLC.  Two clock values are enough   *)
(* to have a stuck and a fresh item and a clock that was set back.         *)
(***************************************************************************)
EXTENDS ItemRegistry, TLC

MCTimes == {3, 5}

\* GET and HEAD of a volatile file.  They meet volatile, solid (custom) and
\* HEAD-only items and go through every branch of Create but the immediate
\* ones for ALWAYS_TRY_SHARING and FORCE_MOVE_OUT_OF_THE_WAY.
VolatileRequests == {r \in ESharingRequests : r.how = AUTO_MOVE_OUT_OF_THE_WAY}

Symmetry == Permutations(Paths) \cup Permutations(Items) \cup Permutations(Holders)
=============================================================================
