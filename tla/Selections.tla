----------------------------- MODULE Selections -----------------------------
(***************************************************************************)
(* What is left of a list or a map when a loop over it has erased some of  *)
(* its elements.                                                           *)
(***************************************************************************)
EXTENDS Integers, Sequences, FiniteSets

\* The increasing enumeration of a finite set of places.
Orders(K) ==
    {f \in [1..Cardinality(K) -> K] : \A j, k \in DOMAIN f : j < k => f[j] < f[k]}

\* The elements of q at the places in K, in their order: a set of one sequence.
Retained(q, K) == {[k \in DOMAIN f |-> q[f[k]]] : f \in Orders(K)}
=============================================================================
