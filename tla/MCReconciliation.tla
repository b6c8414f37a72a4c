-------------------------- MODULE MCReconciliation --------------------------
(* Instances of Reconciliation for TLC. *)
EXTENDS Reconciliation, TLC

\* Ids are opaque tokens.
Symmetry == Permutations(Artifacts) \cup Permutations(Challenges)
=============================================================================
