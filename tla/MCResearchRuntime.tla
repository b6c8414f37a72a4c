------------------------- MODULE MCResearchRuntime -------------------------
(* Instances of ResearchRuntime for TLC. *)
EXTENDS ResearchRuntime, TLC

\* Real sessions are interchangeable, and so are export ids.
Symmetry == Permutations(Real) \cup Permutations(Exports)
============================================================================
