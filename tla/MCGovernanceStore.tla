-------------------------- MODULE MCGovernanceStore --------------------------
(* Instances of GovernanceStore for TLC. *)
EXTENDS GovernanceStore, TLC

\* Ids are opaque tokens: states that differ by a renaming are one state.
Symmetry ==
  Permutations(Participants) \cup Permutations(Sessions) \cup Permutations(Artifacts)
  \cup Permutations(Keys) \cup Permutations(Intents) \cup Permutations(Files)
  \cup Permutations(ReceiptIds)

==============================================================================
