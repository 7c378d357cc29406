----------------------------- MODULE MCPipeline -----------------------------
(* Instances of Pipeline for TLC; the constants are in the .cfg files. *)
EXTENDS Pipeline, TLC

(* Videos, scans and workers are interchangeable: nothing orders them. *)
Symmetry ==
  Permutations(Videos) \cup Permutations(Analyses) \cup Permutations(Workers)

=============================================================================
