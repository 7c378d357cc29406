----------------------------- MODULE MCViralDNA -----------------------------
(* An instance of ViralDNA for TLC. *)
EXTENDS ViralDNA, TLC

CONSTANTS x, y

Symmetry == Permutations(Captions)

=============================================================================
