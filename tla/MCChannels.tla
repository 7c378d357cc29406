----------------------------- MODULE MCChannels -----------------------------
(* Instances of Channels for TLC; the other constants are in the .cfg files. *)
EXTENDS Channels, TLC

CONSTANTS x, y, v1, v2, w1, a1, a2, b1

MCAuthor == (v1 :> x) @@ (v2 :> x) @@ (w1 :> y)
MCTarget == [a \in Analyses |-> IF a = b1 THEN y ELSE x]

(* Rows and handles are interchangeable. *)
Symmetry == Permutations(Rows) \cup Permutations(Handles)

=============================================================================
