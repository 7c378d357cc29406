---------------------------- MODULE MCEnrichment ----------------------------
(* Instances of Enrichment for TLC; the other constants are in the .cfg files. *)
EXTENDS Enrichment

CONSTANTS v1, v2, v3, a1, a2

MCId == [v \in Videos |-> CASE v = v1 -> 1 [] v = v2 -> 2 [] v = v3 -> 3]

Few == [views |-> 1, engagement |-> 2]
Many == [views |-> 4, engagement |-> 1]

(* One video has few views and the other many, until a second scan sees the
   reverse. *)
Reversed ==
  [a \in Analyses |-> [v \in Videos |-> IF (a = a1) = (v = v1) THEN {Few} ELSE {Many}]]

ByOneThenAll == [a \in Analyses |-> {{v1}, Videos}]

=============================================================================
