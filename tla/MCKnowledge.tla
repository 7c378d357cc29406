---------------------------- MODULE MCKnowledge ----------------------------
(***************************************************************************)
(* Instances of Knowledge for TLC.  The preview slots and the request      *)
(* threads are interchangeable, and so are the captions; videos and views  *)
(* are numbers.                                                            *)
(***************************************************************************)
EXTENDS Knowledge, TLC

Symmetry == Permutations(Slots) \cup Permutations(Threads) \cup Permutations(Captions)

=============================================================================
