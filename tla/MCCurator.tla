----------------------------- MODULE MCCurator -----------------------------
(* An instance of CuratorPage for TLC: two channels, entered together or one
   after the other. *)
EXTENDS CuratorPage

CONSTANTS c1, c2

MCInputs == {<<c1, c2>>, <<c2>>}

=============================================================================
