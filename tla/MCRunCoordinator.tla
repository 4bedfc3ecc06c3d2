-------------------------- MODULE MCRunCoordinator --------------------------
(* Instances of RunCoordinator for TLC: sessions and callers are model      *)
(* values given by the configurations.                                      *)
EXTENDS RunCoordinator
=============================================================================
