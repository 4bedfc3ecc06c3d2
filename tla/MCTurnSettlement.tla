-------------------------- MODULE MCTurnSettlement --------------------------
(* Instances of TurnSettlement for TLC.                                     *)
EXTENDS TurnSettlement, TLC

CallSymmetry == Permutations(Calls)
=============================================================================
