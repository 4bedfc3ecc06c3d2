----------------------------- MODULE MCFileLock -----------------------------
(* Instances of FileLock for TLC.                                           *)
EXTENDS FileLock, TLC

Symmetry == Permutations(Procs)
=============================================================================
