----------------------------- MODULE MCEventLog -----------------------------
(* An instance of EventLog for TLC.                                         *)
EXTENDS EventLogRefinement, TLC

CONSTANTS a1, a2, o1, o2, f1, r1

OneFollows == (r1 :> a1)
=============================================================================
