----------------------------- MODULE MCRequests -----------------------------
(* Instances of Requests for TLC.                                           *)
EXTENDS Requests, TLC

CONSTANTS p1, p2, p3, q1, s1, s2, x, y

\* p1, p2 and q1 are of one session, p3 is of another; p3 needs what p1 saves.
SessionsOf == [r \in Requests |-> IF r = p3 THEN s2 ELSE s1]
NeedsOf == [r \in Requests |-> IF r = p2 THEN {x, y} ELSE {x}]
SavesOf == [r \in Requests |-> IF r = p1 THEN {x} ELSE {}]

SomeConfigs == {(x :> "ask") @@ (y :> "allow"), (x :> "ask") @@ (y :> "deny")}

Symmetry == Permutations(Repliers)
=============================================================================
