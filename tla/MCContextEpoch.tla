--------------------------- MODULE MCContextEpoch ---------------------------
(* Instances of ContextEpoch for TLC.                                       *)
EXTENDS ContextEpoch

CONSTANTS instructions, environment, a, b

Renders(i, e) == [k \in {instructions, environment} |-> IF k = instructions THEN i ELSE e]

\* A long history of one source, and a shorter one of two.
OneSourceOrTwo ==
  {[renders |-> Renders({a, b}, {}), maxSeq |-> 6],
   [renders |-> Renders({}, {a, b}), maxSeq |-> 6],
   [renders |-> Renders({a}, {a, b}), maxSeq |-> 4]}
=============================================================================
