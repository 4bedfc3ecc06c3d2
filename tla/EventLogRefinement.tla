------------------------- MODULE EventLogRefinement -------------------------
(***************************************************************************)
(* The event log of EventLog, with its tables, batches, wakes and cursors, *)
(* implements AppendLog: an aggregate's log is its rows by position, what  *)
(* consumers were given is what they received, and an aggregate is cut     *)
(* once it was removed.                                                    *)
(***************************************************************************)
EXTENDS EventLog

LogOf(a) == [k \in 1..(seqRow[a] + 1) |-> CHOOSE e \in RowsOf(a) : e.seq = k - 1]

Abstract == INSTANCE AppendLog WITH
  log   <- [a \in Aggregates |-> LogOf(a)],
  given <- received,
  cut   <- {a \in Aggregates : removals[a] > 0}

\* Whatever publishers, readers, removals and crashes do, a consumer sees an
\* append-only sequence from its start, over all its reconnections.
ImplementsAppendLog == Abstract!Spec

=============================================================================
