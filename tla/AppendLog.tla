----------------------------- MODULE AppendLog -----------------------------
(***************************************************************************)
(* What the durable event log promises: per aggregate one sequence that    *)
(* grows at its end and is, at most, cut to nothing as a whole; and        *)
(* consumers that are given their aggregate's sequence from its first      *)
(* event on, one event at a time.  Sequence numbers, tables, batches,      *)
(* ownership, wakes, cursors, streams and crashes are not seen here.       *)
(***************************************************************************)
EXTENDS Naturals, Sequences

CONSTANTS
  Aggregates,   (* aggregate ids                                           *)
  Ids,          (* event ids                                               *)
  Data,         (* payloads                                                *)
  Readers,      (* consumers                                               *)
  Follows       (* the aggregate each consumer asks for                    *)

VARIABLES
  log,          (* the events of each aggregate                            *)
  given,        (* what each consumer has been given                       *)
  cut           (* aggregates that were cut                                *)

vars == <<log, given, cut>>

Init ==
  /\ log = [a \in Aggregates |-> <<>>]
  /\ given = [r \in Readers |-> <<>>]
  /\ cut = {}

\* The event is new: no log has its id.
Extend(a, i, d) ==
  /\ log' = [log EXCEPT ![a] =
        Append(@, [id |-> i, agg |-> a, seq |-> Len(@), data |-> d])]
  /\ \A b \in Aggregates : \A k \in DOMAIN log[b] : log[b][k].id # i
  /\ UNCHANGED <<given, cut>>

Cut(a) ==
  /\ log[a] # <<>>
  /\ log' = [log EXCEPT ![a] = <<>>]
  /\ cut' = cut \cup {a}
  /\ UNCHANGED given

\* The event after those a consumer has.
Give(r) ==
  LET a == Follows[r]
  IN /\ a \notin cut
     /\ Len(given[r]) < Len(log[a])
     /\ given' = [given EXCEPT ![r] = Append(@, log[a][Len(@) + 1])]
     /\ UNCHANGED <<log, cut>>

\* Nothing but the aggregate is promised to who follows one that was cut.
GiveAfterCut(r) ==
  /\ Follows[r] \in cut
  /\ Len(given'[r]) = Len(given[r]) + 1
  /\ LET next == given'[r][Len(given[r]) + 1]
     IN /\ next \in [id : Ids, agg : {Follows[r]}, seq : Nat, data : Data]
        /\ given' = [given EXCEPT ![r] = Append(@, next)]
  /\ UNCHANGED <<log, cut>>

Next ==
  \/ \E a \in Aggregates, i \in Ids, d \in Data : Extend(a, i, d)
  \/ \E a \in Aggregates : Cut(a)
  \/ \E r \in Readers : Give(r) \/ GiveAfterCut(r)

Spec == Init /\ [][Next]_vars

=============================================================================
