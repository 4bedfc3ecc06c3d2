---------------------------- MODULE ContextEpoch ----------------------------
(***************************************************************************)
(* What the model is told about its surroundings (instructions, date,      *)
(* skills): packages/core/src/session/context-epoch.ts over                *)
(* system-context/index.ts.  A session's epoch is a baseline that opens    *)
(* every request and the snapshot of what has been told since; a change is *)
(* told by a system message in the conversation, and a compaction, or a    *)
(* change that cannot be told, starts a new baseline.  Each turn attempt   *)
(* of the runner (session/runner/llm.ts) prepares its epoch and then reads *)
(* its history (session/history.ts).                                       *)
(*                                                                         *)
(* One drain: RunCoordinator.tla keeps it so within a process.  Each       *)
(* database call is an action; a published event with its projections and  *)
(* its commit hook is one transaction.  Moves, committed reverts and other *)
(* events of the session come in between.                                  *)
(*                                                                         *)
(* The specification is EpochSpec, and no name is one of TurnSettlement's: *)
(* a module can extend both, which have a turn's two halves.               *)
(***************************************************************************)
EXTENDS Integers, FiniteSets

CONSTANTS
  Keys,         (* context sources                                         *)
  Values,       (* what sources may render                                 *)
  Removable,    (* sources with a text for their removal                   *)
  Legacy,       (* values that a later version of a source cannot decode   *)
  Absent,       (* the source is not in the context                        *)
  Unavailable,  (* the source could not be observed                        *)
  None,         (* not told, no row, nothing read yet                      *)
  Worlds        (* the sources of a behaviour and its bound, see below     *)

\* renders has what each source may render, nothing for one that is never in
\* the context; maxSeq bounds the latest event sequence of the session.
World == [renders : [Keys -> SUBSET Values], maxSeq : Nat]

ASSUME ContextEpochAssumption ==
  /\ Removable \subseteq Keys
  /\ {Absent, Unavailable, None} \cap Values = {}
  /\ Cardinality({Absent, Unavailable, None}) = 3
  /\ Worlds \subseteq World

VARIABLES
  world,        (* what the sources of this behaviour may render           *)
  seq,          (* latest event sequence                                   *)
  messages,     (* session_message, as far as the epoch is concerned       *)
  epoch,        (* session_context_epoch: the row, or None                 *)
  away,         (* the session has left the location its drain runs for    *)
  drain         (* the turn attempt, with what it has read and prepared    *)

epochVars == <<world, seq, messages, epoch, away, drain>>

-----------------------------------------------------------------------------
(* System contexts.                                                         *)

Observations ==
  {obs \in [Keys -> Values \cup {Absent, Unavailable}] :
     \A k \in Keys :
       obs[k] # Absent => obs[k] \in world.renders[k] \cup {Unavailable} /\ world.renders[k] # {}}

\* What the model is told, by a baseline or an update; also a snapshot.
Contexts == [Keys -> Values \cup {None}]

Available(obs) == {k \in Keys : obs[k] \in Values}

Missing(obs) == {k \in Keys : obs[k] = Unavailable}

Admitted(snapshot) == {k \in Keys : snapshot[k] # None}

\* initializeObservation: the baseline tells what is available.
Generation(obs) == [k \in Keys |-> IF k \in Available(obs) THEN obs[k] ELSE None]

\* A source that does not produce a legacy value any more does not decode it.
Incompatible(stored, current) == stored \in Legacy /\ current # stored

\* reconcileObservation: some change of an admitted source cannot be told.
NeedsReplacement(obs, snapshot) ==
  \E k \in Admitted(snapshot) :
    \/ k \in Available(obs) /\ Incompatible(snapshot[k], obs[k])
    \/ obs[k] = Absent /\ k \notin Removable

\* The snapshot after the changes are told; what is unavailable is retained.
Reconciled(obs, snapshot) ==
  [k \in Keys |-> CASE obs[k] = Unavailable -> snapshot[k]
                    [] obs[k] = Absent -> None
                    [] OTHER -> obs[k]]

\* replaceObservation: a replacement waits for every admitted source.
Blocked(obs, snapshot) == Missing(obs) \cap Admitted(snapshot) # {}

-----------------------------------------------------------------------------
Message(s, type, before, after) == [seq |-> s, type |-> type, before |-> before, after |-> after]

Other(s, type) == Message(s, type, None, None)

Compactions == {m \in messages : m.type = "compaction"}

\* latestCompaction: the sequence of the latest one, or 0.
LatestCompaction ==
  IF Compactions = {} THEN 0
  ELSE CHOOSE s \in {m.seq : m \in Compactions} : \A m \in Compactions : m.seq <= s

Idle == [pc |-> "idle", reads |-> {}, stored |-> None, compaction |-> 0,
         prepared |-> None, next |-> None, wanted |-> None]

Attempt == [Idle EXCEPT !.pc = "attempt"]

\* The session's first prompt is in the conversation.
EpochInit ==
  /\ world \in Worlds
  /\ seq = 1
  /\ messages = {Other(1, "user")}
  /\ epoch = None
  /\ away = FALSE
  /\ drain = Idle

Goto(pc) == drain' = [drain EXCEPT !.pc = pc]

NextSequence == seq < world.maxSeq /\ seq' = seq + 1

\* An event with its message.
Record(message) == NextSequence /\ messages' = messages \cup {message}

-----------------------------------------------------------------------------
(* A turn attempt: initialize, promote, prepare, read the history, request. *)

\* A drain runs for the location it reads the session at.
Start ==
  /\ drain.pc = "idle"
  /\ drain' = Attempt
  /\ away' = FALSE
  /\ UNCHANGED <<world, seq, messages, epoch>>

End == drain' = Idle /\ away' = FALSE

\* Every attempt reads the session first and is interrupted if it has moved.
EnterAttempt ==
  /\ drain.pc = "attempt"
  /\ IF away THEN End ELSE Goto("exists") /\ UNCHANGED away
  /\ UNCHANGED <<world, seq, messages, epoch>>

Exists ==
  /\ drain.pc = "exists"
  /\ Goto(IF epoch = None THEN "initialize" ELSE "promote")
  /\ UNCHANGED <<world, seq, messages, epoch, away>>

\* SystemContext.initialize: unavailable sources block the turn; the rest is
\* rendered before the sequence is read and the row inserted.
Initialize(obs) ==
  IF Missing(obs) # {} THEN End
  ELSE /\ drain' = [drain EXCEPT !.pc = "latest", !.next = Generation(obs), !.wanted = Generation(obs)]
       /\ UNCHANGED away

InitializeOnce ==
  /\ drain.pc = "initialize"
  /\ \E obs \in Observations : Initialize(obs)
  /\ UNCHANGED <<world, seq, messages, epoch>>

\* insert reads the latest sequence, then inserts the row, which nobody else
\* does.
ReadLatest ==
  /\ drain.pc = "latest"
  /\ drain' = [drain EXCEPT !.pc = "insert",
                            !.prepared = [baseline |-> drain.next, seq |-> seq]]
  /\ UNCHANGED <<world, seq, messages, epoch, away>>

\* What was initialized before the promotion still has to promote; prepare
\* inserts after it.
Insert ==
  /\ drain.pc = "insert"
  /\ epoch = None
  /\ epoch' = [baseline |-> drain.next, snapshot |-> drain.next, seq |-> drain.prepared.seq]
  /\ drain' = [drain EXCEPT !.pc = IF drain.reads = {} THEN "promote" ELSE "history",
                            !.reads = {}, !.compaction = 0, !.next = None]
  /\ UNCHANGED <<world, seq, messages, away>>

\* Prompts enter the conversation, if any (SessionInbox.tla).
Promote ==
  /\ drain.pc = "promote"
  /\ Goto(IF drain.prepared = None THEN "find" ELSE "history")
  /\ \/ UNCHANGED <<seq, messages>>
     \/ Record(Other(seq + 1, "user"))
  /\ UNCHANGED <<world, epoch, away>>

\* prepare reads the row and the latest compaction concurrently.
Find ==
  /\ drain.pc = "find"
  /\ "epoch" \notin drain.reads
  /\ drain' = [drain EXCEPT !.reads = @ \cup {"epoch"}, !.stored = epoch]
  /\ UNCHANGED <<world, seq, messages, epoch, away>>

FindCompaction ==
  /\ drain.pc = "find"
  /\ "compaction" \notin drain.reads
  /\ drain' = [drain EXCEPT !.reads = @ \cup {"compaction"}, !.compaction = LatestCompaction]
  /\ UNCHANGED <<world, seq, messages, epoch, away>>

\* The epoch goes on as it is.
Keep(wanted) ==
  drain' = [drain EXCEPT !.pc = "history", !.reads = {}, !.stored = None, !.compaction = 0,
                         !.prepared = [baseline |-> drain.stored.baseline, seq |-> drain.stored.seq],
                         !.wanted = wanted]

Compacted == drain.compaction > drain.stored.seq

\* A replacement after a compaction starts at it, any other at the latest
\* sequence, which is read before the row is written.
Replacing(obs) ==
  drain' = [drain EXCEPT !.pc = IF Compacted THEN "replace" ELSE "replaceLatest",
                         !.reads = {}, !.stored = None, !.compaction = 0,
                         !.prepared = [baseline |-> Generation(obs), seq |-> drain.compaction],
                         !.next = Generation(obs), !.wanted = Generation(obs)]

\* The sources are observed, compared with the stored snapshot, and the turn
\* keeps the epoch, replaces it, or tells the changes.
Decide ==
  /\ drain.pc = "find"
  /\ drain.reads = {"epoch", "compaction"}
  /\ \E obs \in Observations :
       LET snapshot == drain.stored.snapshot
       IN \/ drain.stored = None /\ Initialize(obs)
          \/ /\ drain.stored # None
             /\ UNCHANGED away
             /\ IF Compacted \/ NeedsReplacement(obs, snapshot)
                  THEN IF Blocked(obs, snapshot) THEN Keep(snapshot) ELSE Replacing(obs)
                  ELSE IF Reconciled(obs, snapshot) = snapshot THEN Keep(snapshot)
                  ELSE drain' = [drain EXCEPT !.pc = "update", !.reads = {}, !.compaction = 0,
                                              !.next = Reconciled(obs, snapshot),
                                              !.wanted = Reconciled(obs, snapshot)]
  /\ UNCHANGED <<world, seq, messages, epoch>>

ReadReplacement ==
  /\ drain.pc = "replaceLatest"
  /\ drain' = [drain EXCEPT !.pc = "replace", !.prepared.seq = seq]
  /\ UNCHANGED <<world, seq, messages, epoch, away>>

Replace ==
  /\ drain.pc = "replace"
  /\ epoch # None
  /\ epoch' = [baseline |-> drain.next, snapshot |-> drain.next, seq |-> drain.prepared.seq]
  /\ drain' = [drain EXCEPT !.pc = "history", !.next = None]
  /\ UNCHANGED <<world, seq, messages, away>>

\* ContextUpdated with advance as its commit hook: one transaction.
Update ==
  /\ drain.pc = "update"
  /\ epoch # None
  /\ Record(Message(seq + 1, "system", drain.stored.snapshot, drain.next))
  /\ epoch' = [epoch EXCEPT !.snapshot = drain.next]
  /\ drain' = [drain EXCEPT !.pc = "history", !.stored = None, !.next = None,
                            !.prepared = [baseline |-> drain.stored.baseline, seq |-> drain.stored.seq]]
  /\ UNCHANGED <<world, away>>

\* A row that is gone makes the attempt die; an update's transaction rolls back.
RowGone ==
  /\ drain.pc \in {"replace", "update"}
  /\ epoch = None
  /\ End
  /\ UNCHANGED <<world, seq, messages, epoch>>

\* entriesForRunner reads the latest compaction, then the rows.
ReadCompaction ==
  /\ drain.pc = "history"
  /\ drain' = [drain EXCEPT !.pc = "rows", !.compaction = LatestCompaction]
  /\ UNCHANGED <<world, seq, messages, epoch, away>>

\* Faulty variant of Rows: a compaction hides every message before it.
RowsSince(compaction, baselineSeq) ==
  {m \in messages : m.seq >= compaction /\ (m.type # "system" \/ m.seq > baselineSeq)}

\* messageRows: a compaction hides what came before it, but no update of the
\* epoch the request opens with.
Rows(compaction, baselineSeq) ==
  {m \in messages :
     IF m.type = "system" THEN m.seq > baselineSeq
     ELSE compaction = 0 \/ m.seq >= compaction}

\* The rows are read and the provider is called with them.
CallModel ==
  /\ drain.pc = "rows"
  /\ drain' = [Idle EXCEPT !.pc = "request"]
  /\ UNCHANGED <<world, seq, messages, epoch, away>>

\* compactIfNeeded or compactAfterOverflow: the summary is the latest message
\* and the attempt starts over.
Compact ==
  /\ drain.pc = "request"
  /\ Record(Other(seq + 1, "compaction"))
  /\ drain' = Attempt
  /\ UNCHANGED <<world, epoch, away>>

\* The turn is over; the run goes on or ends.
TurnEnds ==
  /\ drain.pc = "request"
  /\ \/ drain' = Attempt /\ UNCHANGED away
     \/ End
  /\ UNCHANGED <<world, seq, messages, epoch>>

\* The drain fails, is interrupted or dies with its process.
Fail ==
  /\ drain.pc # "idle"
  /\ End
  /\ UNCHANGED <<world, seq, messages, epoch>>

-----------------------------------------------------------------------------
(* The projections that reset the epoch, and the session's other events.    *)

\* Moved: from elsewhere the session may come back.
Moved ==
  /\ NextSequence
  /\ epoch' = None
  /\ away' \in IF drain.pc = "idle" THEN {FALSE} ELSE IF away THEN BOOLEAN ELSE {TRUE}
  /\ UNCHANGED <<world, messages, drain>>

\* Faulty variant of Committed: the epoch outlives the messages.
CommittedKeepsEpoch(boundary) ==
  /\ NextSequence
  /\ messages' = {m \in messages : m.seq <= boundary.seq}
  /\ UNCHANGED <<world, epoch, away, drain>>

\* RevertEvent.Committed: the messages after the boundary go.
Committed(boundary) ==
  /\ NextSequence
  /\ messages' = {m \in messages : m.seq <= boundary.seq}
  /\ epoch' = None
  /\ UNCHANGED <<world, away, drain>>

\* An event that concerns neither the epoch nor what a request tells of it.
OtherEvent ==
  /\ NextSequence
  /\ UNCHANGED <<world, messages, epoch, away, drain>>

EpochNext ==
  \/ Start
  \/ EnterAttempt
  \/ Exists
  \/ InitializeOnce
  \/ ReadLatest
  \/ Insert
  \/ Promote
  \/ Find
  \/ FindCompaction
  \/ Decide
  \/ ReadReplacement
  \/ Replace
  \/ Update
  \/ RowGone
  \/ ReadCompaction
  \/ CallModel
  \/ Compact
  \/ TurnEnds
  \/ Fail
  \/ Moved
  \/ \E boundary \in messages : Committed(boundary)
  \/ OtherEvent

EpochSpec == EpochInit /\ [][EpochNext]_epochVars

-----------------------------------------------------------------------------
(* Properties.                                                              *)

Updates == {m \in messages : m.type = "system"}

Newest(updates) == CHOOSE u \in updates : \A v \in updates : v.seq <= u.seq

\* What is told by a baseline and the updates after it.
Told(baseline, updates) == IF updates = {} THEN baseline ELSE Newest(updates).after

\* A request that tells a context: its updates, each relative to what was told
\* before it, lead from the baseline to that context.
Tells(baseline, updates, context) ==
  /\ Told(baseline, updates) = context
  /\ \A u \in updates : u.before = Told(baseline, {v \in updates : v.seq < u.seq})

PCs == {"idle", "attempt", "exists", "initialize", "latest", "insert", "promote", "find",
        "replace", "replaceLatest", "update", "history", "rows", "request"}

Prepared == [baseline : Contexts, seq : Nat]

Epoch == [baseline : Contexts, snapshot : Contexts, seq : Nat]

\* Types of the tables and of the attempt's local state.
EpochTypeOK ==
  /\ world \in Worlds
  /\ seq \in Nat
  /\ messages \subseteq [seq : 1 .. seq, type : {"user", "system", "compaction"},
                        before : Contexts \cup {None}, after : Contexts \cup {None}]
  /\ epoch \in Epoch \cup {None}
  /\ away \in BOOLEAN
  /\ drain \in [pc : PCs, reads : SUBSET {"epoch", "compaction"}, stored : Epoch \cup {None},
               compaction : Nat, prepared : Prepared \cup {None},
               next : Contexts \cup {None}, wanted : Contexts \cup {None}]

\* The stored epoch and the conversation tell the same story: the updates after
\* the baseline lead, without a gap, from the baseline to the snapshot the next
\* change is rendered against, whatever resets, reverts, compactions and other
\* events fell between the reads and writes of a preparation.
EpochMatchesHistory ==
  epoch # None =>
    Tells(epoch.baseline, {u \in Updates : u.seq > epoch.seq}, epoch.snapshot)

\* "preserves effective System updates while compaction rebaseline is blocked":
\* the request tells what the turn wanted told (Decide).  That is what it observed,
\* with what was told last of the sources that could not be observed; when one of
\* these blocks a replacement, it is what was told so far, of every source.  A turn
\* whose epoch was reset meanwhile is excepted.
RequestTellsContext ==
  drain.pc = "rows" /\ epoch # None =>
    Tells(drain.prepared.baseline,
          {u \in Rows(drain.compaction, drain.prepared.seq) : u.type = "system"}, drain.wanted)

=============================================================================
