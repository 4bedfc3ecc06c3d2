---------------------------- MODULE SessionInbox ----------------------------
(***************************************************************************)
(* The durable inbox of one session: packages/core/src/session/input.ts    *)
(* with the callers that move its rows.  Session.prompt admits a prompt;   *)
(* the runner (session/runner/llm.ts) promotes pending prompts into the    *)
(* conversation at the start of a turn, steers up to a cutoff and queued   *)
(* ones one at a time; committing a revert (session/projector.ts) deletes  *)
(* what came after a message.                                              *)
(*                                                                         *)
(* A published event and its projections are one transaction, hence one    *)
(* action (EventLog.tla); each database read of a client or a runner is an *)
(* action of its own, and everything else may happen in between.           *)
(* Several runners stand for several processes on one database: within     *)
(* a process RunCoordinator.tla keeps it to one.                           *)
(***************************************************************************)
EXTENDS Integers, FiniteSets

CONSTANTS
  Ids,          (* message ids clients choose for their prompts            *)
  Prompts,      (* contents; a content names the session too               *)
  Times,        (* creation times, as coarse as the clock lets them be     *)
  Clients,      (* fibers in Session.prompt                                *)
  Runners,      (* drains, at most one per process                         *)
  None,         (* no row, no message, no boundary                         *)
  Worlds        (* how behaviours start and are bounded, see below         *)

\* taken are the ids of other messages in the conversation's first event, prompts
\* which client may prompt with which ids, resume whether prompts may ask to wake
\* the session, drains how many may run at a time; admitted bounds the
\* admissions, reverts the requests to stage, clear or commit a revert, failures
\* the drains that fail, are interrupted or crash.
World == [taken : SUBSET Ids, prompts : SUBSET (Clients \X Ids), resume : BOOLEAN,
          drains : Nat, admitted : Nat, reverts : Nat, failures : Nat]

Deliveries == {"steer", "queue"}

\* promoted = 0 is a null promoted_seq.
Row == [id : Ids, prompt : Prompts, delivery : Deliveries, time : Times,
        admitted : Nat, promoted : Nat]

ASSUME SessionInboxAssumption ==
  /\ None \notin Ids
  /\ None \notin Row
  /\ Worlds \subseteq World

VARIABLES
  world,        (* what the behaviour starts with and is bounded by        *)
  seq,          (* latest event sequence of the session                    *)
  admissions,   (* prompts admitted so far                                 *)
  reverts,      (* revert requests so far                                  *)
  inbox,        (* session_input: a row, or None, per id                   *)
  message,      (* session_message: the seq of the user message of an id   *)
  staged,       (* the boundary of a staged revert                         *)
  reverting,    (* requests that read the session and have yet to publish  *)
  client,       (* what each client is doing, and what it was answered     *)
  runner,       (* what each drain is doing, with the rows it has read     *)
  woken,        (* the session was woken and no drain has started since    *)
  failures

revertVars == <<world, reverts, staged, reverting>>
storeVars == <<seq, inbox, message, admissions, revertVars>>
vars == <<world, seq, admissions, reverts, inbox, message, staged, reverting, client, runner, woken,
          failures>>

-----------------------------------------------------------------------------
IsPending(row) == row # None /\ row.promoted = 0

Pending(delivery) == {i \in Ids : IsPending(inbox[i]) /\ inbox[i].delivery = delivery}

Equivalent(row, prompt, delivery) == row.prompt = prompt /\ row.delivery = delivery

IdleClient == [pc |-> "idle", id |-> None, prompt |-> None, delivery |-> None]

IdleRunner == [pc |-> "idle", promotion |-> None, cutoff |-> 0, rows |-> {}]

Init ==
  /\ world \in Worlds
  /\ seq = 1
  /\ admissions = 0
  /\ reverts = 0
  /\ inbox = [i \in Ids |-> None]
  /\ message = [i \in Ids |-> IF i \in world.taken THEN 1 ELSE 0]
  /\ staged = None
  /\ reverting = {}
  /\ client = [c \in Clients |-> IdleClient]
  /\ runner = [r \in Runners |-> IdleRunner]
  /\ woken = FALSE
  /\ failures = 0

-----------------------------------------------------------------------------
(* Session.prompt and SessionInput.admit.                                   *)

\* Faulty variant of Answer: a stored row answers any prompt with its id.
AnswerAny(c, row) == client' = [client EXCEPT ![c].pc = "accepted"]

\* What prompt answers once it holds the row under its id.
Answer(c, row) ==
  client' = [client EXCEPT ![c].pc =
    IF Equivalent(row, client[c].prompt, client[c].delivery) THEN "accepted" ELSE "conflict"]

Prompt(c, i, p, d) ==
  /\ client[c].pc = "idle"
  /\ <<c, i>> \in world.prompts
  /\ client' = [client EXCEPT ![c] = [pc |-> "finding", id |-> i, prompt |-> p, delivery |-> d]]
  /\ UNCHANGED <<storeVars, runner, woken, failures>>

\* admit looks for the id first: a retry is answered with the stored row.
FindExisting(c) ==
  /\ client[c].pc = "finding"
  /\ inbox[client[c].id] # None
  /\ Answer(c, inbox[client[c].id])
  /\ UNCHANGED <<storeVars, runner, woken, failures>>

FindNothing(c) ==
  /\ client[c].pc = "finding"
  /\ inbox[client[c].id] = None
  /\ client' = [client EXCEPT ![c].pc = "publishing"]
  /\ UNCHANGED <<storeVars, runner, woken, failures>>

\* The PromptAdmitted event with projectAdmitted: the row is inserted only if
\* the id names neither a message nor a row.
Admit(c) ==
  LET i == client[c].id
  IN /\ client[c].pc = "publishing"
     /\ admissions < world.admitted
     /\ admissions' = admissions + 1
     /\ message[i] = 0
     /\ inbox[i] = None
     /\ seq' = seq + 1
     /\ \E t \in Times :
          LET row == [id |-> i, prompt |-> client[c].prompt, delivery |-> client[c].delivery,
                      time |-> t, admitted |-> seq + 1, promoted |-> 0]
          IN /\ inbox' = [inbox EXCEPT ![i] = row]
             /\ Answer(c, row)
     /\ UNCHANGED <<revertVars, message, runner, woken, failures>>

\* The projection conflicts and the transaction rolls back: the client looks
\* again and answers with the row that won, or fails when there is none.
AdmitConflict(c) ==
  LET i == client[c].id
  IN /\ client[c].pc = "publishing"
     /\ message[i] # 0 \/ inbox[i] # None
     /\ client' = [client EXCEPT ![c].pc = "recovering"]
     /\ UNCHANGED <<storeVars, runner, woken, failures>>

\* Faulty variant of Recover: a conflict is taken for a retry.
RecoverAccepted(c) ==
  /\ client[c].pc = "recovering"
  /\ client' = [client EXCEPT ![c].pc = "accepted"]
  /\ UNCHANGED <<storeVars, runner, woken, failures>>

Recover(c) ==
  LET i == client[c].id
  IN /\ client[c].pc = "recovering"
     /\ IF inbox[i] # None
          THEN Answer(c, inbox[i])
          ELSE client' = [client EXCEPT ![c].pc = "conflict"]
     /\ UNCHANGED <<storeVars, runner, woken, failures>>

\* A recorded prompt, a retried one too, wakes the session ...
Wake(c) ==
  /\ client[c].pc = "accepted"
  /\ world.resume
  /\ woken' = TRUE
  /\ client' = [client EXCEPT ![c] = IdleClient]
  /\ UNCHANGED <<storeVars, runner, failures>>

\* ... unless it conflicts, resume is false, or its process dies before.
Return(c) ==
  /\ client[c].pc \in {"accepted", "conflict"}
  /\ client' = [client EXCEPT ![c] = IdleClient]
  /\ UNCHANGED <<storeVars, runner, woken, failures>>

-----------------------------------------------------------------------------
(* The runner.                                                              *)

Goto(r, pc) == runner' = [runner EXCEPT ![r].pc = pc]

BeginTurn(r, promotion) ==
  runner' = [runner EXCEPT ![r] =
    [pc |-> "turn", promotion |-> promotion, cutoff |-> 0, rows |-> {}]]

\* Faulty variant of LookForQueue: queued prompts do not start a drain.
LookForNoQueue(r) ==
  /\ runner[r].pc = "lookQueue"
  /\ BeginTurn(r, None) \/ runner' = [runner EXCEPT ![r] = IdleRunner]
  /\ UNCHANGED <<storeVars, client, woken, failures>>

\* run, for a wake or an explicit resume, reads whether a steer is pending, then
\* whether a queued prompt is.
LookForSteer(r) ==
  /\ runner[r].pc = "idle"
  /\ Cardinality({q \in Runners : runner[q].pc # "idle"}) < world.drains
  /\ IF Pending("steer") # {} THEN BeginTurn(r, "steer") ELSE Goto(r, "lookQueue")
  /\ woken' = FALSE
  /\ UNCHANGED <<storeVars, client, failures>>

\* Without either, only a forced run goes on to a turn.
LookForQueue(r) ==
  /\ runner[r].pc = "lookQueue"
  /\ \/ Pending("queue") # {} /\ BeginTurn(r, "queue")
     \/ Pending("queue") = {} /\ BeginTurn(r, None)
     \/ Pending("queue") = {} /\ runner' = [runner EXCEPT ![r] = IdleRunner]
  /\ UNCHANGED <<storeVars, client, woken, failures>>

\* runTurnAttempt: the cutoff is the latest sequence before anything is
\* promoted; steers admitted later wait for the next turn.  What to promote is
\* not looked at again.
ReadCutoff(r) ==
  /\ runner[r].pc = "turn"
  /\ runner' = [runner EXCEPT
       ![r].promotion = None,
       ![r].cutoff = IF runner[r].promotion = None THEN @ ELSE seq,
       ![r].pc = CASE runner[r].promotion = "queue" -> "readQueue"
                   [] runner[r].promotion = "steer" -> "readSteers"
                   [] OTHER -> "provider"]
  /\ UNCHANGED <<storeVars, client, woken, failures>>

\* Faulty variant of Earliest: newest first.
Latest(rows) == {row \in rows : \A other \in rows : row.admitted >= other.admitted}

\* Rows are read in the order of their admission: which comes first.
Earliest(rows) == {row \in rows : \A other \in rows : row.admitted <= other.admitted}

ReadQueue(r) ==
  /\ runner[r].pc = "readQueue"
  /\ runner' = [runner EXCEPT ![r].rows = Earliest({inbox[i] : i \in Pending("queue")}),
                              ![r].pc = "promoteQueue"]
  /\ UNCHANGED <<storeVars, client, woken, failures>>

\* Faulty variant of Due: the cutoff itself is left out.
DueBefore(cutoff) == {inbox[i] : i \in {j \in Pending("steer") : inbox[j].admitted < cutoff}}

\* The steers admitted up to the cutoff.
Due(cutoff) == {inbox[i] : i \in {j \in Pending("steer") : inbox[j].admitted <= cutoff}}

ReadSteers(r) ==
  /\ runner[r].pc = "readSteers"
  /\ runner' = [runner EXCEPT ![r].rows = Due(runner[r].cutoff), ![r].pc = "promoteSteers"]
  /\ UNCHANGED <<storeVars, client, woken, failures>>

\* Where a promotion that conflicted looks at the stored row again.
Recovering == [promoteQueue |-> "recoverQueue", promoteSteers |-> "recoverSteers"]

\* The row a drain is about to promote.
Promoting(r, row) ==
  /\ runner[r].pc \in {"promoteQueue", "promoteSteers"}
  /\ row \in Earliest(runner[r].rows)

NextRow(r, row) == runner' = [runner EXCEPT ![r].rows = @ \ {row}]

\* matchesProjection: the stored row is the one the runner read.
Matches(stored, row) ==
  /\ Equivalent(stored, row.prompt, row.delivery)
  /\ stored.time = row.time

\* The Prompted event with projectPrompted: a pending row that still matches is
\* marked, a row that is gone is inserted as promoted, and the user message is
\* appended at the event's sequence.
PromoteRow(r, row) ==
  LET stored == inbox[row.id]
  IN /\ Promoting(r, row)
     /\ message[row.id] = 0
     /\ IF stored = None
          THEN inbox' = [inbox EXCEPT ![row.id] =
                 [row EXCEPT !.admitted = seq + 1, !.promoted = seq + 1]]
          ELSE /\ stored.promoted = 0
               /\ Matches(stored, row)
               /\ inbox' = [inbox EXCEPT ![row.id].promoted = seq + 1]
     /\ seq' = seq + 1
     /\ message' = [message EXCEPT ![row.id] = seq + 1]
     /\ NextRow(r, row)
     /\ UNCHANGED <<admissions, revertVars, client, woken, failures>>

\* The projection conflicts when the row is promoted already or another prompt
\* is stored under its id; the runner looks at the row again ...
PromoteConflict(r, row) ==
  LET stored == inbox[row.id]
  IN /\ Promoting(r, row)
     /\ stored # None
     /\ stored.promoted # 0 \/ ~Matches(stored, row)
     /\ Goto(r, Recovering[runner[r].pc])
     /\ UNCHANGED <<storeVars, client, woken, failures>>

\* ... and goes on if somebody promoted it; otherwise the drain dies.
PromoteRecover(r, row) ==
  \E pc \in DOMAIN Recovering :
    LET stored == inbox[row.id]
    IN /\ runner[r].pc = Recovering[pc]
       /\ row \in Earliest(runner[r].rows)
       /\ runner' =
            IF stored = None \/ IsPending(stored) THEN [runner EXCEPT ![r] = IdleRunner]
            ELSE [runner EXCEPT ![r].pc = pc, ![r].rows = @ \ {row}]
       /\ UNCHANGED <<storeVars, client, woken, failures>>

\* After the queued prompt come the steers, after the steers the provider.
Promoted(r) ==
  /\ runner[r].rows = {}
  /\ \/ runner[r].pc = "promoteQueue" /\ Goto(r, "readSteers")
     \/ runner[r].pc = "promoteSteers" /\ Goto(r, "provider")
  /\ UNCHANGED <<storeVars, client, woken, failures>>

\* The provider turn ends with tool calls to answer, or without.
Continue(r) ==
  /\ runner[r].pc = "provider"
  /\ BeginTurn(r, "steer")
  /\ UNCHANGED <<storeVars, client, woken, failures>>

\* The history is compacted first: the turn starts over and promotes nothing.
Compact(r) ==
  /\ runner[r].pc = "provider"
  /\ runner' = [runner EXCEPT ![r].pc = "turn", ![r].promotion = None]
  /\ UNCHANGED <<storeVars, client, woken, failures>>

\* The turn is over, and what it knew gone.
Answered(r) ==
  /\ runner[r].pc = "provider"
  /\ runner' = [runner EXCEPT ![r] = [IdleRunner EXCEPT !.pc = "checkSteer"]]
  /\ UNCHANGED <<storeVars, client, woken, failures>>

CheckSteer(r) ==
  /\ runner[r].pc = "checkSteer"
  /\ IF Pending("steer") # {} THEN BeginTurn(r, "steer") ELSE Goto(r, "checkQueue")
  /\ UNCHANGED <<storeVars, client, woken, failures>>

CheckQueue(r) ==
  /\ runner[r].pc = "checkQueue"
  /\ IF Pending("queue") # {} THEN BeginTurn(r, "queue")
       ELSE runner' = [runner EXCEPT ![r] = IdleRunner]
  /\ UNCHANGED <<storeVars, client, woken, failures>>

\* A drain fails, is interrupted or dies with its process, and a wake with it,
\* at any point.
Fail(r) ==
  /\ runner[r].pc # "idle"
  /\ failures < world.failures
  /\ failures' = failures + 1
  /\ runner' = [runner EXCEPT ![r] = IdleRunner]
  /\ UNCHANGED woken \/ woken' = FALSE
  /\ UNCHANGED <<storeVars, client>>

-----------------------------------------------------------------------------
(* Reverts: a request reads the session, and publishes what it read.        *)

Request(op, boundary) ==
  /\ reverts < world.reverts
  /\ reverts' = reverts + 1
  /\ reverting' = reverting \cup {[op |-> op, boundary |-> boundary]}
  /\ UNCHANGED <<world, seq, admissions, inbox, message, staged, client, runner, woken, failures>>

RequestStage(i) == message[i] # 0 /\ Request("stage", i)

RequestClear == staged # None /\ Request("clear", None)

RequestCommit == staged # None /\ Request("commit", staged)

Publish(request) ==
  /\ request \in reverting
  /\ reverting' = reverting \ {request}
  /\ seq' = seq + 1
  /\ UNCHANGED <<world, admissions, reverts, client, runner, woken, failures>>

\* Staging again moves the boundary.
Stage(request) ==
  /\ request.op = "stage"
  /\ Publish(request)
  /\ staged' = request.boundary
  /\ UNCHANGED <<inbox, message>>

ClearRevert(request) ==
  /\ request.op = "clear"
  /\ Publish(request)
  /\ staged' = None
  /\ UNCHANGED <<inbox, message>>

\* Faulty variant of After: only the admission is compared.
AdmittedAfter(row, boundary) == row # None /\ row.admitted > boundary

After(row, boundary) ==
  row # None /\ (row.admitted > boundary \/ row.promoted > boundary)

\* The Committed projection: messages after the boundary go, and so do the
\* inputs admitted or promoted after it.
CommitRevert(request) ==
  LET boundary == message[request.boundary]
  IN /\ request.op = "commit"
     /\ boundary # 0
     /\ Publish(request)
     /\ message' = [i \in Ids |-> IF message[i] > boundary THEN 0 ELSE message[i]]
     /\ inbox' = [i \in Ids |-> IF After(inbox[i], boundary) THEN None ELSE inbox[i]]
     /\ staged' = None

\* It dies, and the transaction rolls back, when the boundary is gone.
CommitDies(request) ==
  /\ request \in reverting
  /\ request.op = "commit"
  /\ message[request.boundary] = 0
  /\ reverting' = reverting \ {request}
  /\ UNCHANGED <<world, seq, admissions, reverts, inbox, message, staged, client, runner, woken, failures>>

-----------------------------------------------------------------------------
Prompting(c) ==
  \/ \E i \in Ids, p \in Prompts, d \in Deliveries : Prompt(c, i, p, d)
  \/ FindExisting(c)
  \/ FindNothing(c)
  \/ Admit(c)
  \/ AdmitConflict(c)
  \/ Recover(c)
  \/ Wake(c)
  \/ Return(c)

\* The steps a drain takes by itself, the provider's answer apart.
Draining(r) ==
  \/ LookForQueue(r)
  \/ ReadCutoff(r)
  \/ ReadQueue(r)
  \/ ReadSteers(r)
  \/ \E row \in runner[r].rows : PromoteRow(r, row) \/ PromoteConflict(r, row) \/ PromoteRecover(r, row)
  \/ Promoted(r)
  \/ CheckSteer(r)
  \/ CheckQueue(r)

Reverting ==
  \/ \E i \in Ids : RequestStage(i)
  \/ RequestClear
  \/ RequestCommit
  \/ \E request \in reverting :
       \/ Stage(request)
       \/ ClearRevert(request)
       \/ CommitRevert(request)
       \/ CommitDies(request)

Next ==
  \/ \E c \in Clients : Prompting(c)
  \/ \E r \in Runners :
       \/ LookForSteer(r)
       \/ Draining(r)
       \/ Continue(r)
       \/ Compact(r)
       \/ Answered(r)
       \/ Fail(r)
  \/ Reverting

Spec == Init /\ [][Next]_vars

\* A wake is followed by a drain (RunCoordinator: WorkIsConsumed); a drain takes
\* its next step; and a model that may answer again and again in the end does so
\* without tool calls.  Nobody has to prompt, to wake or to resume.
Start(r) == woken /\ LookForSteer(r)

Fairness ==
  \A r \in Runners :
    WF_vars(Start(r)) /\ WF_vars(Draining(r)) /\ SF_vars(Answered(r))

FairSpec == Spec /\ Fairness

-----------------------------------------------------------------------------
(* Properties.                                                              *)

ClientState ==
  {IdleClient} \cup
    [pc : {"finding", "publishing", "recovering", "accepted", "conflict"},
     id : Ids, prompt : Prompts, delivery : Deliveries]

RunnerState == [pc : {"idle", "lookQueue", "turn", "readQueue", "readSteers", "promoteQueue",
                      "promoteSteers", "recoverQueue", "recoverSteers", "provider", "checkSteer", "checkQueue"},
                promotion : Deliveries \cup {None}, cutoff : Nat, rows : SUBSET Row]

\* Types of the tables and of the fibers' local state.
TypeOK ==
  /\ world \in Worlds
  /\ {seq, admissions, reverts, failures} \subseteq Nat
  /\ inbox \in [Ids -> Row \cup {None}]
  /\ message \in [Ids -> Nat]
  /\ staged \in Ids \cup {None}
  /\ reverting \subseteq [op : {"stage", "clear", "commit"}, boundary : Ids \cup {None}]
  /\ client \in [Clients -> ClientState]
  /\ runner \in [Runners -> RunnerState]
  /\ woken \in BOOLEAN

\* The inbox and the conversation tell the same story: an input is promoted
\* exactly when its user message is there, at the same sequence, also after a
\* revert cut both tables and while several drains promote.
InboxMatchesConversation ==
  \A i \in Ids \ world.taken :
    IF message[i] = 0
      THEN inbox[i] = None \/ IsPending(inbox[i])
      ELSE inbox[i] # None /\ inbox[i].promoted = message[i]

\* "promotes one message once under concurrent promotion attempts": a message
\* never moves in the conversation; only a committed revert takes it out.
PromotedOnce ==
  [][\A i \in Ids :
       message[i] # 0 /\ message'[i] # message[i] => message'[i] = 0 /\ \E q \in reverting : CommitRevert(q)]_vars

\* "rejects reuse of one ID with a different prompt": while nothing is
\* reverted, clients that were told their prompt is recorded under one id meant
\* the same prompt, however their requests raced with each other and with the
\* promotion.
OneContentPerId ==
  reverts = 0 =>
    \A c, d \in Clients :
      client[c].pc = "accepted" /\ client[d].pc = "accepted" /\ client[c].id = client[d].id
        => client[c] = client[d]

\* "FIFO order": prompts of one delivery mode enter the conversation in the
\* order of their admission (a row re-inserted by its promotion was never in
\* the queue).
PromotedInOrder ==
  \A i, j \in Ids :
    LET a == inbox[i]
        b == inbox[j]
    IN /\ a # None /\ b # None
       /\ a.delivery = b.delivery
       /\ a.admitted < b.admitted
       /\ b.promoted > b.admitted
       => a.promoted # 0 /\ a.promoted < b.promoted

\* When the model is called, no steer admitted before the turn began promoting
\* is still waiting, whatever else promoted, reverted or compacted meanwhile.
ModelSeesSteers ==
  \A r \in Runners :
    runner[r].pc = "provider" =>
      \A i \in Pending("steer") : inbox[i].admitted > runner[r].cutoff

\* Once the session is woken, every prompt pending by then is promoted or
\* reverted, unless a drain fails: queued ones too, which wait for all the steers
\* that come before their turn (llm.ts prefers steers, and a stream of them that
\* never ended would starve the queue; here admissions are bounded).
PendingIsPromoted ==
  \A i \in Ids : (IsPending(inbox[i]) /\ woken) ~> (~IsPending(inbox[i]) \/ failures > 0)

=============================================================================
