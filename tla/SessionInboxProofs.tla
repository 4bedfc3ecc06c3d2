------------------------- MODULE SessionInboxProofs -------------------------
(***************************************************************************)
(* Proofs about SessionInbox.tla, for any sets of ids, contents, clients   *)
(* and drains and any worlds.  The checked properties relate the two       *)
(* tables, what clients were told and what drains have read; the inductive *)
(* invariant adds how sequences bound each other and what the rows in a    *)
(* drain's memory still stand for after other actors changed the tables.   *)
(* The last part shows that the inbox implements PromptQueue.tla.          *)
(***************************************************************************)
EXTENDS SessionInboxRefinement, TLAPS

\* Sequences of a row come from the session's: admission first, then promotion.
RowFits(i) ==
  inbox[i] # None =>
    /\ inbox[i].id = i
    /\ 0 < inbox[i].admitted
    /\ inbox[i].admitted <= seq
    /\ inbox[i].promoted = 0 \/ inbox[i].admitted <= inbox[i].promoted
    /\ inbox[i].promoted <= seq

RowsFit == \A i \in Ids : RowFits(i)

CutoffsFit == \A r \in Runners : runner[r].cutoff <= seq

\* Only what was staged is committed, and nothing while no revert was requested.
RequestsFit ==
  /\ reverts = 0 => reverting = {}
  /\ \A q \in reverting : q.op = "commit" => q.boundary \in Ids

\* Who was told that a prompt is recorded finds its content under its id.
AnsweredRow(c) ==
  client[c].pc = "accepted" =>
    /\ client[c].id \in Ids
    /\ inbox[client[c].id] # None
    /\ Equivalent(inbox[client[c].id], client[c].prompt, client[c].delivery)

AnswersAreStored == reverts = 0 => \A c \in Clients : AnsweredRow(c)

NothingDue(r) == \A i \in Pending("steer") : inbox[i].admitted > runner[r].cutoff

\* Past the promotion of its steers a turn owes none; before, it has read all
\* that is due.
SteersSeen(r) ==
  /\ \/ runner[r].pc = "provider"
     \/ runner[r].pc = "turn" /\ runner[r].promotion \notin Deliveries
     => NothingDue(r)
  /\ runner[r].pc \in {"promoteSteers", "recoverSteers"} =>
       \A i \in Pending("steer") :
         inbox[i].admitted <= runner[r].cutoff => \E row \in runner[r].rows : row.id = i

IInv ==
  /\ TypeOK
  /\ RowsFit
  /\ CutoffsFit
  /\ RequestsFit
  /\ InboxMatchesConversation
  /\ AnswersAreStored
  /\ \A r \in Runners : SteersSeen(r)

\* While nothing was reverted, a row a drain has read is still stored, with
\* what was pending before it read as well or promoted since.
RowIsStored(row) ==
  /\ inbox[row.id] # None
  /\ inbox[row.id].admitted = row.admitted
  /\ inbox[row.id].delivery = row.delivery

EarlierIsRead(r, row) ==
  \A i \in Ids :
    /\ IsPending(inbox[i])
    /\ inbox[i].delivery = row.delivery
    /\ inbox[i].admitted < row.admitted
    => \E earlier \in runner[r].rows : earlier.id = i

ReadInOrder ==
  \A r \in Runners : \A row \in runner[r].rows : RowIsStored(row) /\ EarlierIsRead(r, row)

OInv ==
  reverts = 0 => ReadInOrder /\ PromotedInOrder


-----------------------------------------------------------------------------
(* Types.                                                                   *)

LEMMA IdleTypes == IdleClient \in ClientState /\ IdleRunner \in RunnerState
BY SMT DEF IdleRunner, ClientState, RunnerState, Row

LEMMA TypeInit == Init => TypeOK
<1> SUFFICES ASSUME Init PROVE TypeOK
  OBVIOUS
<1> USE SessionInboxAssumption, IdleTypes
<1>1. world \in World
  BY DEF Init
<1>2. message \in [Ids -> Nat]
  BY <1>1 DEF Init, World
<1>3. woken \in BOOLEAN
  BY Zenon DEF Init
<1> QED
  BY <1>2, <1>3 DEF Init, TypeOK

LEMMA AnswerTypes ==
  ASSUME TypeOK, NEW c \in Clients, client[c].pc # "idle", NEW row, Answer(c, row)
  PROVE  client' \in [Clients -> ClientState]
BY DEF TypeOK, Answer, ClientState, IdleClient

LEMMA PromptingTypes ==
  ASSUME TypeOK, NEW c \in Clients, Prompting(c)
  PROVE  TypeOK'
<1> USE SessionInboxAssumption, IdleTypes
<1>1. ASSUME NEW i \in Ids, NEW p \in Prompts, NEW d \in Deliveries, Prompt(c, i, p, d)
      PROVE  TypeOK'
  <2>1. client' \in [Clients -> ClientState]
    BY <1>1 DEF TypeOK, Prompt, ClientState
  <2> QED
    BY <1>1, <2>1 DEF TypeOK, Prompt, storeVars, revertVars
<1>2. CASE FindExisting(c)
  <2>1. client' \in [Clients -> ClientState]
    BY <1>2, AnswerTypes DEF FindExisting
  <2> QED
    BY <1>2, <2>1 DEF TypeOK, FindExisting, storeVars, revertVars
<1>3. CASE FindNothing(c)
  <2>1. client' \in [Clients -> ClientState]
    BY <1>3 DEF TypeOK, FindNothing, ClientState, IdleClient
  <2> QED
    BY <1>3, <2>1 DEF TypeOK, FindNothing, storeVars, revertVars
<1>4. CASE Admit(c)
  <2> DEFINE Admitted(t) == [id |-> client[c].id, prompt |-> client[c].prompt,
               delivery |-> client[c].delivery, time |-> t, admitted |-> seq + 1, promoted |-> 0]
  <2>1. PICK t \in Times : inbox' = [inbox EXCEPT ![client[c].id] = Admitted(t)] /\ Answer(c, Admitted(t))
    BY <1>4 DEF Admit
  <2>2. client' \in [Clients -> ClientState]
    BY <1>4, <2>1, AnswerTypes DEF Admit
  <2>3. inbox' \in [Ids -> Row \cup {None}]
    <3>1. client[c].id \in Ids /\ Admitted(t) \in Row
      BY <1>4 DEF TypeOK, Row, Admit, ClientState, IdleClient
    <3> QED
      BY <2>1, <3>1 DEF TypeOK
  <2> QED
    BY <1>4, <2>2, <2>3 DEF TypeOK, Admit, revertVars
<1>5. CASE AdmitConflict(c)
  <2>1. client' \in [Clients -> ClientState]
    BY <1>5 DEF TypeOK, AdmitConflict, ClientState, IdleClient
  <2> QED
    BY <1>5, <2>1 DEF TypeOK, AdmitConflict, storeVars, revertVars
<1>6. CASE Recover(c)
  <2>1. client' \in [Clients -> ClientState]
    BY <1>6, AnswerTypes DEF TypeOK, Recover, ClientState, IdleClient
  <2> QED
    BY <1>6, <2>1 DEF TypeOK, Recover, storeVars, revertVars
<1>7. CASE Return(c)
  <2>1. client' \in [Clients -> ClientState]
    BY <1>7 DEF TypeOK, Return
  <2> QED
    BY <1>7, <2>1 DEF TypeOK, Return, storeVars, revertVars
<1>8. CASE Wake(c)
  <2>1. client' \in [Clients -> ClientState]
    BY <1>8 DEF TypeOK, Wake
  <2> QED
    BY <1>8, <2>1 DEF TypeOK, Wake, storeVars, revertVars
<1> QED
  BY <1>1, <1>2, <1>3, <1>4, <1>5, <1>6, <1>7, <1>8 DEF Prompting

\* A step of a drain that leaves the tables alone.
LEMMA ReadingTypes ==
  ASSUME TypeOK, NEW r \in Runners, NEW local \in RunnerState,
         runner' = [runner EXCEPT ![r] = local], UNCHANGED <<storeVars, client, failures>>,
         UNCHANGED woken \/ woken' = FALSE
  PROVE  TypeOK'
<1>1. woken' \in BOOLEAN
  BY Zenon DEF TypeOK
<1> QED
  BY <1>1 DEF TypeOK, storeVars, revertVars

LEMMA RowUpdates ==
  ASSUME NEW row \in Row, NEW n \in Nat
  PROVE  /\ [row EXCEPT !.promoted = n] \in Row
         /\ [row EXCEPT !.admitted = n, !.promoted = n] \in Row
<1>1. [row EXCEPT !.promoted = n] \in Row
  BY DEF Row
<1>2. [[row EXCEPT !.admitted = n] EXCEPT !.promoted = n] \in Row
  BY DEF Row
<1> QED
  BY <1>1, <1>2

LEMMA DrainingTypes ==
  ASSUME TypeOK, NEW r \in Runners, Draining(r)
  PROVE  TypeOK'
<1> USE SessionInboxAssumption, IdleTypes
<1>a. runner[r] \in RunnerState /\ runner[r].rows \subseteq Row
  BY DEF TypeOK, RunnerState
<1>b. \A delivery \in Deliveries : \A i \in Pending(delivery) : inbox[i] \in Row
  BY DEF TypeOK, Pending, IsPending
<1>c. \A p \in Deliveries \cup {None} :
        [pc |-> "turn", promotion |-> p, cutoff |-> 0, rows |-> {}] \in RunnerState
  BY DEF RunnerState
<1>n. seq \in Nat /\ seq + 1 \in Nat
  BY DEF TypeOK
<1>1. CASE LookForQueue(r)
  <2>1. PICK local \in RunnerState : runner' = [runner EXCEPT ![r] = local]
    BY <1>1, <1>c DEF LookForQueue, BeginTurn, Deliveries
  <2> QED
    BY <1>1, <2>1, ReadingTypes DEF LookForQueue
<1>2. CASE ReadCutoff(r)
  <2> DEFINE cutoff == IF runner[r].promotion = None THEN runner[r].cutoff ELSE seq
             pc == CASE runner[r].promotion = "queue" -> "readQueue"
                     [] runner[r].promotion = "steer" -> "readSteers"
                     [] OTHER -> "provider"
             local == [runner[r] EXCEPT !.promotion = None, !.cutoff = cutoff, !.pc = pc]
  <2>a. cutoff \in Nat /\ pc \in {"readQueue", "readSteers", "provider"}
    BY <1>a DEF TypeOK, RunnerState
  <2>b. runner' = [runner EXCEPT ![r] = local]
    BY <1>2, <1>a DEF TypeOK, ReadCutoff
  <2> HIDE DEF cutoff, pc
  <2>c. local \in RunnerState
    BY <1>a, <2>a DEF TypeOK, RunnerState
  <2>1. PICK other \in RunnerState : runner' = [runner EXCEPT ![r] = other]
    BY <2>b, <2>c
  <2> QED
    BY <1>2, <2>1, ReadingTypes DEF ReadCutoff
<1>3. CASE ReadQueue(r)
  <2>1. Earliest({inbox[i] : i \in Pending("queue")}) \subseteq Row
    BY <1>b DEF Earliest, Deliveries
  <2>2. [runner[r] EXCEPT !.rows = Earliest({inbox[i] : i \in Pending("queue")}),
                          !.pc = "promoteQueue"] \in RunnerState
    BY <2>1, <1>a DEF RunnerState
  <2>3. runner' = [runner EXCEPT ![r] =
          [runner[r] EXCEPT !.rows = Earliest({inbox[i] : i \in Pending("queue")}), !.pc = "promoteQueue"]]
    BY <1>3, <1>a DEF TypeOK, ReadQueue
  <2> QED
    BY <1>3, <2>2, <2>3, ReadingTypes DEF ReadQueue
<1>4. CASE ReadSteers(r)
  <2>1. Due(runner[r].cutoff) \subseteq Row
    BY <1>b DEF Due, Deliveries
  <2>2. [runner[r] EXCEPT !.rows = Due(runner[r].cutoff), !.pc = "promoteSteers"] \in RunnerState
    BY <2>1, <1>a DEF RunnerState
  <2>3. runner' = [runner EXCEPT ![r] =
          [runner[r] EXCEPT !.rows = Due(runner[r].cutoff), !.pc = "promoteSteers"]]
    BY <1>4, <1>a DEF TypeOK, ReadSteers
  <2> QED
    BY <1>4, <2>2, <2>3, ReadingTypes DEF ReadSteers
<1>5. ASSUME NEW row \in runner[r].rows, PromoteRow(r, row)
      PROVE  TypeOK'
  <2>1. row \in Row
    BY <1>a
  <2>2. inbox' \in [Ids -> Row \cup {None}]
    <3>1. CASE inbox[row.id] = None
      <4>1. [row EXCEPT !.admitted = seq + 1, !.promoted = seq + 1] \in Row
        BY <2>1, <1>n, RowUpdates
      <4> QED
        BY <1>5, <3>1, <4>1 DEF TypeOK, PromoteRow
    <3>2. CASE inbox[row.id] # None
      <4>1. row.id \in Ids
        BY <2>1 DEF Row
      <4>2. inbox[row.id] \in Row
        BY <3>2, <4>1 DEF TypeOK
      <4>3. [inbox[row.id] EXCEPT !.promoted = seq + 1] \in Row
        BY <4>2, <1>n, RowUpdates
      <4>4. inbox' = [inbox EXCEPT ![row.id] = [inbox[row.id] EXCEPT !.promoted = seq + 1]]
        BY <1>5, <3>2, <4>1 DEF TypeOK, PromoteRow
      <4> QED
        BY <4>3, <4>4 DEF TypeOK
    <3> QED
      BY <3>1, <3>2
  <2>3. runner' \in [Runners -> RunnerState]
    BY <1>5 DEF TypeOK, PromoteRow, NextRow, RunnerState
  <2>4. message' \in [Ids -> Nat] /\ seq' \in Nat
    <3>1. message' = [message EXCEPT ![row.id] = seq + 1] /\ seq' = seq + 1
      BY <1>5 DEF PromoteRow
    <3> QED
      BY <3>1, <1>n DEF TypeOK
  <2> QED
    BY <1>5, <2>2, <2>3, <2>4 DEF TypeOK, PromoteRow, revertVars
<1>6. ASSUME NEW row \in runner[r].rows, PromoteConflict(r, row)
      PROVE  TypeOK'
  <2>1. Recovering[runner[r].pc] \in {"recoverQueue", "recoverSteers"}
    BY <1>6 DEF PromoteConflict, Promoting, Recovering
  <2>2. [runner[r] EXCEPT !.pc = Recovering[runner[r].pc]] \in RunnerState
    BY <2>1, <1>a DEF RunnerState
  <2>3. runner' = [runner EXCEPT ![r] = [runner[r] EXCEPT !.pc = Recovering[runner[r].pc]]]
    BY <1>6, <1>a DEF TypeOK, PromoteConflict, Goto
  <2> QED
    BY <1>6, <2>2, <2>3, ReadingTypes DEF PromoteConflict
<1>7. ASSUME NEW row \in runner[r].rows, PromoteRecover(r, row)
      PROVE  TypeOK'
  <2>1. \A pc \in DOMAIN Recovering : [runner[r] EXCEPT !.pc = pc, !.rows = @ \ {row}] \in RunnerState
    BY <1>a DEF RunnerState, Recovering
  <2>2. PICK local \in RunnerState : runner' = [runner EXCEPT ![r] = local]
    <3>1. PICK pc \in DOMAIN Recovering :
            runner' = IF inbox[row.id] = None \/ IsPending(inbox[row.id]) THEN [runner EXCEPT ![r] = IdleRunner]
                      ELSE [runner EXCEPT ![r].pc = pc, ![r].rows = @ \ {row}]
      BY <1>7 DEF PromoteRecover
    <3>2. [runner EXCEPT ![r].pc = pc, ![r].rows = @ \ {row}]
            = [runner EXCEPT ![r] = [runner[r] EXCEPT !.pc = pc, !.rows = @ \ {row}]]
      BY <1>a DEF TypeOK
    <3> QED
      BY <3>1, <3>2, <2>1
  <2> QED
    BY <1>7, <2>2, ReadingTypes DEF PromoteRecover
<1>8. CASE Promoted(r)
  <2>1. PICK local \in RunnerState : runner' = [runner EXCEPT ![r] = local]
    BY <1>8, <1>a DEF TypeOK, Promoted, Goto, RunnerState
  <2> QED
    BY <1>8, <2>1, ReadingTypes DEF Promoted
<1>9. CASE CheckSteer(r)
  <2>1. PICK local \in RunnerState : runner' = [runner EXCEPT ![r] = local]
    BY <1>9, <1>a, <1>c DEF TypeOK, CheckSteer, Goto, BeginTurn, RunnerState, Deliveries
  <2> QED
    BY <1>9, <2>1, ReadingTypes DEF CheckSteer
<1>10. CASE CheckQueue(r)
  <2>1. PICK local \in RunnerState : runner' = [runner EXCEPT ![r] = local]
    BY <1>10, <1>a, <1>c DEF CheckQueue, BeginTurn, Deliveries
  <2> QED
    BY <1>10, <2>1, ReadingTypes DEF CheckQueue
<1> QED
  BY <1>1, <1>2, <1>3, <1>4, <1>5, <1>6, <1>7, <1>8, <1>9, <1>10 DEF Draining

LEMMA RunnerTypes ==
  ASSUME TypeOK, NEW r \in Runners,
         LookForSteer(r) \/ Continue(r) \/ Compact(r) \/ Answered(r) \/ Fail(r)
  PROVE  TypeOK'
<1> USE IdleTypes
<1>a. runner[r] \in RunnerState
  BY DEF TypeOK
<1>b. [pc |-> "turn", promotion |-> "steer", cutoff |-> 0, rows |-> {}] \in RunnerState
  BY DEF RunnerState, Deliveries
<1>1. CASE LookForSteer(r)
  <2>1. PICK local \in RunnerState : runner' = [runner EXCEPT ![r] = local]
    BY <1>1, <1>a, <1>b DEF TypeOK, LookForSteer, Goto, BeginTurn, RunnerState
  <2> QED
    BY <1>1, <2>1, ReadingTypes DEF LookForSteer
<1>2. CASE Continue(r)
  BY <1>2, <1>b, ReadingTypes DEF Continue, BeginTurn
<1>3. CASE Compact(r)
  <2>1. PICK local \in RunnerState : runner' = [runner EXCEPT ![r] = local]
    BY <1>3, <1>a DEF TypeOK, Compact, RunnerState
  <2> QED
    BY <1>3, <2>1, ReadingTypes DEF Compact
<1>4. CASE Answered(r)
  <2>1. PICK local \in RunnerState : runner' = [runner EXCEPT ![r] = local]
    BY <1>4, <1>a DEF TypeOK, Answered, Goto, RunnerState
  <2> QED
    BY <1>4, <2>1, ReadingTypes DEF Answered
<1>5. CASE Fail(r)
  <2>1. woken' \in BOOLEAN
    BY <1>5, Zenon DEF TypeOK, Fail
  <2> QED
    BY <1>5, <2>1 DEF TypeOK, Fail, storeVars, revertVars
<1> QED
  BY <1>1, <1>2, <1>3, <1>4, <1>5

LEMMA RevertingTypes ==
  ASSUME TypeOK, RequestsFit, Reverting
  PROVE  TypeOK' /\ RequestsFit'
<1> USE SessionInboxAssumption
<1>1. ASSUME NEW op \in {"stage", "clear", "commit"}, NEW b \in Ids \cup {None},
             op = "commit" => b \in Ids, Request(op, b)
      PROVE  TypeOK' /\ RequestsFit'
  BY <1>1 DEF TypeOK, RequestsFit, Request
<1>2. ASSUME NEW i \in Ids, RequestStage(i)
      PROVE  TypeOK' /\ RequestsFit'
  BY <1>1, <1>2 DEF RequestStage
<1>3. CASE RequestClear
  BY <1>1, <1>3 DEF RequestClear
<1>4. CASE RequestCommit
  BY <1>1, <1>4 DEF RequestCommit, TypeOK
<1>5. ASSUME NEW q \in reverting, Stage(q) \/ ClearRevert(q) \/ CommitRevert(q) \/ CommitDies(q)
      PROVE  TypeOK' /\ RequestsFit'
  <2>1. q.boundary \in Ids \cup {None}
    BY DEF TypeOK
  <2>2. CASE Stage(q) \/ ClearRevert(q) \/ CommitDies(q)
    BY <2>1, <2>2 DEF TypeOK, RequestsFit, Stage, ClearRevert, CommitDies, Publish
  <2>3. CASE CommitRevert(q)
    BY <2>3 DEF TypeOK, RequestsFit, CommitRevert, Publish
  <2> QED
    BY <1>5, <2>2, <2>3
<1> QED
  BY <1>2, <1>3, <1>4, <1>5 DEF Reverting

-----------------------------------------------------------------------------
(* The tables change in four ways.                                          *)

Requested(q) == Stage(q) \/ ClearRevert(q)

LEMMA StoreSteps ==
  ASSUME [Next]_vars
  PROVE  \/ UNCHANGED <<seq, inbox, message>>
         \/ \E c \in Clients : Admit(c)
         \/ \E r \in Runners : \E row \in runner[r].rows : PromoteRow(r, row)
         \/ \E q \in reverting : Requested(q) \/ CommitRevert(q)
<1>1. CASE UNCHANGED vars
  BY <1>1 DEF vars
<1>2. ASSUME NEW c \in Clients, Prompting(c), ~Admit(c)
      PROVE  UNCHANGED <<seq, inbox, message>>
  BY <1>2 DEF Prompting, Prompt, FindExisting, FindNothing, AdmitConflict, Recover, Wake, Return, storeVars
<1>3. ASSUME NEW r \in Runners, Draining(r), ~\E row \in runner[r].rows : PromoteRow(r, row)
      PROVE  UNCHANGED <<seq, inbox, message>>
  BY <1>3 DEF Draining, LookForQueue, ReadCutoff, ReadQueue, ReadSteers, PromoteConflict, PromoteRecover,
       Promoted, CheckSteer, CheckQueue, storeVars
<1>4. ASSUME NEW r \in Runners, LookForSteer(r) \/ Continue(r) \/ Compact(r) \/ Answered(r) \/ Fail(r)
      PROVE  UNCHANGED <<seq, inbox, message>>
  BY <1>4 DEF LookForSteer, Continue, Compact, Answered, Fail, storeVars
<1>5. CASE Reverting
  BY <1>5 DEF Reverting, RequestStage, RequestClear, RequestCommit, Request, Requested, CommitDies
<1> QED
  BY <1>1, <1>2, <1>3, <1>4, <1>5 DEF Next

\* Only requests count reverts, nothing changes the world, and only clients
\* change what clients do.
LEMMA WorldSteps ==
  ASSUME [Next]_vars
  PROVE  /\ world' = world
         /\ reverts' = reverts \/ \E op, b : Request(op, b)
         /\ client' = client \/ \E c \in Clients : Prompting(c)
<1>1. CASE UNCHANGED vars
  BY <1>1 DEF vars
<1>2. ASSUME NEW c \in Clients, Prompting(c)
      PROVE  UNCHANGED <<world, reverts>>
  BY <1>2 DEF Prompting, Prompt, FindExisting, FindNothing, Admit, AdmitConflict, Recover, Wake, Return, storeVars, revertVars
<1>3. ASSUME NEW r \in Runners, Draining(r)
      PROVE  UNCHANGED <<world, reverts, client>>
  <2>1. ASSUME NEW row \in runner[r].rows, PromoteRow(r, row) \/ PromoteConflict(r, row) \/ PromoteRecover(r, row)
        PROVE  UNCHANGED <<world, reverts, client>>
    BY <2>1 DEF PromoteRow, PromoteConflict, PromoteRecover, storeVars, revertVars
  <2> QED
    BY <1>3, <2>1 DEF Draining, LookForQueue, ReadCutoff, ReadQueue, ReadSteers, Promoted, CheckSteer, CheckQueue,
       storeVars, revertVars
<1>4. ASSUME NEW r \in Runners, LookForSteer(r) \/ Continue(r) \/ Compact(r) \/ Answered(r) \/ Fail(r)
      PROVE  UNCHANGED <<world, reverts, client>>
  BY <1>4 DEF LookForSteer, Continue, Compact, Answered, Fail, storeVars, revertVars
<1>5. ASSUME NEW op, NEW b, Request(op, b)
      PROVE  UNCHANGED <<world, client>>
  BY <1>5 DEF Request
<1>6. ASSUME NEW q \in reverting, Stage(q) \/ ClearRevert(q) \/ CommitRevert(q) \/ CommitDies(q)
      PROVE  UNCHANGED <<world, reverts, client>>
  BY <1>6 DEF Stage, ClearRevert, CommitRevert, CommitDies, Publish
<1>7. CASE Reverting
  BY <1>5, <1>6, <1>7 DEF Reverting, RequestStage, RequestClear, RequestCommit
<1> QED
  BY <1>1, <1>2, <1>3, <1>4, <1>7 DEF Next

LEMMA RowTypes ==
  ASSUME TypeOK
  PROVE  /\ seq \in Nat
         /\ \A i \in Ids : inbox[i] # None => inbox[i] \in Row
         /\ \A i \in Ids : message[i] \in Nat
         /\ \A r \in Runners : runner[r] \in RunnerState
         /\ \A r \in Runners : \A row \in runner[r].rows : row \in Row
         /\ \A row \in Row : row # None /\ row.id \in Ids /\ row.admitted \in Nat /\ row.promoted \in Nat
BY SessionInboxAssumption DEF TypeOK, RunnerState, Row

\* What an admission does to the tables.
LEMMA AdmitStep ==
  ASSUME TypeOK, NEW c \in Clients, Admit(c)
  PROVE  \E i \in Ids : \E row \in Row :
           /\ inbox[i] = None /\ message[i] = 0 /\ message' = message /\ seq' = seq + 1
           /\ inbox' = [inbox EXCEPT ![i] = row]
           /\ row.id = i /\ row.admitted = seq + 1 /\ row.promoted = 0
           /\ i = client[c].id /\ Equivalent(row, client[c].prompt, client[c].delivery)
<1> DEFINE Admitted(t) == [id |-> client[c].id, prompt |-> client[c].prompt,
             delivery |-> client[c].delivery, time |-> t, admitted |-> seq + 1, promoted |-> 0]
<1>1. PICK t \in Times : inbox' = [inbox EXCEPT ![client[c].id] = Admitted(t)]
  BY DEF Admit
<1>2. client[c].id \in Ids /\ Admitted(t) \in Row
  BY RowTypes DEF TypeOK, Admit, ClientState, IdleClient, Row
<1>3. inbox[client[c].id] = None /\ message[client[c].id] = 0 /\ message' = message /\ seq' = seq + 1
  BY DEF Admit
<1> HIDE DEF Admitted
<1>4. /\ Admitted(t).id = client[c].id /\ Admitted(t).admitted = seq + 1 /\ Admitted(t).promoted = 0
      /\ Equivalent(Admitted(t), client[c].prompt, client[c].delivery)
  BY DEF Admitted, Equivalent
<1> QED
  BY <1>1, <1>2, <1>3, <1>4

\* What a promotion does to the tables: the row after it.
LEMMA PromoteStep ==
  ASSUME TypeOK, NEW r \in Runners, NEW row \in runner[r].rows, PromoteRow(r, row)
  PROVE  /\ row \in Row /\ row.id \in Ids
         /\ seq' = seq + 1
         /\ message[row.id] = 0
         /\ message' = [message EXCEPT ![row.id] = seq + 1]
         /\ \E new \in Row :
              /\ inbox' = [inbox EXCEPT ![row.id] = new]
              /\ new.promoted = seq + 1
              /\ \/ inbox[row.id] = None /\ new.id = row.id /\ new.admitted = seq + 1
                 \/ /\ inbox[row.id] # None
                    /\ inbox[row.id].promoted = 0
                    /\ new.id = inbox[row.id].id
                    /\ new.admitted = inbox[row.id].admitted
                    /\ Equivalent(new, inbox[row.id].prompt, inbox[row.id].delivery)
<1>1. row \in Row /\ row.id \in Ids /\ seq \in Nat /\ seq + 1 \in Nat
  BY RowTypes
<1>2. /\ seq' = seq + 1
      /\ message[row.id] = 0
      /\ message' = [message EXCEPT ![row.id] = seq + 1]
  BY DEF PromoteRow
<1>3. CASE inbox[row.id] = None
  <2> DEFINE new == [row EXCEPT !.admitted = seq + 1, !.promoted = seq + 1]
  <2>1. new \in Row
    BY <1>1, RowUpdates
  <2>2. inbox' = [inbox EXCEPT ![row.id] = new]
    BY <1>3 DEF PromoteRow
  <2>3. new.promoted = seq + 1 /\ new.id = row.id /\ new.admitted = seq + 1
    BY <1>1 DEF Row
  <2> QED
    BY <1>1, <1>2, <1>3, <2>1, <2>2, <2>3
<1>4. CASE inbox[row.id] # None
  <2> DEFINE new == [inbox[row.id] EXCEPT !.promoted = seq + 1]
  <2>0. inbox[row.id] \in Row
    BY <1>1, <1>4, RowTypes
  <2>1. new \in Row
    BY <1>1, <2>0, RowUpdates
  <2>2. inbox[row.id].promoted = 0 /\ inbox' = [inbox EXCEPT ![row.id].promoted = seq + 1]
    BY <1>4 DEF PromoteRow
  <2>3. inbox' = [inbox EXCEPT ![row.id] = new]
    BY <1>1, <2>2 DEF TypeOK
  <2>4. /\ new.promoted = seq + 1 /\ new.id = inbox[row.id].id /\ new.admitted = inbox[row.id].admitted
        /\ Equivalent(new, inbox[row.id].prompt, inbox[row.id].delivery)
    BY <2>0 DEF Row, Equivalent
  <2> QED
    BY <1>1, <1>2, <1>4, <2>1, <2>2, <2>3, <2>4
<1> QED
  BY <1>3, <1>4


-----------------------------------------------------------------------------
(* Sequences, and the two tables.                                           *)

LEMMA RowsFitNext ==
  ASSUME TypeOK, TypeOK', RowsFit, [Next]_vars
  PROVE  RowsFit' /\ seq <= seq'
<1>a. seq \in Nat /\ \A i \in Ids : inbox[i] # None => inbox[i].admitted \in Nat /\ inbox[i].promoted \in Nat
  BY RowTypes
<1>1. CASE UNCHANGED <<seq, inbox, message>>
  BY <1>1, <1>a DEF RowsFit, RowFits
<1>2. ASSUME NEW c \in Clients, Admit(c)
      PROVE  RowsFit' /\ seq <= seq'
  <2>1. PICK i \in Ids, row \in Row :
          /\ seq' = seq + 1 /\ inbox' = [inbox EXCEPT ![i] = row]
          /\ row.id = i /\ row.admitted = seq + 1 /\ row.promoted = 0
    BY <1>2, AdmitStep
  <2> SUFFICES ASSUME NEW j \in Ids PROVE RowFits(j)'
    BY <1>a, <2>1 DEF RowsFit
  <2>2. CASE j = i
    BY <1>a, <2>1, <2>2 DEF TypeOK, RowFits
  <2>3. CASE j # i
    BY <1>a, <2>1, <2>3 DEF TypeOK, RowsFit, RowFits
  <2> QED
    BY <2>2, <2>3
<1>3. ASSUME NEW r \in Runners, NEW row \in runner[r].rows, PromoteRow(r, row)
      PROVE  RowsFit' /\ seq <= seq'
  <2>1. PICK new \in Row :
          /\ row.id \in Ids /\ seq' = seq + 1 /\ inbox' = [inbox EXCEPT ![row.id] = new]
          /\ new.promoted = seq + 1
          /\ \/ new.id = row.id /\ new.admitted = seq + 1
             \/ /\ inbox[row.id] # None
                /\ new.id = inbox[row.id].id /\ new.admitted = inbox[row.id].admitted
    BY <1>3, PromoteStep
  <2> SUFFICES ASSUME NEW j \in Ids PROVE RowFits(j)'
    BY <1>a, <2>1 DEF RowsFit
  <2>2. CASE j = row.id
    BY <1>a, <2>1, <2>2 DEF TypeOK, RowsFit, RowFits
  <2>3. CASE j # row.id
    BY <1>a, <2>1, <2>3 DEF TypeOK, RowsFit, RowFits
  <2> QED
    BY <2>2, <2>3
<1>4. ASSUME NEW q \in reverting, Requested(q)
      PROVE  RowsFit' /\ seq <= seq'
  BY <1>4, <1>a DEF RowsFit, RowFits, Requested, Stage, ClearRevert, Publish
<1>5. ASSUME NEW q \in reverting, CommitRevert(q)
      PROVE  RowsFit' /\ seq <= seq'
  <2>1. \A i \in Ids : inbox'[i] \in {inbox[i], None}
    BY <1>5 DEF CommitRevert
  <2> QED
    BY <1>5, <1>a, <2>1 DEF RowsFit, RowFits, CommitRevert, Publish
<1> QED
  BY <1>1, <1>2, <1>3, <1>4, <1>5, StoreSteps

LEMMA MatchesNext ==
  ASSUME TypeOK, RowsFit, RequestsFit, InboxMatchesConversation, [Next]_vars
  PROVE  InboxMatchesConversation'
<1>a. /\ seq \in Nat /\ \A i \in Ids : message[i] \in Nat
      /\ \A i \in Ids : inbox[i] # None => inbox[i].admitted \in Nat /\ inbox[i].promoted \in Nat
      /\ \A row \in Row : row # None
  BY RowTypes
<1>w. world' = world
  BY WorldSteps
<1> SUFFICES ASSUME NEW j \in Ids \ world.taken
             PROVE  (IF message[j] = 0 THEN inbox[j] = None \/ IsPending(inbox[j])
                     ELSE inbox[j] # None /\ inbox[j].promoted = message[j])'
  BY <1>w DEF InboxMatchesConversation
<1>b. IF message[j] = 0 THEN inbox[j] = None \/ IsPending(inbox[j])
      ELSE inbox[j] # None /\ inbox[j].promoted = message[j]
  BY DEF InboxMatchesConversation
<1>1. CASE UNCHANGED <<seq, inbox, message>>
  BY <1>1, <1>b DEF IsPending
<1>2. ASSUME NEW c \in Clients, Admit(c)
      PROVE  (IF message[j] = 0 THEN inbox[j] = None \/ IsPending(inbox[j])
              ELSE inbox[j] # None /\ inbox[j].promoted = message[j])'
  <2>1. PICK i \in Ids, row \in Row :
          /\ message[i] = 0 /\ message' = message /\ inbox' = [inbox EXCEPT ![i] = row] /\ row.promoted = 0
    BY <1>2, AdmitStep
  <2>2. CASE j = i
    BY <1>a, <2>1, <2>2 DEF TypeOK, IsPending
  <2>3. CASE j # i
    BY <1>b, <2>1, <2>3 DEF TypeOK, IsPending
  <2> QED
    BY <2>2, <2>3
<1>3. ASSUME NEW r \in Runners, NEW row \in runner[r].rows, PromoteRow(r, row)
      PROVE  (IF message[j] = 0 THEN inbox[j] = None \/ IsPending(inbox[j])
              ELSE inbox[j] # None /\ inbox[j].promoted = message[j])'
  <2>1. PICK new \in Row :
          /\ row.id \in Ids /\ message' = [message EXCEPT ![row.id] = seq + 1]
          /\ inbox' = [inbox EXCEPT ![row.id] = new] /\ new.promoted = seq + 1
    BY <1>3, PromoteStep
  <2>2. CASE j = row.id
    BY <1>a, <2>1, <2>2 DEF TypeOK
  <2>3. CASE j # row.id
    BY <1>b, <2>1, <2>3 DEF TypeOK, IsPending
  <2> QED
    BY <2>2, <2>3
<1>4. ASSUME NEW q \in reverting, Requested(q)
      PROVE  (IF message[j] = 0 THEN inbox[j] = None \/ IsPending(inbox[j])
              ELSE inbox[j] # None /\ inbox[j].promoted = message[j])'
  BY <1>4, <1>b DEF Requested, Stage, ClearRevert, IsPending
<1>5. ASSUME NEW q \in reverting, CommitRevert(q)
      PROVE  (IF message[j] = 0 THEN inbox[j] = None \/ IsPending(inbox[j])
              ELSE inbox[j] # None /\ inbox[j].promoted = message[j])'
  <2> DEFINE b == message[q.boundary]
  <2>1. /\ b \in Nat
        /\ message'[j] = IF message[j] > b THEN 0 ELSE message[j]
        /\ inbox'[j] = IF After(inbox[j], b) THEN None ELSE inbox[j]
    BY <1>5, <1>a DEF CommitRevert, RequestsFit
  <2>2. RowFits(j)
    BY DEF RowsFit
  <2> HIDE DEF b
  <2>3. CASE message[j] = 0
    BY <1>b, <1>a, <2>1, <2>3 DEF IsPending
  <2>4. CASE message[j] > b
    BY <1>b, <1>a, <2>1, <2>4 DEF After, IsPending
  <2>5. CASE message[j] # 0 /\ ~(message[j] > b)
    <3>1. inbox[j] # None /\ inbox[j].promoted = message[j] /\ inbox[j].admitted <= message[j]
      BY <1>b, <1>a, <2>2, <2>5 DEF RowFits
    <3>2. ~After(inbox[j], b)
      BY <1>a, <2>1, <2>5, <3>1 DEF After
    <3> QED
      BY <2>1, <2>5, <3>1, <3>2
  <2> QED
    BY <2>3, <2>4, <2>5
<1> QED
  BY <1>1, <1>2, <1>3, <1>4, <1>5, StoreSteps

LEMMA PromotedOnceNext ==
  ASSUME TypeOK, [Next]_vars, NEW i \in Ids, message[i] # 0, message'[i] # message[i]
  PROVE  message'[i] = 0 /\ \E q \in reverting : CommitRevert(q)
<1>1. ~UNCHANGED <<seq, inbox, message>>
  OBVIOUS
<1>2. ASSUME NEW c \in Clients, Admit(c) PROVE FALSE
  BY <1>2 DEF Admit
<1>3. ASSUME NEW r \in Runners, NEW row \in runner[r].rows, PromoteRow(r, row)
      PROVE  FALSE
  BY <1>3, PromoteStep DEF TypeOK
<1>4. ASSUME NEW q \in reverting, Requested(q) PROVE FALSE
  BY <1>4 DEF Requested, Stage, ClearRevert
<1>5. ASSUME NEW q \in reverting, CommitRevert(q) PROVE message'[i] = 0
  BY <1>5 DEF CommitRevert
<1> QED
  BY <1>1, <1>2, <1>3, <1>4, <1>5, StoreSteps


-----------------------------------------------------------------------------
(* What clients are told.                                                   *)

LEMMA RevertsOnlyGrow ==
  ASSUME TypeOK, [Next]_vars, reverts' = 0
  PROVE  reverts = 0
<1>1. reverts \in Nat
  BY DEF TypeOK
<1>2. reverts' = reverts \/ reverts' = reverts + 1
  BY WorldSteps DEF Request
<1> QED
  BY <1>1, <1>2

\* Without reverts a stored row stays, and only its promotion changes it.
LEMMA RowsStay ==
  ASSUME TypeOK, RequestsFit, [Next]_vars, reverts' = 0, NEW i \in Ids, inbox[i] # None
  PROVE  /\ inbox'[i] # None
         /\ Equivalent(inbox'[i], inbox[i].prompt, inbox[i].delivery)
         /\ inbox'[i].admitted = inbox[i].admitted
         /\ \/ inbox'[i] = inbox[i]
            \/ /\ inbox[i].promoted = 0 /\ inbox'[i].promoted = seq + 1
               /\ \E r \in Runners : \E row \in runner[r].rows : row.id = i /\ PromoteRow(r, row)
<1>a. reverting = {}
  BY RevertsOnlyGrow DEF RequestsFit
<1>b. \A row \in Row : row # None
  BY RowTypes
<1>1. CASE UNCHANGED <<seq, inbox, message>>
  BY <1>1 DEF Equivalent
<1>2. ASSUME NEW c \in Clients, Admit(c)
      PROVE  inbox'[i] = inbox[i]
  BY <1>2, AdmitStep DEF TypeOK
<1>3. ASSUME NEW r \in Runners, NEW row \in runner[r].rows, PromoteRow(r, row), row.id = i
      PROVE  /\ inbox'[i] # None
             /\ Equivalent(inbox'[i], inbox[i].prompt, inbox[i].delivery)
             /\ inbox'[i].admitted = inbox[i].admitted
             /\ inbox[i].promoted = 0 /\ inbox'[i].promoted = seq + 1
  BY <1>3, <1>b, PromoteStep DEF TypeOK
<1>4. ASSUME NEW r \in Runners, NEW row \in runner[r].rows, PromoteRow(r, row), row.id # i
      PROVE  inbox'[i] = inbox[i]
  BY <1>4, PromoteStep DEF TypeOK
<1> QED
  BY <1>a, <1>1, <1>2, <1>3, <1>4, StoreSteps DEF Equivalent

\* A client becomes accepted by a row that is stored after the step.
LEMMA AcceptSteps ==
  ASSUME TypeOK, [Next]_vars, NEW c \in Clients, client'[c] # client[c], client'[c].pc = "accepted"
  PROVE  /\ client'[c].id \in Ids
         /\ inbox'[client'[c].id] # None
         /\ Equivalent(inbox'[client'[c].id], client'[c].prompt, client'[c].delivery)
<1>a. client \in [Clients -> ClientState]
  BY DEF TypeOK
<1>1. PICK d \in Clients : Prompting(d)
  <2>1. client' # client
    OBVIOUS
  <2> QED
    BY <2>1, WorldSteps
<1>2. ASSUME NEW row, Answer(d, row), client[d].pc # "idle"
      PROVE  /\ d = c /\ client'[c].id = client[c].id /\ client[c].id \in Ids
             /\ Equivalent(row, client'[c].prompt, client'[c].delivery)
  BY <1>2, <1>a DEF Answer, ClientState, IdleClient, Equivalent
<1>3. CASE FindExisting(d)
  BY <1>3, <1>2 DEF FindExisting, storeVars
<1>4. CASE Recover(d) /\ inbox[client[d].id] # None
  BY <1>4, <1>2 DEF Recover, storeVars
<1>5. CASE Admit(d)
  <2>1. PICK t \in Times :
          LET row == [id |-> client[d].id, prompt |-> client[d].prompt, delivery |-> client[d].delivery,
                      time |-> t, admitted |-> seq + 1, promoted |-> 0]
          IN inbox' = [inbox EXCEPT ![client[d].id] = row] /\ Answer(d, row)
    BY <1>5 DEF Admit
  <2> DEFINE row == [id |-> client[d].id, prompt |-> client[d].prompt, delivery |-> client[d].delivery,
                     time |-> t, admitted |-> seq + 1, promoted |-> 0]
  <2>2. row # None
    <3>1. row \in Row
      BY <1>5, <1>a, RowTypes DEF Admit, ClientState, IdleClient, Row
    <3> QED
      BY <3>1, RowTypes
  <2>3. inbox' = [inbox EXCEPT ![client[d].id] = row] /\ Answer(d, row)
    BY <2>1
  <2> HIDE DEF row
  <2>4. d = c /\ client'[c].id = client[c].id /\ client[c].id \in Ids
        /\ Equivalent(row, client'[c].prompt, client'[c].delivery)
    BY <2>3, <1>2, <1>5 DEF Admit
  <2> QED
    BY <2>2, <2>3, <2>4 DEF TypeOK
<1>6. ASSUME NEW i \in Ids, NEW p \in Prompts, NEW v \in Deliveries, Prompt(d, i, p, v)
      PROVE  FALSE
  BY <1>6, <1>a DEF Prompt
<1>7. CASE FindNothing(d) \/ AdmitConflict(d) \/ Wake(d) \/ Return(d)
  BY <1>7, <1>a DEF FindNothing, AdmitConflict, Wake, Return, ClientState, IdleClient
<1>8. CASE Recover(d) /\ inbox[client[d].id] = None
  BY <1>8, <1>a DEF Recover, ClientState, IdleClient
<1> QED
  BY <1>1, <1>3, <1>4, <1>5, <1>6, <1>7, <1>8 DEF Prompting

LEMMA AnswersNext ==
  ASSUME TypeOK, RequestsFit, AnswersAreStored, [Next]_vars
  PROVE  AnswersAreStored'
<1> SUFFICES ASSUME reverts' = 0, NEW c \in Clients, client'[c].pc = "accepted"
             PROVE  /\ client'[c].id \in Ids
                    /\ inbox'[client'[c].id] # None
                    /\ Equivalent(inbox'[client'[c].id], client'[c].prompt, client'[c].delivery)
  BY DEF AnswersAreStored, AnsweredRow
<1>1. CASE client'[c] # client[c]
  BY <1>1, AcceptSteps
<1>2. CASE client'[c] = client[c]
  <2>1. /\ client[c].id \in Ids
        /\ inbox[client[c].id] # None
        /\ Equivalent(inbox[client[c].id], client[c].prompt, client[c].delivery)
    BY <1>2, RevertsOnlyGrow DEF AnswersAreStored, AnsweredRow
  <2> QED
    BY <1>2, <2>1, RowsStay DEF Equivalent
<1> QED
  BY <1>1, <1>2

LEMMA AnswersAgree ==
  ASSUME TypeOK, AnswersAreStored
  PROVE  OneContentPerId
<1> SUFFICES ASSUME reverts = 0, NEW c \in Clients, NEW d \in Clients,
                    client[c].pc = "accepted", client[d].pc = "accepted", client[c].id = client[d].id
             PROVE  client[c] = client[d]
  BY DEF OneContentPerId
<1>1. client[c].prompt = client[d].prompt /\ client[c].delivery = client[d].delivery
  BY DEF AnswersAreStored, AnsweredRow, Equivalent
<1>2. client[c] \in ClientState /\ client[d] \in ClientState
  BY DEF TypeOK
<1> QED
  BY <1>1, <1>2 DEF ClientState, IdleClient


-----------------------------------------------------------------------------
(* What drains have read.                                                   *)

LEMMA CutoffsNext ==
  ASSUME TypeOK, TypeOK', RowsFit, CutoffsFit, [Next]_vars
  PROVE  CutoffsFit'
<1> SUFFICES ASSUME NEW r \in Runners
             PROVE  (runner[r].cutoff <= seq)'
  BY DEF CutoffsFit
<1>a. /\ seq \in Nat /\ seq' \in Nat /\ seq <= seq'
      /\ runner[r].cutoff \in Nat /\ runner'[r].cutoff \in Nat /\ runner[r].cutoff <= seq
  BY RowsFitNext, RowTypes DEF TypeOK, RunnerState, CutoffsFit
<1>b. runner \in [Runners -> RunnerState]
  BY DEF TypeOK
<1> SUFFICES runner'[r].cutoff \in {0, seq, runner[r].cutoff}
  BY <1>a
<1>1. CASE UNCHANGED runner
  BY <1>1
<1>2. ASSUME NEW q \in Runners, Draining(q)
      PROVE  runner'[r].cutoff \in {0, seq, runner[r].cutoff}
  <2>1. CASE LookForQueue(q) \/ CheckSteer(q) \/ CheckQueue(q) \/ Promoted(q)
    BY <2>1, <1>b DEF LookForQueue, CheckSteer, CheckQueue, Promoted, BeginTurn, Goto, IdleRunner, RunnerState
  <2>2. CASE ReadCutoff(q) \/ ReadQueue(q) \/ ReadSteers(q)
    BY <2>2, <1>b DEF ReadCutoff, ReadQueue, ReadSteers, RunnerState
  <2>3. ASSUME NEW row \in runner[q].rows, PromoteRow(q, row) \/ PromoteConflict(q, row)
        PROVE  runner'[r].cutoff \in {0, seq, runner[r].cutoff}
    BY <2>3, <1>b DEF PromoteRow, PromoteConflict, NextRow, Goto, RunnerState
  <2>4. ASSUME NEW row \in runner[q].rows, PromoteRecover(q, row)
        PROVE  runner'[r].cutoff \in {0, seq, runner[r].cutoff}
    BY <2>4, <1>b DEF PromoteRecover, IdleRunner, RunnerState
  <2> QED
    BY <1>2, <2>1, <2>2, <2>3, <2>4 DEF Draining
<1>3. ASSUME NEW q \in Runners, LookForSteer(q) \/ Continue(q) \/ Compact(q) \/ Answered(q) \/ Fail(q)
      PROVE  runner'[r].cutoff \in {0, seq, runner[r].cutoff}
  BY <1>3, <1>b DEF LookForSteer, Continue, Compact, Answered, Fail, BeginTurn, Goto, IdleRunner, RunnerState
<1>4. ASSUME NEW c \in Clients, Prompting(c)
      PROVE  UNCHANGED runner
  BY <1>4 DEF Prompting, Prompt, FindExisting, FindNothing, Admit, AdmitConflict, Recover, Wake, Return
<1>5. CASE Reverting
  BY <1>5 DEF Reverting, RequestStage, RequestClear, RequestCommit, Request, Stage, ClearRevert, CommitRevert,
       CommitDies, Publish
<1> QED
  BY <1>1, <1>2, <1>3, <1>4, <1>5 DEF Next, vars

\* What is pending after a step was pending before it, or comes after what was.
LEMMA PendingSteps ==
  ASSUME TypeOK, RowsFit, [Next]_vars, NEW i \in Ids, IsPending(inbox'[i])
  PROVE  \/ inbox'[i] = inbox[i]
         \/ inbox'[i].admitted = seq + 1 /\ inbox[i] = None
<1>a. seq \in Nat
  BY RowTypes
<1>1. CASE UNCHANGED <<seq, inbox, message>>
  BY <1>1
<1>2. ASSUME NEW c \in Clients, Admit(c)
      PROVE  inbox'[i] = inbox[i] \/ (inbox'[i].admitted = seq + 1 /\ inbox[i] = None)
  <2>1. PICK j \in Ids, row \in Row :
          inbox[j] = None /\ inbox' = [inbox EXCEPT ![j] = row] /\ row.admitted = seq + 1
    BY <1>2, AdmitStep
  <2>2. CASE i = j
    BY <2>1, <2>2 DEF TypeOK
  <2>3. i # j => inbox'[i] = inbox[i]
    BY <2>1 DEF TypeOK
  <2> QED
    BY <2>2, <2>3
<1>3. ASSUME NEW r \in Runners, NEW row \in runner[r].rows, PromoteRow(r, row)
      PROVE  inbox'[i] = inbox[i]
  <2>1. PICK new \in Row : inbox' = [inbox EXCEPT ![row.id] = new] /\ new.promoted = seq + 1
    BY <1>3, PromoteStep
  <2> QED
    BY <1>a, <2>1 DEF TypeOK, IsPending
<1>4. ASSUME NEW q \in reverting, Requested(q) \/ CommitRevert(q)
      PROVE  inbox'[i] = inbox[i]
  BY <1>4 DEF Requested, Stage, ClearRevert, CommitRevert, IsPending
<1> QED
  BY <1>1, <1>2, <1>3, <1>4, StoreSteps

\* Other actors do not make more due than a drain has read.
LEMMA SteersStay ==
  ASSUME TypeOK, RowsFit, CutoffsFit, [Next]_vars, NEW r \in Runners, SteersSeen(r), runner'[r] = runner[r]
  PROVE  SteersSeen(r)'
<1>1. runner[r].cutoff \in Nat /\ runner[r].cutoff <= seq /\ seq \in Nat
  BY RowTypes DEF RunnerState, CutoffsFit
<1>2. ASSUME NEW i \in Ids, i \in Pending("steer")'
      PROVE  \/ i \in Pending("steer") /\ inbox'[i] = inbox[i]
             \/ inbox'[i].admitted > runner[r].cutoff /\ ~(inbox'[i].admitted <= runner[r].cutoff)
  BY <1>1, <1>2, PendingSteps DEF Pending
<1> QED
  BY <1>2 DEF SteersSeen, NothingDue, Pending

LEMMA SteersNext ==
  ASSUME TypeOK, TypeOK', RowsFit, RowsFit', CutoffsFit, \A r \in Runners : SteersSeen(r), [Next]_vars
  PROVE  \A r \in Runners : SteersSeen(r)'
<1> SUFFICES ASSUME NEW r \in Runners
             PROVE  SteersSeen(r)'
  OBVIOUS
<1>a. runner \in [Runners -> RunnerState] /\ runner[r] \in RunnerState
  BY DEF TypeOK
<1>b. SteersSeen(r)
  OBVIOUS
<1>o. runner'[r] = runner[r] => SteersSeen(r)'
  BY SteersStay
<1>1. CASE UNCHANGED runner
  BY <1>1, <1>o
<1>2. ASSUME NEW q \in Runners, q # r,
             Draining(q) \/ LookForSteer(q) \/ Continue(q) \/ Compact(q) \/ Answered(q) \/ Fail(q)
      PROVE  SteersSeen(r)'
  <2>1. runner'[r] = runner[r]
    BY <1>2, <1>a DEF Draining, LookForQueue, ReadCutoff, ReadQueue, ReadSteers, PromoteRow, PromoteConflict,
         PromoteRecover, Promoted, CheckSteer, CheckQueue, LookForSteer, Continue, Compact, Answered, Fail,
         BeginTurn, Goto, NextRow
  <2> QED
    BY <2>1, <1>o
<1>3. ASSUME UNCHANGED storeVars,
             \/ /\ runner'[r].pc = "turn"
                /\ runner'[r].promotion \in Deliveries \/ runner'[r].cutoff = 0
             \/ runner'[r].pc \in {"idle", "lookQueue", "readQueue", "readSteers", "promoteQueue",
                                   "recoverQueue", "checkSteer", "checkQueue"}
      PROVE  SteersSeen(r)'
  <2>1. \A i \in Pending("steer") : inbox[i].admitted > 0
    BY RowTypes DEF RowsFit, RowFits, Pending, IsPending
  <2> QED
    BY <1>3, <2>1 DEF SteersSeen, NothingDue, Pending, storeVars
<1>4. CASE LookForQueue(r) \/ CheckSteer(r) \/ CheckQueue(r) \/ LookForSteer(r) \/ Continue(r) \/ Answered(r) \/ Fail(r)
  BY <1>4, <1>a, <1>3 DEF LookForQueue, CheckSteer, CheckQueue, LookForSteer, Continue, Answered, Fail, BeginTurn,
       Goto, IdleRunner, Deliveries, RunnerState
<1>5. CASE ReadCutoff(r)
  <2>1. CASE runner[r].promotion \in Deliveries
    <3>1. runner'[r].pc \in {"readQueue", "readSteers"}
      BY <1>5, <1>a, <2>1 DEF ReadCutoff, RunnerState, Deliveries
    <3> QED
      BY <1>5, <3>1, <1>3 DEF ReadCutoff
  <2>2. CASE runner[r].promotion \notin Deliveries
    <3>1. runner'[r].pc = "provider" /\ runner'[r].cutoff = runner[r].cutoff /\ NothingDue(r)
      BY <1>5, <1>a, <1>b, <2>2 DEF ReadCutoff, RunnerState, Deliveries, SteersSeen
    <3> QED
      BY <1>5, <3>1 DEF ReadCutoff, SteersSeen, NothingDue, Pending, storeVars
  <2> QED
    BY <2>1, <2>2
<1>6. CASE ReadQueue(r)
  <2>1. runner'[r].pc = "promoteQueue"
    BY <1>6, <1>a DEF ReadQueue, RunnerState
  <2> QED
    BY <1>6, <2>1, <1>3 DEF ReadQueue
<1>7. CASE ReadSteers(r)
  <2>1. /\ runner'[r].pc = "promoteSteers" /\ runner'[r].cutoff = runner[r].cutoff
        /\ runner'[r].rows = Due(runner[r].cutoff)
    BY <1>7, <1>a DEF ReadSteers, RunnerState
  <2>2. ASSUME NEW i \in Pending("steer"), inbox[i].admitted <= runner[r].cutoff
        PROVE  inbox[i] \in Due(runner[r].cutoff) /\ inbox[i].id = i
    BY <2>2 DEF Due, RowsFit, RowFits, Pending, IsPending
  <2>3. \A i \in Pending("steer") :
          inbox[i].admitted <= runner[r].cutoff => \E row \in Due(runner[r].cutoff) : row.id = i
    BY <2>2
  <2>4. Pending("steer")' = Pending("steer") /\ inbox' = inbox
    BY <1>7 DEF ReadSteers, Pending, storeVars
  <2> QED
    BY <2>1, <2>3, <2>4 DEF SteersSeen
<1>8. ASSUME NEW row \in runner[r].rows, PromoteRow(r, row)
      PROVE  SteersSeen(r)'
  <2>1. /\ runner'[r].pc = runner[r].pc /\ runner'[r].pc \in {"promoteQueue", "promoteSteers"}
        /\ runner'[r].cutoff = runner[r].cutoff
        /\ runner'[r].rows = runner[r].rows \ {row}
    BY <1>8, <1>a DEF PromoteRow, Promoting, NextRow, RunnerState
  <2>2. inbox'[row.id].promoted # 0
    BY <1>8, PromoteStep, RowTypes DEF TypeOK
  <2>3. ASSUME NEW i \in Ids, i \in Pending("steer")', inbox'[i].admitted <= runner[r].cutoff,
               runner[r].pc = "promoteSteers"
        PROVE  \E other \in runner[r].rows \ {row} : other.id = i
    <3>1. inbox'[i] = inbox[i]
      <4>1. runner[r].cutoff \in Nat /\ runner[r].cutoff <= seq /\ seq \in Nat
        BY RowTypes DEF RunnerState, CutoffsFit
      <4> QED
        BY <2>3, <4>1, PendingSteps DEF Pending
    <3>2. i \in Pending("steer") /\ i # row.id
      BY <2>2, <2>3, <3>1 DEF Pending, IsPending
    <3> QED
      BY <1>b, <2>3, <3>1, <3>2 DEF SteersSeen
  <2> QED
    BY <2>1, <2>3 DEF SteersSeen, Pending
<1>9. ASSUME NEW row \in runner[r].rows, PromoteConflict(r, row)
      PROVE  SteersSeen(r)'
  <2>1. /\ runner'[r].cutoff = runner[r].cutoff /\ runner'[r].rows = runner[r].rows
        /\ \/ runner[r].pc = "promoteQueue" /\ runner'[r].pc = "recoverQueue"
           \/ runner[r].pc = "promoteSteers" /\ runner'[r].pc = "recoverSteers"
    BY <1>9, <1>a DEF PromoteConflict, Promoting, Goto, Recovering, RunnerState
  <2> QED
    BY <1>9, <1>b, <2>1 DEF PromoteConflict, SteersSeen, Pending, storeVars
<1>10. ASSUME NEW row \in runner[r].rows, PromoteRecover(r, row)
       PROVE  SteersSeen(r)'
  <2>0. UNCHANGED storeVars
    BY <1>10 DEF PromoteRecover
  <2>1. CASE inbox[row.id] = None \/ IsPending(inbox[row.id])
    <3>1. runner'[r].pc = "idle"
      BY <1>10, <1>a, <2>1 DEF PromoteRecover, IdleRunner
    <3> QED
      BY <2>0, <3>1, <1>3
  <2>2. CASE ~(inbox[row.id] = None \/ IsPending(inbox[row.id]))
    <3>1. /\ runner'[r].cutoff = runner[r].cutoff /\ runner'[r].rows = runner[r].rows \ {row}
          /\ \/ runner[r].pc = "recoverQueue" /\ runner'[r].pc = "promoteQueue"
             \/ runner[r].pc = "recoverSteers" /\ runner'[r].pc = "promoteSteers"
      BY <1>10, <1>a, <2>2 DEF PromoteRecover, Recovering, RunnerState
    <3>2. row.id \notin Pending("steer")
      BY <2>2 DEF Pending
    <3> QED
      BY <1>b, <2>0, <3>1, <3>2 DEF SteersSeen, Pending, storeVars
  <2> QED
    BY <2>1, <2>2
<1>11. CASE Promoted(r)
  <2>1. /\ runner[r].rows = {} /\ runner'[r].cutoff = runner[r].cutoff
        /\ \/ runner'[r].pc = "readSteers"
           \/ runner[r].pc = "promoteSteers" /\ runner'[r].pc = "provider"
    BY <1>11, <1>a DEF Promoted, Goto, RunnerState
  <2>2. CASE runner'[r].pc = "readSteers"
    BY <1>11, <2>2, <1>3 DEF Promoted
  <2>3. CASE runner[r].pc = "promoteSteers" /\ runner'[r].pc = "provider"
    <3>1. NothingDue(r)
      <4>1. runner[r].cutoff \in Nat /\ \A i \in Pending("steer") : inbox[i].admitted \in Nat
        BY <1>a, RowTypes DEF RunnerState, Pending, IsPending
      <4> QED
        BY <1>b, <2>1, <2>3, <4>1 DEF SteersSeen, NothingDue
    <3> QED
      BY <1>11, <2>1, <2>3, <3>1 DEF Promoted, SteersSeen, NothingDue, Pending, storeVars
  <2> QED
    BY <2>1, <2>2, <2>3
<1>12. CASE Compact(r)
  <2>1. runner'[r].pc = "turn" /\ runner'[r].cutoff = runner[r].cutoff /\ NothingDue(r)
    BY <1>12, <1>a, <1>b DEF Compact, SteersSeen, RunnerState
  <2> QED
    BY <1>12, <2>1 DEF Compact, SteersSeen, NothingDue, Pending, storeVars
<1>13. ASSUME NEW c \in Clients, Prompting(c)
      PROVE  UNCHANGED runner
  BY <1>13 DEF Prompting, Prompt, FindExisting, FindNothing, Admit, AdmitConflict, Recover, Wake, Return
<1>14. CASE Reverting
  BY <1>1, <1>14 DEF Reverting, RequestStage, RequestClear, RequestCommit, Request, Stage, ClearRevert, CommitRevert,
       CommitDies, Publish
<1> QED
  BY <1>1, <1>2, <1>4, <1>5, <1>6, <1>7, <1>8, <1>9, <1>10, <1>11, <1>12, <1>13, <1>14 DEF Next, vars, Draining

-----------------------------------------------------------------------------
(* The order of promotion, while nothing is reverted.                       *)

\* A row appears by its admission: what a drain promotes is stored.
LEMMA NewRows ==
  ASSUME TypeOK, RequestsFit, ReadInOrder, [Next]_vars, reverts' = 0,
         NEW i \in Ids, inbox[i] = None, inbox'[i] # None
  PROVE  inbox'[i].admitted = seq + 1 /\ inbox'[i].promoted = 0
<1>a. reverting = {}
  BY RevertsOnlyGrow DEF RequestsFit
<1>1. ASSUME NEW c \in Clients, Admit(c)
      PROVE  inbox'[i].admitted = seq + 1 /\ inbox'[i].promoted = 0
  <2>1. PICK j \in Ids, row \in Row :
          inbox' = [inbox EXCEPT ![j] = row] /\ row.admitted = seq + 1 /\ row.promoted = 0
    BY <1>1, AdmitStep
  <2> QED
    BY <2>1 DEF TypeOK
<1>2. ASSUME NEW r \in Runners, NEW row \in runner[r].rows, PromoteRow(r, row)
      PROVE  FALSE
  <2>1. PICK new \in Row : inbox' = [inbox EXCEPT ![row.id] = new]
    BY <1>2, PromoteStep
  <2>2. inbox[row.id] # None
    BY DEF ReadInOrder, RowIsStored
  <2> QED
    BY <2>1, <2>2 DEF TypeOK
<1> QED
  BY <1>a, <1>1, <1>2, StoreSteps

\* Rows leave a drain's memory when they are promoted, by whomever, and come
\* into it by the two reads.
LEMMA RowsReadSteps ==
  ASSUME TypeOK, RequestsFit, [Next]_vars, NEW r \in Runners, NEW row \in runner'[r].rows
  PROVE  \/ ReadQueue(r)
         \/ ReadSteers(r)
         \/ /\ row \in runner[r].rows
            /\ \A other \in runner[r].rows \ runner'[r].rows :
                 PromoteRow(r, other) \/ (inbox' = inbox /\ ~IsPending(inbox[other.id]))
<1> DEFINE Kept == runner'[r].rows = runner[r].rows
<1>a. runner \in [Runners -> RunnerState] /\ runner[r] \in RunnerState
  BY DEF TypeOK
<1>1. CASE runner'[r] = runner[r]
  BY <1>1
<1>2. ASSUME NEW q \in Runners, q # r,
             Draining(q) \/ LookForSteer(q) \/ Continue(q) \/ Compact(q) \/ Answered(q) \/ Fail(q)
      PROVE  runner'[r] = runner[r]
  BY <1>2, <1>a DEF Draining, LookForQueue, ReadCutoff, ReadQueue, ReadSteers, PromoteRow, PromoteConflict,
       PromoteRecover, Promoted, CheckSteer, CheckQueue, LookForSteer, Continue, Compact, Answered, Fail,
       BeginTurn, Goto, NextRow
<1>3. CASE LookForQueue(r) \/ CheckSteer(r) \/ CheckQueue(r) \/ LookForSteer(r) \/ Continue(r) \/ Answered(r) \/ Fail(r)
  <2>1. runner'[r].rows \in {{}, runner[r].rows}
    BY <1>3, <1>a DEF LookForQueue, CheckSteer, CheckQueue, LookForSteer, Continue, Answered, Fail, BeginTurn,
         Goto, IdleRunner, RunnerState
  <2> QED
    BY <2>1
<1>4. CASE ReadCutoff(r) \/ Compact(r) \/ Promoted(r)
  <2>1. Kept
    BY <1>4, <1>a DEF ReadCutoff, Compact, Promoted, Goto, RunnerState
  <2> QED
    BY <2>1
<1>5. ASSUME NEW other \in runner[r].rows, PromoteRow(r, other)
      PROVE  runner'[r].rows = runner[r].rows \ {other}
  BY <1>5, <1>a DEF PromoteRow, NextRow, RunnerState
<1>6. ASSUME NEW other \in runner[r].rows, PromoteConflict(r, other)
      PROVE  Kept
  BY <1>6, <1>a DEF PromoteConflict, Goto, RunnerState
<1>7. ASSUME NEW other \in runner[r].rows, PromoteRecover(r, other)
      PROVE  /\ runner'[r].rows = {} \/ runner'[r].rows = runner[r].rows \ {other}
             /\ runner'[r].rows # {} => inbox' = inbox /\ ~IsPending(inbox[other.id])
  BY <1>7, <1>a DEF PromoteRecover, IdleRunner, RunnerState, storeVars
<1>8. ASSUME NEW c \in Clients, Prompting(c)
      PROVE  UNCHANGED runner
  BY <1>8 DEF Prompting, Prompt, FindExisting, FindNothing, Admit, AdmitConflict, Recover, Wake, Return
<1>9. CASE Reverting
  BY <1>1, <1>9 DEF Reverting, RequestStage, RequestClear, RequestCommit, Request, Stage, ClearRevert, CommitRevert,
       CommitDies, Publish
<1> QED
  BY <1>1, <1>2, <1>3, <1>4, <1>5, <1>6, <1>7, <1>8, <1>9 DEF Next, vars, Draining

LEMMA ReadNext ==
  ASSUME TypeOK, RowsFit, RequestsFit, ReadInOrder, [Next]_vars, reverts' = 0
  PROVE  ReadInOrder'
<1> SUFFICES ASSUME NEW r \in Runners, NEW row \in runner'[r].rows
             PROVE  RowIsStored(row)' /\ EarlierIsRead(r, row)'
  BY DEF ReadInOrder
<1>a. runner \in [Runners -> RunnerState]
  BY DEF TypeOK
<1>1. CASE ReadQueue(r)
  <2>1. runner'[r].rows = Earliest({inbox[i] : i \in Pending("queue")}) /\ inbox' = inbox
    BY <1>1, <1>a DEF ReadQueue, RunnerState, storeVars
  <2>2. PICK k \in Pending("queue") : row = inbox[k]
    BY <2>1 DEF Earliest
  <2>3. RowIsStored(row)'
    BY <2>1, <2>2 DEF RowIsStored, RowsFit, RowFits, Pending, IsPending
  <2>4. ASSUME NEW i \in Ids, IsPending(inbox[i]), inbox[i].delivery = row.delivery, inbox[i].admitted < row.admitted
        PROVE  FALSE
    <3>1. i \in Pending("queue")
      BY <2>2, <2>4 DEF Pending
    <3>2. row.admitted <= inbox[i].admitted
      BY <2>1, <3>1 DEF Earliest
    <3> QED
      BY <2>2, <2>4, <3>2, RowTypes DEF Pending, IsPending
  <2> QED
    BY <2>1, <2>3, <2>4 DEF EarlierIsRead, IsPending
<1>2. CASE ReadSteers(r)
  <2>1. runner'[r].rows = Due(runner[r].cutoff) /\ inbox' = inbox
    BY <1>2, <1>a DEF ReadSteers, RunnerState, storeVars
  <2>2. PICK k \in Pending("steer") : row = inbox[k] /\ inbox[k].admitted <= runner[r].cutoff
    BY <2>1 DEF Due
  <2>3. RowIsStored(row)'
    BY <2>1, <2>2 DEF RowIsStored, RowsFit, RowFits, Pending, IsPending
  <2>4. ASSUME NEW i \in Ids, IsPending(inbox[i]), inbox[i].delivery = row.delivery, inbox[i].admitted < row.admitted
        PROVE  inbox[i] \in Due(runner[r].cutoff) /\ inbox[i].id = i
    <3>1. i \in Pending("steer")
      BY <2>2, <2>4 DEF Pending
    <3>2. inbox[i].admitted <= runner[r].cutoff
      BY <1>a, <2>2, <2>4, RowTypes DEF Pending, IsPending, RunnerState
    <3> QED
      BY <3>1, <3>2 DEF Due, RowsFit, RowFits, Pending, IsPending
  <2> QED
    BY <2>1, <2>3, <2>4 DEF EarlierIsRead, IsPending
<1>3. CASE /\ row \in runner[r].rows
           /\ \A other \in runner[r].rows \ runner'[r].rows :
                PromoteRow(r, other) \/ (inbox' = inbox /\ ~IsPending(inbox[other.id]))
  <2>0. row.id \in Ids /\ row.admitted \in Nat /\ seq \in Nat
    BY <1>3, RowTypes
  <2>1. RowIsStored(row) /\ EarlierIsRead(r, row)
    BY <1>3 DEF ReadInOrder
  <2>2. RowIsStored(row)'
    BY <2>0, <2>1, RowsStay DEF RowIsStored, Equivalent
  <2>3. ASSUME NEW i \in Ids, IsPending(inbox'[i]), inbox'[i].delivery = row.delivery, inbox'[i].admitted < row.admitted
        PROVE  \E earlier \in runner'[r].rows : earlier.id = i
    <3>1. row.admitted <= seq
      BY <2>0, <2>1 DEF RowIsStored, RowsFit, RowFits
    <3>2. inbox'[i] = inbox[i]
      BY <2>0, <2>3, <3>1, PendingSteps
    <3>3. PICK earlier \in runner[r].rows : earlier.id = i
      BY <2>1, <2>3, <3>2 DEF EarlierIsRead
    <3>4. earlier \in runner'[r].rows
      <4> SUFFICES ASSUME earlier \notin runner'[r].rows
                   PROVE  FALSE
        OBVIOUS
      <4>1. PromoteRow(r, earlier)
        BY <1>3, <2>3, <3>2, <3>3
      <4>2. PICK new \in Row : inbox' = [inbox EXCEPT ![i] = new] /\ new.promoted = seq + 1
        BY <4>1, <3>3, PromoteStep
      <4> QED
        BY <2>0, <2>3, <4>2 DEF TypeOK, IsPending
    <3> QED
      BY <3>3, <3>4
  <2> QED
    BY <2>2, <2>3 DEF EarlierIsRead, IsPending
<1> QED
  BY <1>1, <1>2, <1>3, RowsReadSteps

LEMMA OrderNext ==
  ASSUME TypeOK, TypeOK', RowsFit, RequestsFit, ReadInOrder, PromotedInOrder, [Next]_vars, reverts' = 0
  PROVE  PromotedInOrder'
<1> SUFFICES ASSUME NEW i \in Ids, NEW j \in Ids,
                    inbox'[i] # None, inbox'[j] # None, inbox'[i].delivery = inbox'[j].delivery,
                    inbox'[i].admitted < inbox'[j].admitted, inbox'[j].promoted > inbox'[j].admitted
             PROVE  inbox'[i].promoted # 0 /\ inbox'[i].promoted < inbox'[j].promoted
  BY DEF PromotedInOrder
<1>a. /\ seq \in Nat
      /\ \A k \in {i, j} : inbox'[k].admitted \in Nat /\ inbox'[k].promoted \in Nat
  BY RowTypes DEF TypeOK, Row
<1>b. \A k \in {i, j} : inbox[k] # None =>
        inbox[k].admitted \in Nat /\ inbox[k].promoted \in Nat /\ inbox[k].admitted <= seq /\ inbox[k].promoted <= seq
  BY RowTypes DEF RowsFit, RowFits
<1>1. inbox[j] # None
  BY <1>a, NewRows
<1>2. /\ inbox'[j].delivery = inbox[j].delivery /\ inbox'[j].admitted = inbox[j].admitted
  BY <1>1, RowsStay DEF Equivalent
<1>3. inbox[i] # None
  BY <1>a, <1>b, <1>1, <1>2, NewRows
<1>4. /\ inbox'[i].delivery = inbox[i].delivery /\ inbox'[i].admitted = inbox[i].admitted
  BY <1>3, RowsStay DEF Equivalent
<1>5. CASE inbox'[j] = inbox[j]
  <2>1. inbox[i].promoted # 0 /\ inbox[i].promoted < inbox[j].promoted
    BY <1>1, <1>2, <1>3, <1>4, <1>5 DEF PromotedInOrder
  <2> QED
    BY <1>3, <1>5, <2>1, RowsStay
<1>6. CASE inbox'[j] # inbox[j]
  <2>0. PICK r \in Runners :
          inbox'[j].promoted = seq + 1 /\ \E row \in runner[r].rows : row.id = j /\ PromoteRow(r, row)
    BY <1>1, <1>6, RowsStay
  <2>1. PICK row \in runner[r].rows : row.id = j /\ PromoteRow(r, row) /\ inbox'[j].promoted = seq + 1
    BY <2>0
  <2>2. inbox'[i] = inbox[i]
    <3>1. i # j
      BY <1>a
    <3> QED
      BY <2>1, <3>1, PromoteStep DEF TypeOK
  <2>3. CASE inbox[i].promoted # 0
    <3>1. inbox[i].promoted \in Nat /\ inbox[i].promoted <= seq
      BY <1>3, <1>b
    <3> QED
      BY <1>a, <2>1, <2>2, <2>3, <3>1
  <2>4. CASE inbox[i].promoted = 0
    <3>1. RowIsStored(row) /\ EarlierIsRead(r, row)
      BY DEF ReadInOrder
    <3>2. PICK earlier \in runner[r].rows : earlier.id = i
      BY <1>2, <1>3, <1>4, <2>1, <2>4, <3>1 DEF RowIsStored, EarlierIsRead, IsPending
    <3>3. earlier.admitted = inbox[i].admitted
      BY <3>2 DEF ReadInOrder, RowIsStored
    <3>4. row.admitted <= earlier.admitted
      BY <2>1, <3>2 DEF PromoteRow, Promoting, Earliest
    <3> QED
      BY <1>2, <1>4, <1>a, <1>b, <1>1, <1>3, <2>1, <3>1, <3>3, <3>4 DEF RowIsStored
  <2> QED
    BY <2>3, <2>4
<1> QED
  BY <1>5, <1>6

LEMMA OrderInvNext ==
  ASSUME TypeOK, TypeOK', RowsFit, RequestsFit, OInv, [Next]_vars
  PROVE  OInv'
BY RevertsOnlyGrow, ReadNext, OrderNext DEF OInv

-----------------------------------------------------------------------------
(* The invariants, and what follows from them.                              *)

LEMMA InvInit == Init => IInv /\ OInv
<1> SUFFICES ASSUME Init PROVE IInv /\ OInv
  OBVIOUS
<1>1. TypeOK
  BY TypeInit
<1>2. \A i \in Ids : inbox[i] = None
  BY DEF Init
<1>3. RowsFit /\ (\A i \in Ids : ~IsPending(inbox[i])) /\ PromotedInOrder
  BY <1>2 DEF RowsFit, RowFits, IsPending, PromotedInOrder
<1>4. InboxMatchesConversation
  BY <1>2 DEF Init, InboxMatchesConversation
<1>5. CutoffsFit /\ (\A r \in Runners : SteersSeen(r)) /\ ReadInOrder
  BY DEF Init, IdleRunner, CutoffsFit, SteersSeen, ReadInOrder
<1>6. RequestsFit
  BY DEF Init, RequestsFit
<1>7. AnswersAreStored
  BY DEF Init, IdleClient, AnswersAreStored, AnsweredRow
<1> QED
  BY <1>1, <1>3, <1>4, <1>5, <1>6, <1>7 DEF IInv, OInv

LEMMA RequestsNext ==
  ASSUME TypeOK, RequestsFit, [Next]_vars
  PROVE  TypeOK' /\ RequestsFit'
<1>1. CASE UNCHANGED vars
  BY <1>1 DEF vars, TypeOK, RequestsFit
<1>2. ASSUME NEW c \in Clients, Prompting(c)
      PROVE  TypeOK' /\ UNCHANGED <<reverts, reverting>>
  BY <1>2, PromptingTypes DEF Prompting, Prompt, FindExisting, FindNothing, Admit, AdmitConflict, Recover, Wake, Return,
       storeVars, revertVars
<1>3. ASSUME NEW r \in Runners, Draining(r)
      PROVE  TypeOK' /\ UNCHANGED <<reverts, reverting>>
  BY <1>3, DrainingTypes DEF Draining, LookForQueue, ReadCutoff, ReadQueue, ReadSteers, PromoteRow, PromoteConflict,
       PromoteRecover, Promoted, CheckSteer, CheckQueue, storeVars, revertVars
<1>4. ASSUME NEW r \in Runners, LookForSteer(r) \/ Continue(r) \/ Compact(r) \/ Answered(r) \/ Fail(r)
      PROVE  TypeOK' /\ UNCHANGED <<reverts, reverting>>
  BY <1>4, RunnerTypes DEF LookForSteer, Continue, Compact, Answered, Fail, storeVars, revertVars
<1>5. CASE Reverting
  BY <1>5, RevertingTypes
<1> QED
  BY <1>1, <1>2, <1>3, <1>4, <1>5 DEF Next, RequestsFit

LEMMA InvNext == IInv /\ OInv /\ [Next]_vars => IInv' /\ OInv'
<1> SUFFICES ASSUME IInv, OInv, [Next]_vars PROVE IInv' /\ OInv'
  OBVIOUS
<1> USE DEF IInv
<1>1. TypeOK' /\ RequestsFit'
  BY RequestsNext
<1>2. RowsFit'
  BY <1>1, RowsFitNext
<1>3. CutoffsFit'
  BY <1>1, CutoffsNext
<1>4. InboxMatchesConversation'
  BY MatchesNext
<1>5. AnswersAreStored'
  BY AnswersNext
<1>6. \A r \in Runners : SteersSeen(r)'
  BY <1>1, <1>2, SteersNext
<1>7. OInv'
  BY <1>1, OrderInvNext
<1> QED
  BY <1>1, <1>2, <1>3, <1>4, <1>5, <1>6, <1>7

\* Every reachable state satisfies the strengthened invariants.
THEOREM Inductive == Spec => [](IInv /\ OInv)
BY InvInit, InvNext, PTL DEF Spec

\* The tables and the fibers' local state keep their types.
THEOREM TypeCorrect == Spec => []TypeOK
<1>1. IInv => TypeOK
  BY DEF IInv
<1> QED
  BY <1>1, Inductive, PTL

\* Inbox and conversation tell one story in every world: whatever drains
\* promote from rows they read before a revert was committed.
THEOREM TablesMatch == Spec => []InboxMatchesConversation
<1>1. IInv => InboxMatchesConversation
  BY DEF IInv
<1> QED
  BY <1>1, Inductive, PTL

\* A message in the conversation never moves: any number of drains may
\* promote one row, and only a committed revert takes the message out.
THEOREM MessagesStay == Spec => PromotedOnce
<1>1. TypeOK /\ [Next]_vars =>
        [\A i \in Ids :
           message[i] # 0 /\ message'[i] # message[i]
             => message'[i] = 0 /\ \E q \in reverting : CommitRevert(q)]_vars
  BY PromotedOnceNext
<1> QED
  BY <1>1, TypeCorrect, PTL DEF Spec, PromotedOnce

\* Until a revert is requested, one id is accepted for one content only,
\* however retries race with each other and with the promotion.
THEOREM IdsAreBound == Spec => []OneContentPerId
<1>1. IInv => OneContentPerId
  BY AnswersAgree DEF IInv
<1> QED
  BY <1>1, Inductive, PTL

\* When the model is called, no steer up to the turn's cutoff is pending, in
\* every world: several drains, reverts, compactions and failures.
THEOREM SteersReachModel == Spec => []ModelSeesSteers
<1>1. IInv => ModelSeesSteers
  BY DEF IInv, SteersSeen, NothingDue, ModelSeesSteers
<1> QED
  BY <1>1, Inductive, PTL

NoReverts == \A w \in Worlds : w.reverts = 0

\* In worlds without reverts prompts of one delivery mode are promoted in the
\* order of their admission, by any number of drains.
THEOREM FirstInFirstOut ==
  ASSUME NoReverts
  PROVE  Spec => []PromotedInOrder
<1> DEFINE Unreverted == reverts = 0
<1>1. IInv /\ Unreverted /\ [Next]_vars => Unreverted'
  <2> SUFFICES ASSUME TypeOK, reverts = 0, [Next]_vars PROVE reverts' = 0
    BY DEF IInv
  <2>1. world.reverts = 0
    BY DEF TypeOK, NoReverts
  <2>2. \A op, b : ~Request(op, b)
    BY <2>1 DEF Request
  <2> QED
    BY <2>2, WorldSteps
<1>2. Init => Unreverted
  BY DEF Init
<1>3. OInv /\ Unreverted => PromotedInOrder
  BY DEF OInv
<1> HIDE DEF Unreverted
<1> QED
  BY <1>1, <1>2, <1>3, Inductive, PTL DEF Spec

-----------------------------------------------------------------------------
(* The inbox implements PromptQueue: initial states map to initial states   *)
(* and every step to a step of the queue or to none.                        *)

Contents == [prompt : Prompts, delivery : Deliveries]

PromptsNow == [i \in Rows |-> Content(inbox[i])]

ArrivedNow == {p \in Rows \X Rows : inbox[p[1]].admitted < inbox[p[2]].admitted}

EarlierNow == {p \in Shown \X Shown : message[p[1]] < message[p[2]]}

AnswerTo(c) == [id |-> client[c].id, content |-> Content(client[c])]

ToldNow == {AnswerTo(c) : c \in {d \in Clients : client[d].pc = "accepted"}}

\* The messages that are no prompts stay what they are, first in the session,
\* and no message is ahead of it.
OthersStay ==
  /\ 0 < seq
  /\ \A i \in Ids : message[i] <= seq
  /\ \A i \in world.taken : message[i] = 1 /\ inbox[i] = None

QInv == IInv /\ OInv /\ OthersStay

LEMMA OthersInit == Init => OthersStay
<1> SUFFICES ASSUME Init PROVE OthersStay
  OBVIOUS
<1>1. world.taken \subseteq Ids
  BY SessionInboxAssumption DEF Init, World
<1> QED
  BY <1>1 DEF Init, OthersStay

LEMMA OthersNext ==
  ASSUME TypeOK, RequestsFit, OthersStay, [Next]_vars
  PROVE  OthersStay'
<1>a. /\ seq \in Nat /\ 0 < seq /\ world' = world /\ world.taken \subseteq Ids
      /\ \A i \in Ids : message[i] \in Nat /\ message[i] <= seq
  BY SessionInboxAssumption, RowTypes, WorldSteps DEF TypeOK, World, OthersStay
<1>1. CASE UNCHANGED <<seq, inbox, message>>
  BY <1>a, <1>1 DEF OthersStay
<1>2. ASSUME NEW c \in Clients, Admit(c) PROVE OthersStay'
  BY <1>a, <1>2, AdmitStep DEF OthersStay, TypeOK
<1>3. ASSUME NEW r \in Runners, NEW row \in runner[r].rows, PromoteRow(r, row)
      PROVE  OthersStay'
  <2>1. PICK new \in Row :
          /\ row.id \in Ids /\ seq' = seq + 1 /\ message[row.id] = 0
          /\ message' = [message EXCEPT ![row.id] = seq + 1]
          /\ inbox' = [inbox EXCEPT ![row.id] = new]
    BY <1>3, PromoteStep
  <2> QED
    BY <1>a, <2>1 DEF OthersStay, TypeOK
<1>4. ASSUME NEW q \in reverting, Requested(q) PROVE OthersStay'
  BY <1>4, <1>a DEF OthersStay, Requested, Stage, ClearRevert, Publish
<1>5. ASSUME NEW q \in reverting, CommitRevert(q) PROVE OthersStay'
  <2>1. message[q.boundary] \in Nat /\ message[q.boundary] # 0 /\ seq' = seq + 1
    BY <1>5, <1>a DEF CommitRevert, RequestsFit, Publish
  <2>2. /\ \A i \in Ids : message'[i] = IF message[i] > message[q.boundary] THEN 0 ELSE message[i]
        /\ \A i \in Ids : inbox'[i] \in {inbox[i], None}
    BY <1>5 DEF CommitRevert
  <2> QED
    BY <1>a, <2>1, <2>2 DEF OthersStay
<1> QED
  BY <1>1, <1>2, <1>3, <1>4, <1>5, StoreSteps

\* What is recorded and not shown is pending; what is both was promoted to its
\* message.
LEMMA RowsAndMessages ==
  ASSUME QInv, NEW i \in Rows
  PROVE  /\ i \in Ids /\ inbox[i] \in Row /\ inbox[i] # None /\ i \notin world.taken
         /\ inbox[i].admitted \in Nat /\ inbox[i].promoted \in Nat
         /\ inbox[i].admitted <= seq
         /\ i \notin Shown => inbox[i].promoted = 0
         /\ i \in Shown => inbox[i].promoted = message[i] /\ inbox[i].admitted <= message[i]
         /\ Content(inbox[i]) \in Contents
<1>1. i \in Ids /\ inbox[i] # None /\ i \notin world.taken
  BY DEF Rows, QInv, OthersStay
<1>2. inbox[i] \in Row /\ inbox[i].admitted \in Nat /\ inbox[i].promoted \in Nat
  BY <1>1, RowTypes DEF QInv, IInv
<1>3. RowFits(i)
  BY <1>1 DEF QInv, IInv, RowsFit
<1>4. IF message[i] = 0 THEN IsPending(inbox[i]) ELSE inbox[i].promoted = message[i]
  BY <1>1 DEF QInv, IInv, InboxMatchesConversation
<1>5. Content(inbox[i]) \in Contents
  BY <1>2 DEF Content, Contents, Row
<1> QED
  BY <1>1, <1>2, <1>3, <1>4, <1>5 DEF Shown, IsPending, RowFits

LEMMA QueueInit == Init => Queue!Init
<1> SUFFICES ASSUME Init PROVE Queue!Init
  OBVIOUS
<1>1. Rows = {} /\ reverts = 0 /\ Shown \in SUBSET Ids
  BY DEF Init, Rows, Shown
<1>2. ToldNow = {}
  BY DEF Init, ToldNow, IdleClient
<1>3. \A i \in Shown : message[i] = 1
  BY DEF Init, Shown
<1>4. EarlierNow = {}
  BY <1>3 DEF EarlierNow
<1> QED
  BY <1>1, <1>2, <1>4 DEF Queue!Init, ToldNow, AnswerTo, EarlierNow

\* What the queue shows of a step that leaves the tables and the answers.
LEMMA Unseen ==
  ASSUME UNCHANGED <<inbox, message, reverts>>, ToldNow' = ToldNow
  PROVE  UNCHANGED Queue!vars
BY DEF Queue!vars, Rows, Shown, Content, ToldNow, AnswerTo

\* The prompts, the conversation and their orders stay when the tables do.
LEMMA TablesStay ==
  ASSUME UNCHANGED <<inbox, message>>
  PROVE  UNCHANGED <<PromptsNow, ArrivedNow, Shown, EarlierNow, Rows>>
BY DEF PromptsNow, ArrivedNow, Shown, EarlierNow, Rows, Content

\* A client that is told, or was told, that its prompt is recorded.
LEMMA AnswerGiven ==
  ASSUME TypeOK, NEW c \in Clients, client[c].pc # "accepted",
         NEW new \in ClientState, client' = [client EXCEPT ![c] = new], new.pc = "accepted"
  PROVE  ToldNow' = ToldNow \cup {[id |-> new.id, content |-> Content(new)]}
<1>1. \A d \in Clients : client'[d] = IF d = c THEN new ELSE client[d]
  BY DEF TypeOK
<1>2. AnswerTo(c)' = [id |-> new.id, content |-> Content(new)]
  BY <1>1 DEF AnswerTo, Content
<1>3. \A d \in Clients : d # c => AnswerTo(d)' = AnswerTo(d)
  BY <1>1 DEF AnswerTo, Content
<1> QED
  BY <1>1, <1>2, <1>3 DEF ToldNow

LEMMA AnswerTaken ==
  ASSUME TypeOK, NEW c \in Clients, client[c].pc = "accepted",
         NEW new \in ClientState, client' = [client EXCEPT ![c] = new], new.pc # "accepted"
  PROVE  /\ AnswerTo(c) \in ToldNow
         /\ ToldNow' = ToldNow \/ ToldNow' = ToldNow \ {AnswerTo(c)}
<1>1. \A d \in Clients : client'[d] = IF d = c THEN new ELSE client[d]
  BY DEF TypeOK
<1>2. \A d \in Clients : d # c => AnswerTo(d)' = AnswerTo(d)
  BY <1>1 DEF AnswerTo, Content
<1> QED
  BY <1>1, <1>2 DEF ToldNow

LEMMA NoAnswer ==
  ASSUME TypeOK, NEW c \in Clients, client[c].pc # "accepted",
         NEW new \in ClientState, client' = [client EXCEPT ![c] = new], new.pc # "accepted"
  PROVE  ToldNow' = ToldNow
<1>1. \A d \in Clients : client'[d] = IF d = c THEN new ELSE client[d]
  BY DEF TypeOK
<1>2. \A d \in Clients : d # c => AnswerTo(d)' = AnswerTo(d)
  BY <1>1 DEF AnswerTo, Content
<1> QED
  BY <1>1, <1>2 DEF ToldNow

\* What Answer does to the answers.
LEMMA AnswerTells ==
  ASSUME TypeOK, NEW c \in Clients, client[c].pc \notin {"idle", "accepted"}, NEW row, Answer(c, row)
  PROVE  \/ ToldNow' = ToldNow
         \/ /\ client[c].id \in Ids
            /\ Equivalent(row, client[c].prompt, client[c].delivery)
            /\ ToldNow' = ToldNow \cup {[id |-> client[c].id, content |-> Content(client[c])]}
<1> DEFINE pc == IF Equivalent(row, client[c].prompt, client[c].delivery) THEN "accepted" ELSE "conflict"
           new == [client[c] EXCEPT !.pc = pc]
<1>1. client[c] \in ClientState /\ client[c] # IdleClient /\ client[c].id \in Ids
  BY DEF TypeOK, IdleClient, ClientState
<1>2. new \in ClientState /\ new.pc = pc /\ new.id = client[c].id /\ Content(new) = Content(client[c])
  BY <1>1 DEF ClientState, Content
<1>3. client' = [client EXCEPT ![c] = new]
  BY DEF Answer, TypeOK
<1> HIDE DEF new
<1>4. CASE pc = "accepted"
  BY <1>1, <1>2, <1>3, <1>4, AnswerGiven
<1>5. CASE pc = "conflict"
  BY <1>2, <1>3, <1>5, NoAnswer
<1> QED
  BY <1>4, <1>5

\* A stored row answers: the queue tells what is recorded.
LEMMA StoredAnswers ==
  ASSUME QInv, NEW c \in Clients, client[c].pc \notin {"idle", "accepted"}, inbox[client[c].id] # None,
         Answer(c, inbox[client[c].id]), UNCHANGED <<inbox, message, reverts>>
  PROVE  [Queue!Next]_(Queue!vars)
<1>a. TypeOK
  BY DEF QInv, IInv
<1>1. CASE ToldNow' = ToldNow
  BY <1>1, Unseen
<1>2. ASSUME NEW i \in Ids, i = client[c].id,
             Equivalent(inbox[i], client[c].prompt, client[c].delivery),
             ToldNow' = ToldNow \cup {[id |-> i, content |-> Content(client[c])]}
      PROVE  Queue!Next
  <2>1. i \in Rows /\ Content(client[c]) = PromptsNow[i]
    BY <1>2 DEF Rows, Content, PromptsNow, Equivalent
  <2>2. Queue!Tell(i)
    BY <1>2, <2>1, TablesStay DEF Queue!Tell, Queue!Told, Queue!Recorded, PromptsNow, ArrivedNow, EarlierNow,
       ToldNow, AnswerTo
  <2> QED
    BY <1>2, <2>2 DEF Queue!Next
<1> QED
  BY <1>a, <1>1, <1>2, AnswerTells

\* An admission is accepted.
LEMMA AdmitAccepts ==
  ASSUME QInv, NEW c \in Clients, Admit(c)
  PROVE  Queue!Next
<1>a. TypeOK /\ TypeOK' /\ seq \in Nat
  BY PromptingTypes, RowTypes DEF QInv, IInv, Prompting
<1>1. PICK i \in Ids, row \in Row :
        /\ i = client[c].id /\ inbox[i] = None /\ message[i] = 0 /\ message' = message
        /\ inbox' = [inbox EXCEPT ![i] = row]
        /\ row.admitted = seq + 1
        /\ Equivalent(row, client[c].prompt, client[c].delivery)
  BY <1>a, AdmitStep
<1>b. \A j \in Ids : inbox'[j] = IF j = i THEN row ELSE inbox[j]
  BY <1>a, <1>1 DEF TypeOK
<1>2. reverts' = reverts /\ client[c].pc = "publishing"
  BY DEF Admit, revertVars
<1>c. PICK content \in Contents : content = Content(client[c]) /\ Content(row) = content
  <2>1. Content(row) \in Contents /\ Content(row) = Content(client[c])
    BY <1>1 DEF Content, Contents, Equivalent, Row
  <2> QED
    BY <2>1
<1>3. Rows' = Rows \cup {i} /\ i \notin Rows \cup Shown /\ Shown' = Shown /\ EarlierNow' = EarlierNow
  BY <1>1, <1>b, RowTypes, <1>a DEF Rows, Shown, EarlierNow
<1>4. PromptsNow' = [j \in Rows \cup {i} |-> IF j = i THEN content ELSE PromptsNow[j]]
  <2>1. \A j \in Rows : j \in Ids /\ j # i
    BY <1>1 DEF Rows
  <2> QED
    BY <1>b, <1>1, <1>c, <1>3, <2>1 DEF PromptsNow, Content
<1>5. ArrivedNow' = ArrivedNow \cup (Rows \X {i})
  <2>1. \A j \in Rows : /\ j # i /\ inbox'[j] = inbox[j]
                        /\ inbox[j].admitted < inbox'[i].admitted
                        /\ ~(inbox'[i].admitted < inbox[j].admitted)
    BY <1>a, <1>b, <1>1, <1>3, RowsAndMessages
  <2>2. ~(inbox'[i].admitted < inbox'[i].admitted)
    BY <1>a, <1>b, <1>1
  <2>3. \A p \in Rows' \X Rows' : inbox'[p[1]].admitted < inbox'[p[2]].admitted
                                    <=> p \in ArrivedNow \cup (Rows \X {i})
    BY <1>3, <2>1, <2>2 DEF ArrivedNow
  <2> QED
    BY <1>3, <2>3 DEF ArrivedNow
<1>6. ToldNow' = ToldNow \cup {[id |-> i, content |-> content]}
  <2>1. PICK new \in Row : Equivalent(new, client[c].prompt, client[c].delivery) /\ Answer(c, new)
    <3>1. PICK t \in Times :
            LET new == [id |-> i, prompt |-> client[c].prompt, delivery |-> client[c].delivery,
                        time |-> t, admitted |-> seq + 1, promoted |-> 0]
            IN inbox' = [inbox EXCEPT ![i] = new] /\ Answer(c, new)
      BY <1>1 DEF Admit
    <3> DEFINE new == [id |-> i, prompt |-> client[c].prompt, delivery |-> client[c].delivery,
                        time |-> t, admitted |-> seq + 1, promoted |-> 0]
    <3>2. new \in Row
      BY <1>a, <1>1, <1>2 DEF TypeOK, ClientState, IdleClient, Row
    <3>3. Equivalent(new, client[c].prompt, client[c].delivery) /\ Answer(c, new)
      BY <3>1 DEF Equivalent
    <3> QED
      BY <3>2, <3>3
  <2>2. client' = [client EXCEPT ![c].pc = "accepted"]
    BY <2>1 DEF Answer
  <2> DEFINE told == [client[c] EXCEPT !.pc = "accepted"]
  <2>3. client' = [client EXCEPT ![c] = told]
    BY <2>2, <1>a DEF TypeOK
  <2>4. told \in ClientState /\ told.pc = "accepted" /\ told.id = i /\ Content(told) = content
    BY <1>a, <1>1, <1>2, <1>c DEF TypeOK, ClientState, IdleClient, Content
  <2> HIDE DEF told
  <2> QED
    BY <1>a, <1>2, <2>3, <2>4, AnswerGiven
<1>7. Queue!Accept(i, content)
  BY <1>2, <1>3, <1>4, <1>5, <1>6
     DEF Queue!Accept, Queue!Record, Queue!Recorded, Queue!Told, PromptsNow, ArrivedNow, EarlierNow, ToldNow, AnswerTo
<1> QED
  BY <1>7 DEF Queue!Next, Contents

\* A promotion shows the prompt: in its turn unless a rewind was requested, and
\* also when a rewind took it back, which records it again.
LEMMA PromotionExtends ==
  ASSUME QInv, NEW r \in Runners, NEW row \in runner[r].rows, PromoteRow(r, row)
  PROVE  /\ row.id \in Ids \ Shown
         /\ Shown' = Shown \cup {row.id}
         /\ EarlierNow' = EarlierNow \cup (Shown \X {row.id})
<1>1. /\ row.id \in Ids /\ seq \in Nat /\ message[row.id] = 0
      /\ message' = [message EXCEPT ![row.id] = seq + 1]
  BY PromoteStep, RowTypes DEF QInv, IInv
<1>2. /\ \A j \in Ids : message'[j] = IF j = row.id THEN seq + 1 ELSE message[j]
      /\ \A j \in Ids : message[j] \in Nat /\ message[j] <= seq
  BY <1>1, RowTypes DEF QInv, IInv, TypeOK, OthersStay
<1>3. row.id \in Ids \ Shown /\ Shown' = Shown \cup {row.id} /\ Shown \subseteq Ids
  BY <1>1, <1>2 DEF Shown
<1>4. \A j \in Shown : /\ message'[j] = message[j]
                       /\ message'[j] < message'[row.id]
                       /\ ~(message'[row.id] < message'[j])
  BY <1>1, <1>2, <1>3
<1>5. ~(message'[row.id] < message'[row.id])
  BY <1>1, <1>2
<1>6. \A p \in Shown' \X Shown' :
        message'[p[1]] < message'[p[2]] <=> p \in EarlierNow \cup (Shown \X {row.id})
  BY <1>3, <1>4, <1>5 DEF EarlierNow
<1> QED
  BY <1>3, <1>6 DEF EarlierNow

LEMMA PromotionShows ==
  ASSUME QInv, NEW r \in Runners, NEW row \in runner[r].rows, PromoteRow(r, row), inbox[row.id] # None
  PROVE  Queue!Next
<1>a. TypeOK /\ InboxMatchesConversation
  BY DEF QInv, IInv
<1>1. PICK i \in Ids, new \in Row :
        /\ i = row.id /\ inbox' = [inbox EXCEPT ![i] = new] /\ inbox[i].promoted = 0
        /\ new.admitted = inbox[i].admitted
        /\ Equivalent(new, inbox[i].prompt, inbox[i].delivery)
  BY <1>a, PromoteStep
<1>2. /\ reverts' = reverts /\ client' = client
      /\ row \in Earliest(runner[r].rows)
  BY DEF PromoteRow, Promoting, revertVars
<1>3. /\ i \in Rows \ Shown /\ Shown' = Shown \cup {i}
      /\ EarlierNow' = EarlierNow \cup (Shown \X {i})
  BY <1>1, PromotionExtends DEF Rows
<1>4. \A j \in Ids : inbox'[j] = IF j = i THEN new ELSE inbox[j]
  BY <1>a, <1>1 DEF TypeOK
<1>5. Rows' = Rows
  BY <1>3, <1>4, <1>a, RowTypes DEF Rows
<1>6. \A j \in Rows : Content(inbox'[j]) = Content(inbox[j]) /\ inbox'[j].admitted = inbox[j].admitted
  BY <1>1, <1>4 DEF Rows, Content, Equivalent
<1>7. PromptsNow' = PromptsNow /\ ArrivedNow' = ArrivedNow /\ ToldNow' = ToldNow
  BY <1>2, <1>5, <1>6 DEF PromptsNow, ArrivedNow, ToldNow, AnswerTo, Content
<1>8. ASSUME reverts = 0, NEW j \in Rows \ Shown,
             Content(inbox[j]).delivery = Content(inbox[i]).delivery
      PROVE  ~(inbox[j].admitted < inbox[i].admitted)
  <2> SUFFICES ASSUME inbox[j].admitted < inbox[i].admitted PROVE FALSE
    OBVIOUS
  <2>1. RowIsStored(row) /\ EarlierIsRead(r, row)
    BY <1>8 DEF QInv, OInv, ReadInOrder
  <2>2. IsPending(inbox[j]) /\ inbox[j].delivery = inbox[i].delivery /\ j \in Ids
    BY <1>8, RowsAndMessages DEF IsPending, Content
  <2>3. PICK earlier \in runner[r].rows : earlier.id = j
    BY <1>1, <2>1, <2>2 DEF RowIsStored, EarlierIsRead
  <2>4. earlier.admitted = inbox[j].admitted /\ row.admitted = inbox[i].admitted
    BY <1>1, <1>8, <2>1, <2>3 DEF QInv, OInv, ReadInOrder, RowIsStored
  <2>5. row.admitted <= earlier.admitted
    BY <1>2 DEF Earliest
  <2>6. inbox[i].admitted \in Nat /\ inbox[j].admitted \in Nat
    BY <1>3, <1>8, RowsAndMessages
  <2> QED
    BY <2>4, <2>5, <2>6
<1>9. reverts > 0 \/ Queue!IsNext(i)
  <2>1. reverts \in Nat
    BY <1>a DEF TypeOK
  <2>2. CASE reverts = 0
    <3>1. \A j \in Rows \ Shown : PromptsNow[j].delivery = PromptsNow[i].delivery => <<j, i>> \notin ArrivedNow
      BY <1>3, <1>8, <2>2 DEF PromptsNow, ArrivedNow
    <3> QED
      BY <3>1 DEF Queue!IsNext, Queue!Waiting, Queue!Recorded, PromptsNow, ArrivedNow
  <2> QED
    BY <2>1, <2>2
<1>10. Queue!Show(i)
  BY <1>2, <1>3, <1>7, <1>9
     DEF Queue!Show, Queue!Extend, Queue!Waiting, Queue!Recorded, PromptsNow, ArrivedNow, EarlierNow, ToldNow, AnswerTo
<1> QED
  BY <1>10 DEF Queue!Next

LEMMA PromotionShowsTakenBack ==
  ASSUME QInv, NEW r \in Runners, NEW row \in runner[r].rows, PromoteRow(r, row), inbox[row.id] = None
  PROVE  Queue!Next
<1>a. TypeOK /\ seq \in Nat /\ reverts \in Nat
  BY RowTypes DEF QInv, IInv, TypeOK
<1>b. \A other \in Row : other # None
  BY SessionInboxAssumption
<1>1. PICK i \in Ids, new \in Row :
        /\ i = row.id /\ inbox[i] = None /\ inbox' = [inbox EXCEPT ![i] = new]
        /\ new.admitted = seq + 1
  BY <1>a, PromoteStep
<1>2. reverts' = reverts /\ client' = client
  BY DEF PromoteRow, revertVars
<1>3. reverts > 0
  <2>1. reverts # 0
    BY DEF QInv, OInv, ReadInOrder, RowIsStored
  <2> QED
    BY <1>a, <2>1
<1>4. PICK content \in Contents : content = Content(new)
  BY DEF Contents, Content, Row
<1>5. \A j \in Ids : inbox'[j] = IF j = i THEN new ELSE inbox[j]
  BY <1>a, <1>1 DEF TypeOK
<1>6. Rows' = Rows \cup {i} /\ i \notin Rows
  BY <1>b, <1>1, <1>5 DEF Rows
<1>7. PromptsNow' = [j \in Rows \cup {i} |-> IF j = i THEN content ELSE PromptsNow[j]]
  <2>1. \A j \in Rows : j \in Ids /\ j # i
    BY <1>1 DEF Rows
  <2> QED
    BY <1>4, <1>5, <1>6, <2>1 DEF PromptsNow, Content
<1>8. ArrivedNow' = ArrivedNow \cup (Rows \X {i})
  <2>1. \A j \in Rows : /\ j # i /\ inbox'[j] = inbox[j]
                        /\ inbox[j].admitted < inbox'[i].admitted
                        /\ ~(inbox'[i].admitted < inbox[j].admitted)
    BY <1>a, <1>1, <1>5, <1>6, RowsAndMessages
  <2>2. ~(inbox'[i].admitted < inbox'[i].admitted)
    BY <1>a, <1>1, <1>5
  <2>3. \A p \in Rows' \X Rows' : inbox'[p[1]].admitted < inbox'[p[2]].admitted
                                    <=> p \in ArrivedNow \cup (Rows \X {i})
    BY <1>6, <2>1, <2>2 DEF ArrivedNow
  <2> QED
    BY <1>6, <2>3 DEF ArrivedNow
<1>9. ToldNow' = ToldNow
  BY <1>2 DEF ToldNow, AnswerTo, Content
<1>10. i \notin Shown /\ Shown' = Shown \cup {i} /\ EarlierNow' = EarlierNow \cup (Shown \X {i})
  BY <1>1, PromotionExtends
<1>11. Queue!ShowTakenBack(i, content)
  BY <1>2, <1>3, <1>6, <1>7, <1>8, <1>9, <1>10
     DEF Queue!ShowTakenBack, Queue!Record, Queue!Extend, Queue!Recorded, PromptsNow, ArrivedNow, EarlierNow, ToldNow, AnswerTo
<1> QED
  BY <1>11 DEF Queue!Next, Contents

\* A committed revert rewinds: rows and messages after the boundary go.
LEMMA CommitRewinds ==
  ASSUME QInv, NEW q \in reverting, CommitRevert(q)
  PROVE  Queue!Next
<1>a. TypeOK /\ reverts \in Nat /\ q.boundary \in Ids
  BY DEF QInv, IInv, TypeOK, RequestsFit, CommitRevert
<1> DEFINE boundary == message[q.boundary]
           kept == {i \in Rows' : i \notin Shown}
<1>1. boundary \in Nat /\ boundary # 0
  BY <1>a, RowTypes DEF CommitRevert
<1>2. /\ \A i \in Ids : message'[i] = IF message[i] > boundary THEN 0 ELSE message[i]
      /\ \A i \in Ids : inbox'[i] = IF After(inbox[i], boundary) THEN None ELSE inbox[i]
      /\ reverts' = reverts /\ client' = client
  BY DEF CommitRevert, Publish
<1>3. reverts > 0
  BY <1>a DEF QInv, IInv, RequestsFit
<1>4. Shown' = {i \in Shown : message[i] <= boundary} /\ Shown \subseteq Ids
  BY <1>1, <1>2, <1>a, RowTypes DEF Shown
<1>5. /\ Rows' = {i \in Rows : inbox[i].admitted <= boundary /\ inbox[i].promoted <= boundary}
      /\ \A i \in Rows' : inbox'[i] = inbox[i]
  BY <1>1, <1>2, RowsAndMessages DEF Rows, After
<1>6. /\ kept \subseteq Rows \ Shown
      /\ \A i \in Rows \ Shown : i \in kept <=> inbox[i].admitted <= boundary
  BY <1>1, <1>5, RowsAndMessages
<1>7. \A i \in Rows \cap Shown : i \in Rows' <=> i \in Shown'
  <2> SUFFICES ASSUME NEW i \in Rows, i \in Shown
               PROVE  i \in Rows' <=> i \in Shown'
    OBVIOUS
  <2>1. inbox[i].admitted \in Nat /\ inbox[i].promoted = message[i] /\ inbox[i].admitted <= message[i]
        /\ message[i] \in Nat
    BY RowsAndMessages
  <2> QED
    BY <1>1, <1>4, <1>5, <2>1
<1>8. Rows' = kept \cup (Rows \cap Shown')
  BY <1>4, <1>5, <1>6, <1>7
<1>9. PromptsNow' = [i \in kept \cup (Rows \cap Shown') |-> PromptsNow[i]]
  BY <1>5, <1>8 DEF PromptsNow, Content
<1>10. ArrivedNow' = ArrivedNow \cap (Rows' \X Rows')
  BY <1>5 DEF ArrivedNow
<1>11. EarlierNow' = EarlierNow \cap (Shown' \X Shown')
  <2>1. \A i \in Shown' : message'[i] = message[i]
    BY <1>1, <1>2, <1>4, <1>a, RowTypes
  <2> QED
    BY <1>4, <2>1 DEF EarlierNow
<1>12. \A p \in EarlierNow : p[2] \in Shown' => p[1] \in Shown'
  <2>1. \A i, j \in Shown : message[i] \in Nat /\ message[j] \in Nat
    BY <1>4, <1>a, RowTypes
  <2> QED
    BY <1>1, <1>4, <2>1 DEF EarlierNow
<1>13. \A p \in ArrivedNow : p[2] \in kept /\ p[1] \in Rows \ Shown => p[1] \in kept
  <2>1. \A i \in Rows : inbox[i].admitted \in Nat
    BY RowsAndMessages
  <2> QED
    BY <1>1, <1>6, <2>1 DEF ArrivedNow
<1>14. ToldNow' = ToldNow
  BY <1>2 DEF ToldNow, AnswerTo, Content
<1>15. PICK set \in SUBSET (Rows \ Shown) : set = kept
  BY <1>6
<1> HIDE DEF kept
<1>16. Queue!Rewind(set)
  BY <1>2, <1>3, <1>4, <1>8, <1>9, <1>10, <1>11, <1>12, <1>13, <1>14, <1>15
     DEF Queue!Rewind, Queue!Waiting, Queue!Recorded, PromptsNow, ArrivedNow, EarlierNow, ToldNow, AnswerTo
<1>17. set \in SUBSET Queue!Waiting
  BY DEF Queue!Waiting, Queue!Recorded
<1> QED
  BY <1>16, <1>17 DEF Queue!Next

\* An answer that was on its way is taken, or another client is told the same.
LEMMA ReturnAnswered ==
  ASSUME QInv, NEW c \in Clients, Wake(c) \/ Return(c)
  PROVE  [Queue!Next]_(Queue!vars)
<1>a. TypeOK /\ IdleClient \in ClientState /\ IdleClient.pc # "accepted"
  BY DEF QInv, IInv, ClientState, IdleClient
<1>1. client' = [client EXCEPT ![c] = IdleClient] /\ UNCHANGED <<inbox, message, reverts>>
  BY DEF Wake, Return, storeVars, revertVars
<1>2. CASE ToldNow' = ToldNow
  BY <1>1, <1>2, Unseen
<1>3. ASSUME NEW answer \in ToldNow, ToldNow' = ToldNow \ {answer}
      PROVE  Queue!Next
  <2>1. Queue!Answered(answer)
    BY <1>1, <1>3, TablesStay DEF Queue!Answered, PromptsNow, ArrivedNow, EarlierNow, ToldNow, AnswerTo
  <2> QED
    BY <2>1 DEF Queue!Next, ToldNow, AnswerTo
<1>4. CASE client[c].pc = "accepted"
  BY <1>a, <1>1, <1>2, <1>3, <1>4, AnswerTaken
<1>5. CASE client[c].pc # "accepted"
  BY <1>a, <1>1, <1>2, <1>5, NoAnswer
<1> QED
  BY <1>4, <1>5

LEMMA PromptingMaps ==
  ASSUME QInv, NEW c \in Clients, Prompting(c)
  PROVE  [Queue!Next]_(Queue!vars)
<1>a. TypeOK /\ client' \in [Clients -> ClientState]
  BY PromptingTypes DEF QInv, IInv, TypeOK
<1>b. ASSUME client[c].pc # "accepted", client'[c].pc # "accepted", UNCHANGED <<inbox, message, reverts>>,
             client' = [client EXCEPT ![c] = client'[c]]
      PROVE  UNCHANGED Queue!vars
  BY <1>a, <1>b, NoAnswer, Unseen
<1>1. ASSUME NEW i \in Ids, NEW p \in Prompts, NEW d \in Deliveries, Prompt(c, i, p, d)
      PROVE  UNCHANGED Queue!vars
  BY <1>a, <1>b, <1>1 DEF Prompt, TypeOK, storeVars, revertVars
<1>2. CASE FindNothing(c) \/ AdmitConflict(c) \/ (Recover(c) /\ inbox[client[c].id] = None)
  <2>1. PICK pc \in {"publishing", "recovering", "conflict"} : client' = [client EXCEPT ![c].pc = pc]
    BY <1>2 DEF FindNothing, AdmitConflict, Recover
  <2>2. client'[c] = [client[c] EXCEPT !.pc = pc] /\ client' = [client EXCEPT ![c] = client'[c]]
    BY <1>a, <2>1 DEF TypeOK
  <2>3. client[c].pc \in {"finding", "publishing", "recovering"} /\ client[c] \in ClientState
    BY <1>a, <1>2 DEF FindNothing, AdmitConflict, Recover, TypeOK
  <2>4. client'[c].pc = pc
    BY <2>2, <2>3 DEF ClientState, IdleClient
  <2> QED
    BY <1>2, <1>b, <2>2, <2>3, <2>4 DEF FindNothing, AdmitConflict, Recover, storeVars, revertVars
<1>3. CASE FindExisting(c)
  BY <1>3, StoredAnswers DEF FindExisting, storeVars, revertVars
<1>4. CASE Recover(c) /\ inbox[client[c].id] # None
  BY <1>4, StoredAnswers DEF Recover, storeVars, revertVars
<1>5. CASE Admit(c)
  BY <1>5, AdmitAccepts
<1>6. CASE Wake(c) \/ Return(c)
  BY <1>6, ReturnAnswered
<1> QED
  BY <1>1, <1>2, <1>3, <1>4, <1>5, <1>6 DEF Prompting

\* Of a drain's steps the queue sees the promotions, of the reverts the requests
\* and the commits.
LEMMA RunnerMaps ==
  ASSUME QInv, NEW r \in Runners,
         Draining(r) \/ LookForSteer(r) \/ Continue(r) \/ Compact(r) \/ Answered(r) \/ Fail(r)
  PROVE  [Queue!Next]_(Queue!vars)
<1>1. ASSUME NEW row \in runner[r].rows, PromoteRow(r, row) PROVE Queue!Next
  BY <1>1, PromotionShows, PromotionShowsTakenBack
<1>2. ASSUME ~\E row \in runner[r].rows : PromoteRow(r, row)
      PROVE  UNCHANGED <<inbox, message, reverts, client>>
  BY <1>2 DEF Draining, LookForQueue, ReadCutoff, ReadQueue, ReadSteers, PromoteConflict, PromoteRecover,
     Promoted, CheckSteer, CheckQueue, LookForSteer, Continue, Compact, Answered, Fail, storeVars, revertVars
<1>3. CASE UNCHANGED <<inbox, message, reverts, client>>
  <2>1. ToldNow' = ToldNow
    BY <1>3 DEF ToldNow, AnswerTo, Content
  <2> QED
    BY <1>3, <2>1, Unseen
<1> QED
  BY <1>1, <1>2, <1>3

LEMMA RevertingMaps ==
  ASSUME QInv, Reverting
  PROVE  [Queue!Next]_(Queue!vars)
<1>a. reverts \in Nat
  BY DEF QInv, IInv, TypeOK
<1>1. ASSUME NEW op, NEW b, Request(op, b) PROVE Queue!Next
  <2>1. reverts' > 0 /\ UNCHANGED <<inbox, message, client>>
    BY <1>1, <1>a DEF Request
  <2>2. ToldNow' = ToldNow
    BY <2>1 DEF ToldNow, AnswerTo, Content
  <2>3. Queue!RequestRewind
    BY <2>1, <2>2, TablesStay DEF Queue!RequestRewind, PromptsNow, ArrivedNow, EarlierNow, ToldNow, AnswerTo
  <2> QED
    BY <2>3 DEF Queue!Next
<1>2. ASSUME NEW q \in reverting, CommitRevert(q) PROVE Queue!Next
  BY <1>2, CommitRewinds
<1>3. ASSUME NEW q \in reverting, Stage(q) \/ ClearRevert(q) \/ CommitDies(q)
      PROVE  UNCHANGED Queue!vars
  <2>1. UNCHANGED <<inbox, message, reverts, client>>
    BY <1>3 DEF Stage, ClearRevert, CommitDies, Publish
  <2>2. ToldNow' = ToldNow
    BY <2>1 DEF ToldNow, AnswerTo, Content
  <2> QED
    BY <2>1, <2>2, Unseen
<1> QED
  BY <1>1, <1>2, <1>3 DEF Reverting, RequestStage, RequestClear, RequestCommit

LEMMA QueueNext ==
  ASSUME QInv, [Next]_vars
  PROVE  [Queue!Next]_(Queue!vars)
<1>1. CASE UNCHANGED vars
  <2>1. UNCHANGED <<inbox, message, reverts, client>>
    BY <1>1 DEF vars
  <2>2. ToldNow' = ToldNow
    BY <2>1 DEF ToldNow, AnswerTo, Content
  <2> QED
    BY <2>1, <2>2, Unseen
<1> QED
  BY <1>1, PromptingMaps, RunnerMaps, RevertingMaps DEF Next

\* The inbox implements the queue of prompts: retries, races of clients and
\* drains, stale reads, failures and reverts show as its steps or not at all.
THEOREM InboxImplementsQueue == Spec => ImplementsPromptQueue
<1>1. Init => QInv
  BY InvInit, OthersInit DEF QInv
<1>2. QInv /\ [Next]_vars => QInv'
  BY InvNext, OthersNext DEF QInv, IInv
<1>3. QInv /\ [Next]_vars => [Queue!Next]_(Queue!vars)
  BY QueueNext
<1> QED
  BY <1>1, <1>2, <1>3, QueueInit, PTL DEF Spec, ImplementsPromptQueue, Queue!Spec

=============================================================================
