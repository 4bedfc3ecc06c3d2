----------------------------- MODULE TurnProofs -----------------------------
(***************************************************************************)
(* Proofs about the provider turns of a session, for any sets of calls,    *)
(* sources, values and worlds and any bounds: first that a turn settles    *)
(* its calls (TurnSettlement.tla), then that the context epoch it is       *)
(* prepared with says what the model was told (ContextEpoch.tla).          *)
(***************************************************************************)
EXTENDS TurnSettlement, ContextEpoch, SequenceTheorems, WellFoundedInduction, TLAPS

-----------------------------------------------------------------------------
(* The turn.  The checked invariants speak of a stream, of a fiber and of   *)
(* the end of a turn; what connects them is where the drain fiber can be    *)
(* with what it knows, what its mark that is not committed yet stands for,  *)
(* and which calls each stage of a turn has settled.                        *)

\* A provider turn has been requested and has not returned.
InTurn == pc \notin {"idle", "recover", "request"}

\* The stream has not ended; the drain fiber may be failing tools for it.
InStream == InTurn /\ exit = "none"

\* The drain fiber is failing tools and goes on to p.
Failing(p) == pc = "failing" /\ fails.to = p

Marks(name, c) == out = Event(name, c)

Failure(all, p) == [all |-> all, to |-> p]

\* From where failUnsettledTools may be called, and for which calls.
FailingRight ==
  \/ fails = Failure(TRUE, "stream") /\ exit = "none" /\ settled = "none" /\ step >= LastStep
  \/ fails = Failure(FALSE, "failAssistant") /\ exit = "failure" /\ settled = "none"
  \/ fails = Failure(TRUE, "failActive") /\ settled = "interrupted"
  \/ fails = Failure(TRUE, "stepEnd") /\ settled = "defect"
  \/ fails = Failure(TRUE, "return") /\ settled = "declined"
  \/ fails = Failure(TRUE, "return") /\ settled \in {"success", "defect", "interrupted"}
  \/ fails = Failure(FALSE, "return") /\ settled \in {"success", "defect", "interrupted"} /\ exit = "success"

\* What the drain fiber knows where it is.
PlaceRight ==
  /\ pc \in {"idle", "recover"} => exit = "none" /\ \A c \in Calls : ~entry[c].known
  /\ ~InTurn => out = Quiet /\ \A c \in Calls : fiber[c] = "none"
  /\ InTurn => (exit = "none" <=> pc = "stream" \/ Failing("stream"))
  /\ pc \in {"stream", "exited", "failAssistant", "await"} => settled = "none"
  /\ pc = "failAssistant" => exit = "failure"
  /\ pc = "failing" => FailingRight
  /\ pc = "clear" =>
       \/ settled = "none" /\ exit = "interrupted"
       \/ settled = "interrupted" /\ fails = Failure(TRUE, "failActive")
       \/ settled = "declined" /\ fails = Failure(TRUE, "return")
  /\ pc = "failActive" => settled = "interrupted"
  /\ pc \in {"stepEnd", "close"} => settled \in {"success", "defect", "interrupted"}
  /\ pc = "return" => settled # "none"
  /\ exit = "interrupted" => interrupted /\ settled \in {"none", "interrupted"}

\* The drain fiber marks only where it publishes.
OutRight ==
  /\ out.name \in {"none", "started", "ended", "failed"} <=> out.call = NoCall
  /\ out.name \in {"input", "called", "run", "completed"} => pc = "stream"
  /\ out.name = "error" => pc \in {"stream", "failing"}
  /\ out.name = "started" => pc \in {"stream", "failAssistant", "failActive"}
  /\ out.name = "failed" => pc \in {"stream", "await", "stepEnd"}
  /\ out.name = "ended" => pc = "close"

\* What the publisher's entry of a call says of the log while the stream lasts.
EntryRight(c) ==
  /\ entry[c].called \/ entry[c].settled => entry[c].known
  /\ entry[c].hosted => entry[c].called
  /\ Marks("input", c) => entry[c].known /\ ~entry[c].called /\ ~entry[c].settled
  /\ Marks("called", c) => entry[c].called
  /\ Marks("run", c) => entry[c].called /\ ~entry[c].hosted
  /\ Marks("completed", c) => entry[c].hosted /\ entry[c].settled
  /\ Marks("error", c) => entry[c].settled /\ (pc = "stream" => entry[c].hosted)
  /\ InStream /\ Marks("called", c) => part[c] \in {"pending", "error"}
  /\ InStream /\ entry[c].known /\ ~entry[c].called =>
       part[c] \in IF Marks("input", c) THEN {"absent"} ELSE {"pending", "error"}
  /\ InStream /\ entry[c].called /\ ~Marks("called", c) /\ step < LastStep
       /\ (entry[c].settled => Marks("completed", c) \/ Marks("error", c)) => part[c] = "running"
  /\ InStream /\ entry[c].called /\ ~Marks("called", c) /\ step >= LastStep => c \in refused
  /\ InStream /\ entry[c].settled /\ step < LastStep => entry[c].called /\ ~Marks("called", c) /\ ~Marks("run", c)

\* A tool executes only after its call is recorded; if its call was settled
\* before its result was, a sibling has died.
FiberRight(c) ==
  fiber[c] # "none" =>
    /\ InTurn
    /\ step < LastStep
    /\ entry[c].called /\ ~entry[c].hosted
    /\ settled \in {"none", "defect"} \/ pc = "clear"
    /\ ~Marks("called", c) /\ ~Marks("run", c)
    /\ IF entry[c].settled THEN settled = "defect" ELSE part[c] = "running"

\* Who will settle a call has not settled it yet.
SettleRight(c) ==
  /\ settlements[c] <= 1
  /\ part[c] \in {"completed", "error"} => settlements[c] = 1
  /\ settlements[c] = 1 => ~IsOpen(c)
  /\ entry[c].known /\ ~entry[c].settled => settlements[c] = 0
  /\ Marks("completed", c) \/ Marks("error", c) => settlements[c] = 0

\* Why a call of the turn is still running in the log.
RunningRight(c) ==
  part[c] = "running" =>
    /\ pc # "request"
    /\ InTurn =>
         /\ entry[c].called
         /\ entry[c].hosted => c \in hosted
         /\ entry[c].settled =>
              \/ Marks("completed", c) \/ Marks("error", c)
              \/ exit = "interrupted" /\ c \in hosted
         /\ ~entry[c].settled /\ ~entry[c].hosted =>
              \/ fiber[c] # "none"
              \/ failure # "none"
              \/ Marks("run", c)
              \/ exit = "interrupted"
              \/ settled # "none"

AllSettled == \A c \in Calls : entry[c].known => entry[c].settled

HostedSettled == \A c \in Calls : entry[c].hosted => entry[c].settled

RunningSettled == \A c \in Calls \ refused : part[c] = "running" => entry[c].settled

LocalSettled ==
  \A c \in Calls \ refused : part[c] = "running" /\ ~entry[c].hosted => entry[c].settled

\* Which calls each stage after the stream finds settled.
DoneRight ==
  /\ pc = "failActive" => AllSettled
  /\ (pc \in {"stepEnd", "close"} \/ Failing("return")) /\ settled \in {"defect", "interrupted"} =>
       AllSettled
  /\ settled = "success" => LocalSettled
  /\ exit = "failure" /\ ~flags.providerFailed /\ InTurn
       /\ pc # "exited" /\ ~Failing("failAssistant") => HostedSettled
  /\ pc = "return" => exit = "died" \/ RunningSettled

\* The last Step event of the turn, once what is marked is committed, closes
\* its assistant message.
Closed ==
  \/ out.name \in {"ended", "failed"}
  \/ steps # <<>> /\ steps[Len(steps)] \in {"ended", "failed"}

\* The publisher's flags and the Step events of the turn.
StepsRight ==
  /\ ~flags.started => steps = <<>> /\ ~flags.active /\ ~flags.finished /\ ~flags.failed
  /\ flags.started /\ ~flags.active => flags.finished \/ flags.failed
  /\ flags.failed => ~flags.active
  /\ out.name = "started" => ~flags.failed /\ ~flags.finished
  /\ out.name \in {"started", "ended", "failed"} => flags.started
  /\ flags.providerFailed => flags.failed
  /\ pc \in {"stream", "exited", "failAssistant"} \/ Failing("stream") \/ Failing("failAssistant") =>
       flags.failed = flags.providerFailed
  /\ pc = "failAssistant" \/ Failing("failAssistant") => ~flags.providerFailed
  /\ flags.failed /\ ~(exit = "interrupted" /\ flags.providerFailed) => Closed
  /\ flags.finished /\ ~flags.providerFailed /\ settled # "declined"
       /\ (pc \in {"close", "return"} \/ Failing("return")) => Closed
  /\ (pc \in {"stepEnd", "close", "return"} \/ Failing("return")) /\ settled = "interrupted" =>
       ~flags.active
  /\ exit = "failure" /\ ~flags.failed =>
       pc \in {"exited", "failAssistant"} \/ Failing("failAssistant")

IInv ==
  /\ TypeOK
  /\ PlaceRight
  /\ OutRight
  /\ \A c \in Calls : EntryRight(c)
  /\ \A c \in Calls : FiberRight(c)
  /\ \A c \in Calls \ refused : SettleRight(c)
  /\ \A c \in Calls \ refused : RunningRight(c)
  /\ DoneRight
  /\ InTurn => StepsRight

-----------------------------------------------------------------------------
(* What one committed event changes.                                        *)

\* What may be committed: an event of a call, or of the step.
Recordable ==
  {e \in DrainEvents : e.name \in {"started", "ended", "failed"} \/ e.call \in Calls}

LEMMA CommitTypes ==
  ASSUME TypeOK, NEW e \in Recordable, Commits(e)
  PROVE  /\ part' \in [Calls -> {"absent", "pending", "running", "completed", "error"}]
         /\ hosted' \in SUBSET Calls
         /\ settlements' \in [Calls -> Nat]
         /\ steps' \in Seq({"started", "ended", "failed"})
         /\ refused' \in SUBSET Calls
         /\ turns' = turns
<1> USE DEF TypeOK, Commits, Recordable, DrainEvents
<1>1. part' \in [Calls -> {"absent", "pending", "running", "completed", "error"}]
  BY DEF Projected, IsOpen
<1>2. settlements' \in [Calls -> Nat]
  OBVIOUS
<1>3. steps' \in Seq({"started", "ended", "failed"})
  <2>1. CASE e.name \in {"started", "ended", "failed"}
    BY <2>1, AppendProperties
  <2> QED BY <2>1
<1> QED BY <1>1, <1>2, <1>3

\* An event changes nothing of the calls it is not about.
LEMMA CommitOthers ==
  ASSUME TypeOK, NEW e \in Recordable, Commits(e), NEW d \in Calls, d # e.call
  PROVE  /\ part'[d] = part[d] /\ settlements'[d] = settlements[d]
         /\ d \in refused' <=> d \in refused
         /\ d \in hosted' <=> d \in hosted
BY DEF Commits, Projected, Recordable, DrainEvents, TypeOK

\* What it changes of its own.
LEMMA CommitOwn ==
  ASSUME TypeOK, NEW e \in Recordable, e.call \in Calls, Commits(e)
  PROVE  /\ e.name = "input" => part'[e.call] = "pending"
         /\ e.name = "called" => part'[e.call] = IF part[e.call] = "absent" THEN "absent" ELSE "running"
         /\ e.name = "completed" =>
              part'[e.call] = IF part[e.call] = "running" THEN "completed" ELSE part[e.call]
         /\ e.name = "error" => part'[e.call] = IF IsOpen(e.call) THEN "error" ELSE part[e.call]
         /\ e.name \notin {"input", "called", "completed", "error"} => part'[e.call] = part[e.call]
         /\ settlements'[e.call] = IF e.name \in {"completed", "error"}
                                     THEN settlements[e.call] + 1 ELSE settlements[e.call]
         /\ e.call \in refused' <=> e.call \in refused \/ (e.name = "called" /\ step >= LastStep)
         /\ e.call \in hosted' <=> e.call \in hosted \/ (e.name = "called" /\ entry[e.call].hosted)
BY DEF Commits, Projected, Recordable, DrainEvents, TypeOK, IsOpen

\* Step events are appended to the turn's, others are not.
LEMMA CommitSteps ==
  ASSUME TypeOK, NEW e \in Recordable, Commits(e)
  PROVE  /\ e.name \notin {"started", "ended", "failed"} => steps' = steps
         /\ e.name \in {"started", "ended", "failed"} => steps' # <<>> /\ steps'[Len(steps')] = e.name
<1>1. CASE e.name \in {"started", "ended", "failed"}
  BY <1>1, AppendProperties DEF Commits, TypeOK
<1>2. CASE e.name \notin {"started", "ended", "failed"}
  BY <1>2 DEF Commits
<1> QED BY <1>1, <1>2

-----------------------------------------------------------------------------
(* Types.                                                                   *)

LEMMA EventTypes ==
  /\ Quiet \in DrainEvents
  /\ \A name \in {"started", "ended", "failed"} : Event(name, NoCall) \in Recordable
  /\ \A name \in {"input", "called", "completed", "error", "run"}, c \in Calls :
       Event(name, c) \in Recordable
  /\ Recordable \subseteq DrainEvents
BY DEF Quiet, Event, DrainEvents, Recordable

LEMMA EntryTypes ==
  /\ NoEntry \in EntryState
  /\ \A x \in EntryState, h \in BOOLEAN :
       /\ [x EXCEPT !.known = TRUE] \in EntryState
       /\ [x EXCEPT !.settled = TRUE] \in EntryState
       /\ [x EXCEPT !.called = TRUE, !.hosted = h] \in EntryState
BY DEF NoEntry, EntryState

LEMMA FlagTypes ==
  /\ NoFlags \in FlagState
  /\ \A f \in FlagState :
       /\ [f EXCEPT !.started = TRUE, !.active = TRUE] \in FlagState
       /\ [f EXCEPT !.active = FALSE, !.finished = TRUE] \in FlagState
       /\ [f EXCEPT !.providerFailed = TRUE, !.active = FALSE, !.failed = TRUE] \in FlagState
       /\ [f EXCEPT !.active = FALSE, !.failed = TRUE] \in FlagState
       /\ [f EXCEPT !.continue = TRUE] \in FlagState
BY DEF NoFlags, FlagState

LEMMA FailsTypes ==
  /\ \A a \in BOOLEAN, p \in Places : [all |-> a, to |-> p] \in [all : BOOLEAN, to : Places]
  /\ fails \in [all : BOOLEAN, to : Places] => fails.to \in Places /\ fails.all \in BOOLEAN
OBVIOUS

LEMMA FreshTypes ==
  ASSUME Fresh
  PROVE  /\ pc' \in Places
         /\ entry' \in [Calls -> EntryState]
         /\ out' \in DrainEvents
         /\ flags' \in FlagState
         /\ fails' \in [all : BOOLEAN, to : Places]
         /\ exit' = "none" /\ settled' = "none" /\ failure' = "none"
         /\ fiber' \in [Calls -> {"none", "settling", "completed", "error"}]
<1>1. "idle" \in Places
  BY DEF Places
<1> QED BY <1>1, EventTypes, EntryTypes, FlagTypes, FailsTypes DEF Fresh

\* Types hold at first.
LEMMA InitTypes ==
  ASSUME TurnAssumption, Init
  PROVE  TypeOK
<1>1. "idle" \in Places /\ 0 \in 0..MaxTurns /\ <<>> \in Seq({"started", "ended", "failed"})
  BY DEF Places, TurnAssumption
<1>2. entry \in [Calls -> EntryState] /\ flags \in FlagState /\ out \in DrainEvents
  BY EventTypes, EntryTypes, FlagTypes DEF Init
<1>3. fails \in [all : BOOLEAN, to : Places]
  BY <1>1, FailsTypes DEF Init
<1> QED BY <1>1, <1>2, <1>3 DEF Init, TypeOK

\* A mark is the event that is about its call.
LEMMA MarkIs ==
  ASSUME TypeOK
  PROVE  out = Event(out.name, out.call)
BY DEF TypeOK, DrainEvents, Event

\* A call that is settled does not come to run.
LEMMA SettlingKeeps ==
  ASSUME TypeOK, NEW c \in Calls, NEW r \in {"completed", "error"}, Commits(Event(r, c))
  PROVE  /\ refused' = refused /\ hosted' = hosted /\ steps' = steps
         /\ \A d \in Calls : part'[d] = "running" => part[d] = "running"
<1>1. refused' = refused /\ hosted' = hosted /\ steps' = steps
  BY DEF Commits, Event
<1>2. ASSUME NEW d \in Calls, part'[d] = "running"
      PROVE  part[d] = "running"
  BY <1>2, CommitOthers, CommitOwn, EventTypes DEF Event
<1> QED BY <1>1, <1>2

\* Every step keeps the types.
LEMMA NextTypes ==
  ASSUME TurnAssumption, IInv, [Next]_vars
  PROVE  TypeOK'
<1>0. TypeOK /\ OutRight
  BY DEF IInv
<1>a. \A p \in {"idle", "recover", "request", "stream", "failing", "exited", "clear", "await",
                 "failAssistant", "failActive", "stepEnd", "close", "return"} : p \in Places
  BY DEF Places
<1> USE DEF TypeOK, durable, turn, tools
<1>1. CASE Run
  BY <1>0, <1>a, <1>1 DEF Run
<1>2. ASSUME NEW c \in Calls, FailInterrupted(c) PROVE TypeOK'
  BY <1>0, <1>a, <1>2, CommitTypes, EventTypes DEF FailInterrupted
<1>3. CASE Recovered
  BY <1>0, <1>a, <1>3 DEF Recovered
<1>4. CASE Request
  <2>1. turns' \in 0..MaxTurns /\ steps' \in Seq({"started", "ended", "failed"})
    BY <1>0, <1>a, <1>4, EmptySeq DEF Request, TypeOK, TurnAssumption
  <2>2. step' \in Nat
    BY <1>0, <1>a, <1>4 DEF Request, TypeOK
  <2>3. entry' \in [Calls -> EntryState] /\ flags' \in FlagState
    BY <1>4, EntryTypes, FlagTypes DEF Request
  <2> QED BY <1>0, <1>a, <1>a, <2>1, <2>2, <2>3, <1>4 DEF Request, TypeOK
<1>5. CASE StartAssistant
  BY <1>0, <1>a, <1>5, EventTypes, FlagTypes DEF StartAssistant, Streams
<1>6. ASSUME NEW c \in Calls, StartToolInput(c) PROVE TypeOK'
  BY <1>0, <1>a, <1>6, EventTypes, EntryTypes DEF StartToolInput, Streams
<1>7. ASSUME NEW c \in Calls, NEW h \in BOOLEAN, ToolCall(c, h) PROVE TypeOK'
  BY <1>0, <1>a, <1>7, EventTypes, EntryTypes DEF ToolCall, Streams
<1>8. ASSUME NEW c \in Calls, NEW r \in {"completed", "error"}, HostedResult(c, r)
      PROVE  TypeOK'
  BY <1>0, <1>a, <1>8, EventTypes, EntryTypes DEF HostedResult, Streams
<1>9. CASE StepFinish
  BY <1>0, <1>a, <1>9, FlagTypes DEF StepFinish, Streams
<1>10. CASE ProviderError
  BY <1>0, <1>a, <1>10, EventTypes, FlagTypes DEF ProviderError, Streams
<1>11. CASE Commit
  <2>1. out \in Recordable /\ Commits(out)
    BY <1>0, <1>a, <1>11, EventTypes DEF Commit, TypeOK, OutRight, Recordable, DrainEvents
  <2>2. out' \in DrainEvents
    BY <1>0, <1>a, <2>1, <1>11, EventTypes DEF Commit, Recordable, DrainEvents
  <2> QED BY <1>0, <1>a, <2>1, <2>2, <1>11, CommitTypes DEF Commit, TypeOK, turn, tools
<1>12. CASE RunTool
  BY <1>0, <1>a, <1>12, EventTypes, FlagTypes DEF RunTool
<1>13. CASE RefuseTool
  BY <1>0, <1>a, <1>13, EventTypes, FailsTypes DEF RefuseTool
<1>14. ASSUME NEW how \in {"success", "failure", "died"}, StreamEnds(how) PROVE TypeOK'
  BY <1>0, <1>a, <1>14 DEF StreamEnds
<1>15. CASE StreamInterrupted
  BY <1>0, <1>a, <1>15, EventTypes DEF StreamInterrupted
<1>16. ASSUME NEW c \in Calls, NEW r \in {"completed", "error"}, ToolReturns(c, r)
      PROVE  TypeOK'
  BY <1>0, <1>a, <1>16 DEF ToolReturns
<1>17. ASSUME NEW c \in Calls, NEW why \in {"declined", "defect"}, ToolFails(c, why)
      PROVE  TypeOK'
  BY <1>0, <1>a, <1>17 DEF ToolFails
<1>18. ASSUME NEW c \in Calls, PublishResult(c) PROVE TypeOK'
  <2>1. entry' \in [Calls -> EntryState]
    BY <1>0, <1>a, <1>18, EntryTypes DEF PublishResult
  <2>2. Event(fiber[c], c) \in Recordable /\ Commits(Event(fiber[c], c))
    BY <1>18, EventTypes DEF PublishResult
  <2> QED BY <1>0, <1>a, <2>1, <2>2, <1>18, CommitTypes DEF PublishResult
<1>19. ASSUME NEW c \in Calls, LateResult(c) PROVE TypeOK'
  BY <1>0, <1>a, <1>19 DEF LateResult
<1>20. ASSUME NEW c \in Calls, FailNext(c) PROVE TypeOK'
  BY <1>0, <1>a, <1>20, EventTypes, EntryTypes DEF FailNext
<1>21. CASE FailDone
  BY <1>0, <1>a, <1>21, FailsTypes DEF FailDone, GoTo
<1>22. CASE Exited
  BY <1>0, <1>a, <1>22, FailsTypes, EventTypes, FlagTypes DEF Exited, GoTo, FailTools
<1>23. CASE FailAssistant
  <2>0. \/ flags' = flags
        \/ flags' = [flags EXCEPT !.started = TRUE, !.active = TRUE]
        \/ flags' = [flags EXCEPT !.active = FALSE, !.failed = TRUE]
    BY <1>23, Zenon DEF FailAssistant
  <2>1. flags' \in FlagState
    <3>1. flags \in FlagState
      BY <1>0 DEF TypeOK
    <3> QED BY <3>1, <2>0, FlagTypes
  <2>2. out' \in DrainEvents
    BY <1>0, <1>a, <1>23, EventTypes DEF FailAssistant, TypeOK
  <2>3. pc' \in Places /\ fails' = fails
    BY <1>0, <1>a, <1>a, <1>23 DEF FailAssistant, GoTo, TypeOK
  <2> QED BY <1>0, <1>a, <2>1, <2>2, <2>3, <1>23 DEF FailAssistant, TypeOK, durable, tools
<1>24. ASSUME NEW c \in Calls, InterruptTool(c) PROVE TypeOK'
  BY <1>0, <1>a, <1>24 DEF InterruptTool
<1>25. CASE Cleared
  BY <1>0, <1>a, <1>25, FailsTypes, EventTypes, FlagTypes DEF Cleared, GoTo, FailTools
<1>26. CASE AwaitTools
  BY <1>0, <1>a, <1>26, FailsTypes, EventTypes, FlagTypes DEF AwaitTools, GoTo, FailTools
<1>27. CASE StepEnd
  BY <1>0, <1>a, <1>27, FailsTypes, EventTypes, FlagTypes DEF StepEnd, GoTo, FailTools
<1>28. CASE Close
  BY <1>0, <1>a, <1>28, FailsTypes, EventTypes, FlagTypes DEF Close, GoTo, FailTools
<1>29. CASE TurnReturns
  <2>0. \/ step' = step + 1 /\ UNCHANGED interrupted
        \/ step' = 1 /\ interrupted' = FALSE
    BY <1>29, Zenon DEF TurnReturns
  <2>1. step' \in Nat /\ interrupted' \in BOOLEAN
    <3>1. step \in Nat /\ interrupted \in BOOLEAN
      BY <1>0 DEF TypeOK
    <3>2. step' \in Nat
      BY <2>0, <3>1
    <3> QED BY <2>0, <3>1, <3>2, Zenon
  <2>4. UNCHANGED durable
    BY <1>29, Zenon DEF TurnReturns
  <2>2. CASE Fresh
    BY <1>0, <1>a, <2>1, <2>2, <2>4, FreshTypes DEF TypeOK, durable
  <2>3. CASE ~Fresh
    BY <1>0, <1>a, <1>a, <2>1, <2>3, <1>29 DEF TurnReturns, TypeOK, durable, tools
  <2> QED BY <2>2, <2>3
<1>30. CASE Interrupt
  BY <1>0, <1>a, <1>30 DEF Interrupt
<1>31. CASE RunInterrupted
  BY <1>0, <1>a, <1>31, FreshTypes DEF RunInterrupted
<1>32. CASE Crash
  BY <1>0, <1>a, <1>32, FreshTypes DEF Crash
<1>33. CASE UNCHANGED vars
  BY <1>0, <1>a, <1>33 DEF vars
<1> QED
  BY <1>1, <1>2, <1>3, <1>4, <1>5, <1>6, <1>7, <1>8, <1>9, <1>10, <1>11, <1>12, <1>13,
    <1>14, <1>15, <1>16, <1>17, <1>18, <1>19, <1>20, <1>21, <1>22, <1>23, <1>24, <1>25,
    <1>26, <1>27, <1>28, <1>29, <1>30, <1>31, <1>32, <1>33 DEF Next, Proceeds, Provides,
    Publishes

-----------------------------------------------------------------------------
(* Where the drain fiber is, and what it has marked.                        *)

\* Where the drain fiber is, and what it knows there.
LEMMA NextPlace ==
  ASSUME TurnAssumption, IInv, [Next]_vars
  PROVE  PlaceRight'
<1>0. TypeOK /\ PlaceRight /\ OutRight
  BY DEF IInv
<1> USE DEF PlaceRight, OutRight, InTurn, Failing, Failure, FailingRight, Event, Quiet,
            GoTo, FailTools, NoFibers, durable, turn, tools, TypeOK
<1>1. CASE Run
  BY <1>0, <1>1 DEF Run
<1>2. ASSUME NEW c \in Calls, FailInterrupted(c) PROVE PlaceRight'
  BY <1>0, <1>2 DEF FailInterrupted
<1>3. CASE Recovered
  BY <1>0, <1>3 DEF Recovered
<1>4. CASE Request
  BY <1>0, <1>4 DEF Request
<1>5. CASE StartAssistant
  BY <1>0, <1>5 DEF StartAssistant, Streams
<1>6. ASSUME NEW c \in Calls, StartToolInput(c) PROVE PlaceRight'
  BY <1>0, <1>6 DEF StartToolInput, Streams
<1>7. ASSUME NEW c \in Calls, NEW h \in BOOLEAN, ToolCall(c, h) PROVE PlaceRight'
  BY <1>0, <1>7 DEF ToolCall, Streams
<1>8. ASSUME NEW c \in Calls, NEW r \in {"completed", "error"}, HostedResult(c, r)
      PROVE  PlaceRight'
  BY <1>0, <1>8 DEF HostedResult, Streams
<1>9. CASE StepFinish
  BY <1>0, <1>9 DEF StepFinish, Streams
<1>10. CASE ProviderError
  BY <1>0, <1>10 DEF ProviderError, Streams
<1>11. CASE Commit
  BY <1>0, <1>11 DEF Commit
<1>12. CASE RunTool
  BY <1>0, <1>12 DEF RunTool
<1>13. CASE RefuseTool
  BY <1>0, <1>13 DEF RefuseTool
<1>14. ASSUME NEW how \in {"success", "failure", "died"}, StreamEnds(how) PROVE PlaceRight'
  BY <1>0, <1>14 DEF StreamEnds
<1>15. CASE StreamInterrupted
  BY <1>0, <1>15 DEF StreamInterrupted
<1>16. ASSUME NEW c \in Calls, NEW r \in {"completed", "error"}, ToolReturns(c, r)
      PROVE  PlaceRight'
  BY <1>0, <1>16 DEF ToolReturns
<1>17. ASSUME NEW c \in Calls, NEW why \in {"declined", "defect"}, ToolFails(c, why)
      PROVE  PlaceRight'
  BY <1>0, <1>17 DEF ToolFails
<1>18. ASSUME NEW c \in Calls, PublishResult(c) PROVE PlaceRight'
  BY <1>0, <1>18 DEF PublishResult
<1>19. ASSUME NEW c \in Calls, LateResult(c) PROVE PlaceRight'
  BY <1>0, <1>19 DEF LateResult
<1>20. ASSUME NEW c \in Calls, FailNext(c) PROVE PlaceRight'
  BY <1>0, <1>20 DEF FailNext
<1>21. CASE FailDone
  BY <1>0, <1>21 DEF FailDone
<1>22. CASE Exited
  BY <1>0, <1>22 DEF Exited
<1>23. CASE FailAssistant
  BY <1>0, <1>23 DEF FailAssistant
<1>24. ASSUME NEW c \in Calls, InterruptTool(c) PROVE PlaceRight'
  BY <1>0, <1>24 DEF InterruptTool
<1>25. CASE Cleared
  BY <1>0, <1>25 DEF Cleared
<1>26. CASE AwaitTools
  BY <1>0, <1>26 DEF AwaitTools
<1>27. CASE StepEnd
  BY <1>0, <1>27 DEF StepEnd
<1>28. CASE Close
  BY <1>0, <1>28 DEF Close
<1>29. CASE TurnReturns
  BY <1>0, <1>29 DEF TurnReturns, Fresh, Continues, NoEntry
<1>30. CASE Interrupt
  BY <1>0, <1>30 DEF Interrupt
<1>31. CASE RunInterrupted
  BY <1>0, <1>31 DEF RunInterrupted, Fresh, NoEntry
<1>32. CASE Crash
  BY <1>0, <1>32 DEF Crash, Fresh, NoEntry
<1>33. CASE UNCHANGED vars
  BY <1>0, <1>33 DEF vars
<1> QED
  BY <1>1, <1>2, <1>3, <1>4, <1>5, <1>6, <1>7, <1>8, <1>9, <1>10, <1>11, <1>12, <1>13,
    <1>14, <1>15, <1>16, <1>17, <1>18, <1>19, <1>20, <1>21, <1>22, <1>23, <1>24, <1>25,
    <1>26, <1>27, <1>28, <1>29, <1>30, <1>31, <1>32, <1>33 DEF Next, Proceeds, Provides,
    Publishes

\* Marks are made where they may be.
LEMMA NextOut ==
  ASSUME TurnAssumption, IInv, [Next]_vars
  PROVE  OutRight'
<1>0. TypeOK /\ PlaceRight /\ OutRight
  BY DEF IInv
<1> USE DEF PlaceRight, OutRight, InTurn, Failing, Failure, FailingRight, Event, Quiet,
            GoTo, FailTools, NoFibers, durable, turn, tools, TurnAssumption, TypeOK,
            DrainEvents
<1>1. CASE Run
  BY <1>0, <1>1 DEF Run
<1>2. ASSUME NEW c \in Calls, FailInterrupted(c) PROVE OutRight'
  BY <1>0, <1>2 DEF FailInterrupted
<1>3. CASE Recovered
  BY <1>0, <1>3 DEF Recovered
<1>4. CASE Request
  BY <1>0, <1>4 DEF Request
<1>5. CASE StartAssistant
  BY <1>0, <1>5 DEF StartAssistant, Streams
<1>6. ASSUME NEW c \in Calls, StartToolInput(c) PROVE OutRight'
  BY <1>0, <1>6 DEF StartToolInput, Streams
<1>7. ASSUME NEW c \in Calls, NEW h \in BOOLEAN, ToolCall(c, h) PROVE OutRight'
  BY <1>0, <1>7 DEF ToolCall, Streams
<1>8. ASSUME NEW c \in Calls, NEW r \in {"completed", "error"}, HostedResult(c, r)
      PROVE  OutRight'
  BY <1>0, <1>8 DEF HostedResult, Streams
<1>9. CASE StepFinish
  BY <1>0, <1>9 DEF StepFinish, Streams
<1>10. CASE ProviderError
  BY <1>0, <1>10 DEF ProviderError, Streams
<1>11. CASE Commit
  BY <1>0, <1>11 DEF Commit
<1>12. CASE RunTool
  BY <1>0, <1>12 DEF RunTool
<1>13. CASE RefuseTool
  BY <1>0, <1>13 DEF RefuseTool
<1>14. ASSUME NEW how \in {"success", "failure", "died"}, StreamEnds(how) PROVE OutRight'
  BY <1>0, <1>14 DEF StreamEnds
<1>15. CASE StreamInterrupted
  BY <1>0, <1>15 DEF StreamInterrupted
<1>16. ASSUME NEW c \in Calls, NEW r \in {"completed", "error"}, ToolReturns(c, r)
      PROVE  OutRight'
  BY <1>0, <1>16 DEF ToolReturns
<1>17. ASSUME NEW c \in Calls, NEW why \in {"declined", "defect"}, ToolFails(c, why)
      PROVE  OutRight'
  BY <1>0, <1>17 DEF ToolFails
<1>18. ASSUME NEW c \in Calls, PublishResult(c) PROVE OutRight'
  BY <1>0, <1>18 DEF PublishResult
<1>19. ASSUME NEW c \in Calls, LateResult(c) PROVE OutRight'
  BY <1>0, <1>19 DEF LateResult
<1>20. ASSUME NEW c \in Calls, FailNext(c) PROVE OutRight'
  BY <1>0, <1>20 DEF FailNext
<1>21. CASE FailDone
  BY <1>0, <1>21 DEF FailDone
<1>22. CASE Exited
  BY <1>0, <1>22 DEF Exited
<1>23. CASE FailAssistant
  BY <1>0, <1>23 DEF FailAssistant
<1>24. ASSUME NEW c \in Calls, InterruptTool(c) PROVE OutRight'
  BY <1>0, <1>24 DEF InterruptTool
<1>25. CASE Cleared
  BY <1>0, <1>25 DEF Cleared
<1>26. CASE AwaitTools
  BY <1>0, <1>26 DEF AwaitTools
<1>27. CASE StepEnd
  BY <1>0, <1>27 DEF StepEnd
<1>28. CASE Close
  BY <1>0, <1>28 DEF Close
<1>29. CASE TurnReturns
  BY <1>0, <1>29 DEF TurnReturns, Fresh
<1>30. CASE Interrupt
  BY <1>0, <1>30 DEF Interrupt
<1>31. CASE RunInterrupted
  BY <1>0, <1>31 DEF RunInterrupted, Fresh
<1>32. CASE Crash
  BY <1>0, <1>32 DEF Crash, Fresh
<1>33. CASE UNCHANGED vars
  BY <1>0, <1>33 DEF vars
<1> QED
  BY <1>1, <1>2, <1>3, <1>4, <1>5, <1>6, <1>7, <1>8, <1>9, <1>10, <1>11, <1>12, <1>13,
    <1>14, <1>15, <1>16, <1>17, <1>18, <1>19, <1>20, <1>21, <1>22, <1>23, <1>24, <1>25,
    <1>26, <1>27, <1>28, <1>29, <1>30, <1>31, <1>32, <1>33 DEF Next, Proceeds, Provides,
    Publishes

-----------------------------------------------------------------------------
(* The publisher's entry and the fiber of a call.                           *)

\* What the publisher knows of a call agrees with the log.
LEMMA NextEntry ==
  ASSUME TurnAssumption, IInv, [Next]_vars
  PROVE  \A d \in Calls : EntryRight(d)'
<1> SUFFICES ASSUME NEW d \in Calls PROVE EntryRight(d)'
  OBVIOUS
<1>0. TypeOK /\ PlaceRight /\ OutRight /\ EntryRight(d) /\ FiberRight(d)
  BY DEF IInv
<1> USE DEF EntryRight, FiberRight, InTurn, Failing, Failure, FailingRight, Event, Quiet,
            GoTo, FailTools, NoFibers, durable, turn, tools, Marks, InStream, TypeOK,
            EntryState, OutRight, PlaceRight
<1>1. CASE Run
  BY <1>0, <1>1 DEF Run
<1>2. ASSUME NEW c \in Calls, FailInterrupted(c) PROVE EntryRight(d)'
  BY <1>0, <1>2, CommitOthers, CommitOwn, EventTypes DEF FailInterrupted
<1>3. CASE Recovered
  BY <1>0, <1>3 DEF Recovered
<1>4. CASE Request
  BY <1>0, <1>4 DEF Request, NoEntry
<1>5. CASE StartAssistant
  BY <1>0, <1>5 DEF StartAssistant, Streams
<1>6. ASSUME NEW c \in Calls, StartToolInput(c) PROVE EntryRight(d)'
  BY <1>0, <1>6 DEF StartToolInput, Streams
<1>7. ASSUME NEW c \in Calls, NEW h \in BOOLEAN, ToolCall(c, h) PROVE EntryRight(d)'
  BY <1>0, <1>7 DEF ToolCall, Streams
<1>8. ASSUME NEW c \in Calls, NEW r \in {"completed", "error"}, HostedResult(c, r)
      PROVE  EntryRight(d)'
  BY <1>0, <1>8 DEF HostedResult, Streams
<1>9. CASE StepFinish
  BY <1>0, <1>9 DEF StepFinish, Streams
<1>10. CASE ProviderError
  BY <1>0, <1>10 DEF ProviderError, Streams
<1>11. CASE Commit
  BY <1>0, <1>11, CommitOthers, CommitOwn, EventTypes DEF Commit, Recordable, DrainEvents
<1>12. CASE RunTool
  BY <1>0, <1>12, MarkIs DEF RunTool
<1>13. CASE RefuseTool
  BY <1>0, <1>13 DEF RefuseTool
<1>14. ASSUME NEW how \in {"success", "failure", "died"}, StreamEnds(how) PROVE EntryRight(d)'
  BY <1>0, <1>14 DEF StreamEnds
<1>15. CASE StreamInterrupted
  BY <1>0, <1>15 DEF StreamInterrupted
<1>16. ASSUME NEW c \in Calls, NEW r \in {"completed", "error"}, ToolReturns(c, r)
      PROVE  EntryRight(d)'
  BY <1>0, <1>16 DEF ToolReturns
<1>17. ASSUME NEW c \in Calls, NEW why \in {"declined", "defect"}, ToolFails(c, why)
      PROVE  EntryRight(d)'
  BY <1>0, <1>17 DEF ToolFails
<1>18. ASSUME NEW c \in Calls, PublishResult(c) PROVE EntryRight(d)'
  BY <1>0, <1>18, CommitOthers, CommitOwn, EventTypes DEF PublishResult, PermitFree
<1>19. ASSUME NEW c \in Calls, LateResult(c) PROVE EntryRight(d)'
  BY <1>0, <1>19 DEF LateResult
<1>20. ASSUME NEW c \in Calls, FailNext(c) PROVE EntryRight(d)'
  BY <1>0, <1>20 DEF FailNext, Unsettled
<1>21. CASE FailDone
  BY <1>0, <1>21 DEF FailDone
<1>22. CASE Exited
  BY <1>0, <1>22 DEF Exited
<1>23. CASE FailAssistant
  BY <1>0, <1>23 DEF FailAssistant
<1>24. ASSUME NEW c \in Calls, InterruptTool(c) PROVE EntryRight(d)'
  BY <1>0, <1>24 DEF InterruptTool
<1>25. CASE Cleared
  BY <1>0, <1>25 DEF Cleared
<1>26. CASE AwaitTools
  BY <1>0, <1>26 DEF AwaitTools
<1>27. CASE StepEnd
  BY <1>0, <1>27 DEF StepEnd
<1>28. CASE Close
  BY <1>0, <1>28 DEF Close
<1>29. CASE TurnReturns
  BY <1>0, <1>29 DEF TurnReturns, Fresh, NoEntry
<1>30. CASE Interrupt
  BY <1>0, <1>30 DEF Interrupt
<1>31. CASE RunInterrupted
  BY <1>0, <1>31 DEF RunInterrupted, Fresh, NoEntry
<1>32. CASE Crash
  BY <1>0, <1>32 DEF Crash, Fresh, NoEntry
<1>33. CASE UNCHANGED vars
  BY <1>0, <1>33 DEF vars
<1> QED
  BY <1>1, <1>2, <1>3, <1>4, <1>5, <1>6, <1>7, <1>8, <1>9, <1>10, <1>11, <1>12, <1>13,
    <1>14, <1>15, <1>16, <1>17, <1>18, <1>19, <1>20, <1>21, <1>22, <1>23, <1>24, <1>25,
    <1>26, <1>27, <1>28, <1>29, <1>30, <1>31, <1>32, <1>33 DEF Next, Proceeds, Provides,
    Publishes

\* Tools execute what is recorded.
LEMMA NextFiber ==
  ASSUME TurnAssumption, IInv, [Next]_vars
  PROVE  \A d \in Calls : FiberRight(d)'
<1> SUFFICES ASSUME NEW d \in Calls PROVE FiberRight(d)'
  OBVIOUS
<1>0. TypeOK /\ PlaceRight /\ OutRight /\ EntryRight(d) /\ FiberRight(d)
  BY DEF IInv
<1> USE DEF EntryRight, FiberRight, InTurn, Failing, Failure, FailingRight, Event, Quiet,
            GoTo, FailTools, NoFibers, durable, turn, tools, Marks, InStream, TypeOK,
            EntryState, OutRight, PlaceRight
<1>1. CASE Run
  BY <1>0, <1>1 DEF Run
<1>2. ASSUME NEW c \in Calls, FailInterrupted(c) PROVE FiberRight(d)'
  BY <1>0, <1>2, CommitOthers, CommitOwn, EventTypes DEF FailInterrupted
<1>3. CASE Recovered
  BY <1>0, <1>3 DEF Recovered
<1>4. CASE Request
  BY <1>0, <1>4 DEF Request, NoEntry
<1>5. CASE StartAssistant
  BY <1>0, <1>5 DEF StartAssistant, Streams
<1>6. ASSUME NEW c \in Calls, StartToolInput(c) PROVE FiberRight(d)'
  BY <1>0, <1>6 DEF StartToolInput, Streams
<1>7. ASSUME NEW c \in Calls, NEW h \in BOOLEAN, ToolCall(c, h) PROVE FiberRight(d)'
  BY <1>0, <1>7 DEF ToolCall, Streams
<1>8. ASSUME NEW c \in Calls, NEW r \in {"completed", "error"}, HostedResult(c, r)
      PROVE  FiberRight(d)'
  BY <1>0, <1>8 DEF HostedResult, Streams
<1>9. CASE StepFinish
  BY <1>0, <1>9 DEF StepFinish, Streams
<1>10. CASE ProviderError
  BY <1>0, <1>10 DEF ProviderError, Streams
<1>11. CASE Commit
  BY <1>0, <1>11, CommitOthers, CommitOwn, EventTypes DEF Commit, Recordable, DrainEvents
<1>12. CASE RunTool
  BY <1>0, <1>12, MarkIs DEF RunTool
<1>13. CASE RefuseTool
  BY <1>0, <1>13 DEF RefuseTool
<1>14. ASSUME NEW how \in {"success", "failure", "died"}, StreamEnds(how) PROVE FiberRight(d)'
  BY <1>0, <1>14 DEF StreamEnds
<1>15. CASE StreamInterrupted
  BY <1>0, <1>15 DEF StreamInterrupted
<1>16. ASSUME NEW c \in Calls, NEW r \in {"completed", "error"}, ToolReturns(c, r)
      PROVE  FiberRight(d)'
  BY <1>0, <1>16 DEF ToolReturns
<1>17. ASSUME NEW c \in Calls, NEW why \in {"declined", "defect"}, ToolFails(c, why)
      PROVE  FiberRight(d)'
  BY <1>0, <1>17 DEF ToolFails
<1>18. ASSUME NEW c \in Calls, PublishResult(c) PROVE FiberRight(d)'
  BY <1>0, <1>18, CommitOthers, CommitOwn, EventTypes DEF PublishResult, PermitFree
<1>19. ASSUME NEW c \in Calls, LateResult(c) PROVE FiberRight(d)'
  BY <1>0, <1>19 DEF LateResult
<1>20. ASSUME NEW c \in Calls, FailNext(c) PROVE FiberRight(d)'
  BY <1>0, <1>20 DEF FailNext, Unsettled
<1>21. CASE FailDone
  BY <1>0, <1>21 DEF FailDone
<1>22. CASE Exited
  BY <1>0, <1>22 DEF Exited
<1>23. CASE FailAssistant
  BY <1>0, <1>23 DEF FailAssistant
<1>24. ASSUME NEW c \in Calls, InterruptTool(c) PROVE FiberRight(d)'
  BY <1>0, <1>24 DEF InterruptTool
<1>25. CASE Cleared
  BY <1>0, <1>25 DEF Cleared
<1>26. CASE AwaitTools
  BY <1>0, <1>26 DEF AwaitTools
<1>27. CASE StepEnd
  BY <1>0, <1>27 DEF StepEnd
<1>28. CASE Close
  BY <1>0, <1>28 DEF Close
<1>29. CASE TurnReturns
  BY <1>0, <1>29 DEF TurnReturns, Fresh, NoEntry
<1>30. CASE Interrupt
  BY <1>0, <1>30 DEF Interrupt
<1>31. CASE RunInterrupted
  BY <1>0, <1>31 DEF RunInterrupted, Fresh, NoEntry
<1>32. CASE Crash
  BY <1>0, <1>32 DEF Crash, Fresh, NoEntry
<1>33. CASE UNCHANGED vars
  BY <1>0, <1>33 DEF vars
<1> QED
  BY <1>1, <1>2, <1>3, <1>4, <1>5, <1>6, <1>7, <1>8, <1>9, <1>10, <1>11, <1>12, <1>13,
    <1>14, <1>15, <1>16, <1>17, <1>18, <1>19, <1>20, <1>21, <1>22, <1>23, <1>24, <1>25,
    <1>26, <1>27, <1>28, <1>29, <1>30, <1>31, <1>32, <1>33 DEF Next, Proceeds, Provides,
    Publishes

-----------------------------------------------------------------------------
(* What the log says of a call, and what each stage leaves settled.         *)

\* Whoever settles a call next is the first to.
LEMMA NextSettle ==
  ASSUME TurnAssumption, IInv, [Next]_vars
  PROVE  \A d \in Calls \ refused' : SettleRight(d)'
<1> SUFFICES ASSUME NEW d \in Calls, d \notin refused' PROVE SettleRight(d)'
  OBVIOUS
<1>0. TypeOK /\ PlaceRight /\ OutRight /\ EntryRight(d) /\ FiberRight(d)
      /\ (d \notin refused => SettleRight(d))
  BY DEF IInv
<1> USE DEF SettleRight, IsOpen, EntryRight, FiberRight, InTurn, Failing, Failure,
            FailingRight, Event, Quiet, GoTo, FailTools, NoFibers, durable, turn, tools,
            Marks, InStream, TypeOK, EntryState, OutRight, PlaceRight
<1>1. CASE Run
  BY <1>0, <1>1 DEF Run
<1>2. ASSUME NEW c \in Calls, FailInterrupted(c) PROVE SettleRight(d)'
  BY <1>0, <1>2, CommitOthers, CommitOwn, EventTypes DEF FailInterrupted
<1>3. CASE Recovered
  BY <1>0, <1>3 DEF Recovered
<1>4. CASE Request
  BY <1>0, <1>4 DEF Request, NoEntry
<1>5. CASE StartAssistant
  BY <1>0, <1>5 DEF StartAssistant, Streams
<1>6. ASSUME NEW c \in Calls, StartToolInput(c) PROVE SettleRight(d)'
  BY <1>0, <1>6 DEF StartToolInput, Streams
<1>7. ASSUME NEW c \in Calls, NEW h \in BOOLEAN, ToolCall(c, h) PROVE SettleRight(d)'
  BY <1>0, <1>7 DEF ToolCall, Streams
<1>8. ASSUME NEW c \in Calls, NEW r \in {"completed", "error"}, HostedResult(c, r)
      PROVE  SettleRight(d)'
  BY <1>0, <1>8 DEF HostedResult, Streams
<1>9. CASE StepFinish
  BY <1>0, <1>9 DEF StepFinish, Streams
<1>10. CASE ProviderError
  BY <1>0, <1>10 DEF ProviderError, Streams
<1>11. CASE Commit
  <2>0. out \in Recordable /\ Commits(out) /\ out = Event(out.name, out.call)
    BY <1>0, <1>11, EventTypes, MarkIs DEF Commit, Recordable, DrainEvents
  <2>1. CASE d # out.call
    BY <1>0, <2>0, <2>1, <1>11, CommitOthers DEF Commit
  <2>2. CASE d = out.call /\ out.name \in {"completed", "error"}
    BY <1>0, <2>0, <2>2, <1>11, CommitOwn DEF Commit
  <2>3. CASE d = out.call /\ out.name \notin {"completed", "error"}
    BY <1>0, <2>0, <2>3, <1>11, CommitOwn DEF Commit, DrainEvents
  <2> QED BY <2>1, <2>2, <2>3
<1>12. CASE RunTool
  BY <1>0, <1>12, MarkIs DEF RunTool
<1>13. CASE RefuseTool
  BY <1>0, <1>13 DEF RefuseTool
<1>14. ASSUME NEW how \in {"success", "failure", "died"}, StreamEnds(how) PROVE SettleRight(d)'
  BY <1>0, <1>14 DEF StreamEnds
<1>15. CASE StreamInterrupted
  BY <1>0, <1>15 DEF StreamInterrupted
<1>16. ASSUME NEW c \in Calls, NEW r \in {"completed", "error"}, ToolReturns(c, r)
      PROVE  SettleRight(d)'
  BY <1>0, <1>16 DEF ToolReturns
<1>17. ASSUME NEW c \in Calls, NEW why \in {"declined", "defect"}, ToolFails(c, why)
      PROVE  SettleRight(d)'
  BY <1>0, <1>17 DEF ToolFails
<1>18. ASSUME NEW c \in Calls, PublishResult(c) PROVE SettleRight(d)'
  BY <1>0, <1>18, CommitOthers, CommitOwn, EventTypes DEF PublishResult, PermitFree
<1>19. ASSUME NEW c \in Calls, LateResult(c) PROVE SettleRight(d)'
  BY <1>0, <1>19 DEF LateResult
<1>20. ASSUME NEW c \in Calls, FailNext(c) PROVE SettleRight(d)'
  BY <1>0, <1>20 DEF FailNext, Unsettled
<1>21. CASE FailDone
  BY <1>0, <1>21 DEF FailDone
<1>22. CASE Exited
  BY <1>0, <1>22 DEF Exited
<1>23. CASE FailAssistant
  BY <1>0, <1>23 DEF FailAssistant
<1>24. ASSUME NEW c \in Calls, InterruptTool(c) PROVE SettleRight(d)'
  BY <1>0, <1>24 DEF InterruptTool
<1>25. CASE Cleared
  BY <1>0, <1>25 DEF Cleared
<1>26. CASE AwaitTools
  BY <1>0, <1>26 DEF AwaitTools
<1>27. CASE StepEnd
  BY <1>0, <1>27 DEF StepEnd
<1>28. CASE Close
  BY <1>0, <1>28 DEF Close
<1>29. CASE TurnReturns
  BY <1>0, <1>29 DEF TurnReturns, Fresh, NoEntry
<1>30. CASE Interrupt
  BY <1>0, <1>30 DEF Interrupt
<1>31. CASE RunInterrupted
  BY <1>0, <1>31 DEF RunInterrupted, Fresh, NoEntry
<1>32. CASE Crash
  BY <1>0, <1>32 DEF Crash, Fresh, NoEntry
<1>33. CASE UNCHANGED vars
  BY <1>0, <1>33 DEF vars
<1> QED
  BY <1>1, <1>2, <1>3, <1>4, <1>5, <1>6, <1>7, <1>8, <1>9, <1>10, <1>11, <1>12, <1>13,
    <1>14, <1>15, <1>16, <1>17, <1>18, <1>19, <1>20, <1>21, <1>22, <1>23, <1>24, <1>25,
    <1>26, <1>27, <1>28, <1>29, <1>30, <1>31, <1>32, <1>33 DEF Next, Proceeds, Provides,
    Publishes

\* Why a call is running stays accounted for.
LEMMA NextRunning ==
  ASSUME TurnAssumption, IInv, [Next]_vars
  PROVE  \A d \in Calls \ refused' : RunningRight(d)'
<1> SUFFICES ASSUME NEW d \in Calls, d \notin refused' PROVE RunningRight(d)'
  OBVIOUS
<1>0. TypeOK /\ PlaceRight /\ OutRight /\ EntryRight(d) /\ FiberRight(d) /\ DoneRight
      /\ (d \notin refused => RunningRight(d))
  BY DEF IInv
<1> USE DEF RunningRight, EntryRight, FiberRight, InTurn, Failing, Failure, FailingRight,
            Event, Quiet, GoTo, FailTools, NoFibers, durable, turn, tools, Marks, InStream,
            TypeOK, EntryState, OutRight, PlaceRight
<1>1. CASE Run
  BY <1>0, <1>1 DEF Run
<1>2. ASSUME NEW c \in Calls, FailInterrupted(c) PROVE RunningRight(d)'
  BY <1>0, <1>2, CommitOthers, CommitOwn, EventTypes DEF FailInterrupted
<1>3. CASE Recovered
  BY <1>0, <1>3 DEF Recovered, IsOpen
<1>4. CASE Request
  BY <1>0, <1>4 DEF Request, NoEntry
<1>5. CASE StartAssistant
  BY <1>0, <1>5 DEF StartAssistant, Streams
<1>6. ASSUME NEW c \in Calls, StartToolInput(c) PROVE RunningRight(d)'
  BY <1>0, <1>6 DEF StartToolInput, Streams
<1>7. ASSUME NEW c \in Calls, NEW h \in BOOLEAN, ToolCall(c, h) PROVE RunningRight(d)'
  BY <1>0, <1>7 DEF ToolCall, Streams
<1>8. ASSUME NEW c \in Calls, NEW r \in {"completed", "error"}, HostedResult(c, r)
      PROVE  RunningRight(d)'
  BY <1>0, <1>8 DEF HostedResult, Streams
<1>9. CASE StepFinish
  BY <1>0, <1>9 DEF StepFinish, Streams
<1>10. CASE ProviderError
  BY <1>0, <1>10 DEF ProviderError, Streams
<1>11. CASE Commit
  <2>0. out \in Recordable /\ Commits(out) /\ out = Event(out.name, out.call)
    BY <1>0, <1>11, EventTypes, MarkIs DEF Commit, TypeOK, OutRight, Recordable, DrainEvents
  <2>1. CASE d # out.call
    BY <1>0, <2>0, <2>1, <1>11, CommitOthers
       DEF Commit, RunningRight, EntryRight, InTurn, Marks, Event, Quiet, turn, tools
  <2>2. CASE d = out.call /\ out.name = "called"
    <3>1. Marks("called", d) /\ pc = "stream" /\ InStream
      BY <1>0, <2>0, <2>2 DEF Marks, OutRight, PlaceRight, InStream, InTurn
    <3>2. step < LastStep /\ (entry[d].hosted => d \in hosted')
      BY <1>0, <2>0, <2>2, <3>1, CommitOwn DEF TypeOK, TurnAssumption
    <3>3. ~entry[d].settled /\ entry[d].called
      BY <1>0, <3>1, <3>2 DEF EntryRight
    <3>4. ~entry[d].hosted => out' = Event("run", d)
      BY <2>2, <1>11 DEF Commit
    <3> QED BY <3>1, <3>2, <3>3, <3>4, <1>11 DEF Commit, RunningRight, Marks, turn, InTurn
  <2>3. CASE d = out.call /\ out.name # "called"
    BY <1>0, <2>0, <2>3, <1>11, CommitOwn
       DEF Commit, RunningRight, EntryRight, OutRight, InTurn, Marks, Event, Quiet, IsOpen, turn, tools,
           TypeOK, DrainEvents
  <2> QED BY <2>1, <2>2, <2>3
<1>12. CASE RunTool
  BY <1>0, <1>12, MarkIs DEF RunTool
<1>13. CASE RefuseTool
  BY <1>0, <1>13 DEF RefuseTool
<1>14. ASSUME NEW how \in {"success", "failure", "died"}, StreamEnds(how)
      PROVE  RunningRight(d)'
  BY <1>0, <1>14 DEF StreamEnds
<1>15. CASE StreamInterrupted
  BY <1>0, <1>15 DEF StreamInterrupted
<1>16. ASSUME NEW c \in Calls, NEW r \in {"completed", "error"}, ToolReturns(c, r)
      PROVE  RunningRight(d)'
  BY <1>0, <1>16 DEF ToolReturns
<1>17. ASSUME NEW c \in Calls, NEW why \in {"declined", "defect"}, ToolFails(c, why)
      PROVE  RunningRight(d)'
  BY <1>0, <1>17 DEF ToolFails
<1>18. ASSUME NEW c \in Calls, PublishResult(c) PROVE RunningRight(d)'
  BY <1>0, <1>18, CommitOthers, CommitOwn, EventTypes DEF PublishResult, PermitFree, IsOpen
<1>19. ASSUME NEW c \in Calls, LateResult(c) PROVE RunningRight(d)'
  BY <1>0, <1>19 DEF LateResult
<1>20. ASSUME NEW c \in Calls, FailNext(c) PROVE RunningRight(d)'
  BY <1>0, <1>20 DEF FailNext, Unsettled
<1>21. CASE FailDone
  BY <1>0, <1>21 DEF FailDone
<1>22. CASE Exited
  BY <1>0, <1>22 DEF Exited
<1>23. CASE FailAssistant
  BY <1>0, <1>23 DEF FailAssistant
<1>24. ASSUME NEW c \in Calls, InterruptTool(c) PROVE RunningRight(d)'
  BY <1>0, <1>24 DEF InterruptTool
<1>25. CASE Cleared
  BY <1>0, <1>25 DEF Cleared
<1>26. CASE AwaitTools
  BY <1>0, <1>26 DEF AwaitTools
<1>27. CASE StepEnd
  BY <1>0, <1>27 DEF StepEnd
<1>28. CASE Close
  BY <1>0, <1>28 DEF Close
<1>29. CASE TurnReturns
  BY <1>0, <1>29 DEF TurnReturns, Fresh, Continues, DoneRight, RunningSettled
<1>30. CASE Interrupt
  BY <1>0, <1>30 DEF Interrupt
<1>31. CASE RunInterrupted
  BY <1>0, <1>31 DEF RunInterrupted, Fresh, NoEntry
<1>32. CASE Crash
  BY <1>0, <1>32 DEF Crash, Fresh, NoEntry
<1>33. CASE UNCHANGED vars
  BY <1>0, <1>33 DEF vars
<1> QED
  BY <1>1, <1>2, <1>3, <1>4, <1>5, <1>6, <1>7, <1>8, <1>9, <1>10, <1>11, <1>12, <1>13,
    <1>14, <1>15, <1>16, <1>17, <1>18, <1>19, <1>20, <1>21, <1>22, <1>23, <1>24, <1>25,
    <1>26, <1>27, <1>28, <1>29, <1>30, <1>31, <1>32, <1>33 DEF Next, Proceeds, Provides,
    Publishes

\* What each stage after the stream finds settled.
LEMMA NextDone ==
  ASSUME TurnAssumption, IInv, [Next]_vars
  PROVE  DoneRight'
<1>0. /\ TypeOK /\ PlaceRight /\ OutRight /\ DoneRight
      /\ \A c \in Calls : EntryRight(c) /\ FiberRight(c)
      /\ \A c \in Calls \ refused : RunningRight(c)
  BY DEF IInv
<1>s. InTurn /\ (AllSettled \/ (LocalSettled /\ HostedSettled)) => RunningSettled
  BY <1>0 DEF InTurn, AllSettled, LocalSettled, HostedSettled, RunningSettled, RunningRight,
     EntryRight
<1> USE DEF DoneRight, AllSettled, HostedSettled, RunningSettled, LocalSettled, InTurn,
            Failing, durable, turn, tools
<1>1. CASE Run
  BY <1>0, <1>1 DEF Run, PlaceRight, OutRight, GoTo, FailTools, FailingRight, Failure,
     EntryRight, NoFibers
<1>2. ASSUME NEW c \in Calls, FailInterrupted(c) PROVE DoneRight'
  <2>1. /\ refused' = refused
        /\ \A d \in Calls : part'[d] = "running" => part[d] = "running"
    BY <1>0, <1>2, SettlingKeeps DEF FailInterrupted
  <2>2. \A d \in Calls :
          /\ entry'[d].known = entry[d].known
          /\ entry'[d].hosted = entry[d].hosted
          /\ entry[d].settled => entry'[d].settled
    BY <1>0, <1>2 DEF FailInterrupted, TypeOK, EntryState, turn
  <2> QED BY <1>0, <2>1, <2>2, <1>2
          DEF FailInterrupted, DoneRight, AllSettled, HostedSettled, RunningSettled, LocalSettled, InTurn,
              Failing, turn
<1>3. CASE Recovered
  BY <1>0, <1>3 DEF Recovered
<1>4. CASE Request
  BY <1>0, <1>4 DEF Request, PlaceRight, OutRight, GoTo, FailTools, FailingRight, Failure,
     EntryRight, NoFibers
<1>5. CASE StartAssistant
  BY <1>0, <1>5 DEF StartAssistant, Streams
<1>6. ASSUME NEW c \in Calls, StartToolInput(c) PROVE DoneRight'
  BY <1>0, <1>6 DEF StartToolInput, Streams
<1>7. ASSUME NEW c \in Calls, NEW h \in BOOLEAN, ToolCall(c, h) PROVE DoneRight'
  BY <1>0, <1>7 DEF ToolCall, Streams, PlaceRight, OutRight, GoTo, FailTools, FailingRight,
     Failure, EntryRight, NoFibers
<1>8. ASSUME NEW c \in Calls, NEW r \in {"completed", "error"}, HostedResult(c, r)
      PROVE  DoneRight'
  BY <1>0, <1>8 DEF HostedResult, Streams
<1>9. CASE StepFinish
  BY <1>0, <1>9 DEF StepFinish, Streams
<1>10. CASE ProviderError
  BY <1>0, <1>10 DEF ProviderError, Streams
<1>11. CASE Commit
  <2>0. out \in Recordable /\ Commits(out) /\ out = Event(out.name, out.call) /\ turn' = turn /\ pc' = pc
    BY <1>0, <1>11, EventTypes, MarkIs DEF Commit, TypeOK, OutRight, Recordable, DrainEvents
  <2>1. CASE out.name \in {"input", "called"}
    BY <1>0, <2>0, <2>1 DEF OutRight, PlaceRight
  <2>2. CASE out.name \in {"completed", "error"}
    <3>1. refused' = refused /\ \A d \in Calls : part'[d] = "running" => part[d] = "running"
      BY <1>0, <2>0, <2>2, SettlingKeeps DEF Recordable
    <3> QED BY <1>0, <2>0, <3>1
  <2>3. CASE out.name \notin {"input", "called", "completed", "error"}
    BY <1>0, <2>0, <2>3 DEF Commits, Projected
  <2> QED BY <2>1, <2>2, <2>3
<1>12. CASE RunTool
  BY <1>0, <1>12 DEF RunTool, PlaceRight, OutRight, GoTo, FailTools, FailingRight, Failure,
     EntryRight, NoFibers
<1>13. CASE RefuseTool
  BY <1>0, <1>13 DEF RefuseTool, PlaceRight, OutRight, GoTo, FailTools, FailingRight, Failure,
     EntryRight, NoFibers
<1>14. ASSUME NEW how \in {"success", "failure", "died"}, StreamEnds(how) PROVE DoneRight'
  BY <1>0, <1>14 DEF StreamEnds, PlaceRight, OutRight, GoTo, FailTools, FailingRight, Failure,
     EntryRight, NoFibers
<1>15. CASE StreamInterrupted
  BY <1>0, <1>15 DEF StreamInterrupted, PlaceRight, OutRight, GoTo, FailTools, FailingRight,
     Failure, EntryRight, NoFibers
<1>16. ASSUME NEW c \in Calls, NEW r \in {"completed", "error"}, ToolReturns(c, r)
      PROVE  DoneRight'
  BY <1>0, <1>16 DEF ToolReturns
<1>17. ASSUME NEW c \in Calls, NEW why \in {"declined", "defect"}, ToolFails(c, why)
      PROVE  DoneRight'
  BY <1>0, <1>17 DEF ToolFails
<1>18. ASSUME NEW c \in Calls, PublishResult(c) PROVE DoneRight'
  <2>1. /\ refused' = refused
        /\ \A d \in Calls : part'[d] = "running" => part[d] = "running"
    BY <1>0, <1>18, SettlingKeeps DEF PublishResult
  <2>2. \A d \in Calls :
          /\ entry'[d].known = entry[d].known
          /\ entry'[d].hosted = entry[d].hosted
          /\ entry[d].settled => entry'[d].settled
    BY <1>0, <1>18 DEF PublishResult, TypeOK, EntryState
  <2> QED BY <1>0, <2>1, <2>2, <1>18
          DEF PublishResult, DoneRight, AllSettled, HostedSettled, RunningSettled, LocalSettled, InTurn,
              Failing
<1>19. ASSUME NEW c \in Calls, LateResult(c) PROVE DoneRight'
  BY <1>0, <1>19 DEF LateResult
<1>20. ASSUME NEW c \in Calls, FailNext(c) PROVE DoneRight'
  <2>1. \A d \in Calls :
          /\ entry'[d].known = entry[d].known
          /\ entry'[d].hosted = entry[d].hosted
          /\ entry[d].settled => entry'[d].settled
    BY <1>0, <1>20 DEF FailNext, TypeOK, EntryState
  <2> QED BY <1>0, <2>1, <1>20
          DEF FailNext, DoneRight, AllSettled, HostedSettled, RunningSettled, LocalSettled, InTurn,
              Failing, durable
<1>21. CASE FailDone
  <2>1. fails.all => AllSettled
    BY <1>21 DEF FailDone, Unsettled, AllSettled
  <2>2. HostedSettled
    BY <1>0, <1>21 DEF FailDone, Unsettled, HostedSettled, EntryRight
  <2>3. pc' = fails.to /\ fails' = fails /\ entry' = entry /\ part' = part /\ refused' = refused
        /\ flags' = flags /\ exit' = exit /\ settled' = settled
    BY <1>21 DEF FailDone, GoTo, durable
  <2>4. RunningSettled \/ exit = "died" \/ fails.to # "return"
    BY <1>0, <1>s, <2>1, <2>2, <1>21 DEF FailDone, PlaceRight, FailingRight, Failure
  <2> QED BY <1>0, <2>1, <2>2, <2>3, <2>4, <1>21
          DEF FailDone, DoneRight, PlaceRight, FailingRight, Failure, Failing, AllSettled, HostedSettled,
              RunningSettled, LocalSettled, InTurn
<1>22. CASE Exited
  BY <1>0, <1>22 DEF Exited, PlaceRight, OutRight, GoTo, FailTools, FailingRight, Failure,
     EntryRight, NoFibers
<1>23. CASE FailAssistant
  <2>1. flags'.providerFailed = flags.providerFailed
    BY <1>0, <1>23 DEF FailAssistant, TypeOK, FlagState
  <2>2. pc' \in {pc, "await", "stepEnd"} /\ (pc' = "stepEnd" => pc = "failActive") /\ fails' = fails
    BY <1>23 DEF FailAssistant, GoTo
  <2> QED BY <1>0, <2>1, <2>2, <1>23
          DEF FailAssistant, DoneRight, AllSettled, HostedSettled, RunningSettled, LocalSettled, InTurn,
              Failing, PlaceRight, durable
<1>24. ASSUME NEW c \in Calls, InterruptTool(c) PROVE DoneRight'
  BY <1>0, <1>24 DEF InterruptTool, PlaceRight, OutRight, GoTo, FailTools, FailingRight,
     Failure, EntryRight, NoFibers
<1>25. CASE Cleared
  BY <1>0, <1>25 DEF Cleared, PlaceRight, OutRight, GoTo, FailTools, FailingRight, Failure,
     EntryRight, NoFibers
<1>26. CASE AwaitTools
  <2>1. ASSUME settled' = "success"
        PROVE  LocalSettled
    BY <1>0, <2>1, <1>26
       DEF AwaitTools, LocalSettled, RunningRight, PlaceRight, InTurn, NoFibers, Marks, Event, Quiet
  <2> QED BY <1>0, <2>1, <1>26
          DEF AwaitTools, DoneRight, AllSettled, HostedSettled, RunningSettled, LocalSettled, InTurn,
              Failing, PlaceRight, FailTools, GoTo, durable
<1>27. CASE StepEnd
  BY <1>0, <1>27 DEF StepEnd, PlaceRight, OutRight, GoTo, FailTools, FailingRight, Failure,
     EntryRight, NoFibers
<1>28. CASE Close
  <2>1. pc' = "return" => exit # "success" /\ ~flags.providerFailed
    BY <1>28 DEF Close, GoTo, FailTools
  <2>2. HostedSettled \/ exit \in {"success", "died"} \/ flags.providerFailed \/ AllSettled
    BY <1>0, <1>28 DEF Close, PlaceRight, TypeOK
  <2>3. LocalSettled \/ AllSettled
    BY <1>0, <1>28 DEF Close, PlaceRight
  <2>4. InTurn
    BY <1>28 DEF Close
  <2>5. pc' = "return" => RunningSettled \/ exit = "died"
    BY <1>s, <2>1, <2>2, <2>3, <2>4
  <2> QED BY <1>0, <2>1, <2>5, <1>28 DEF Close, PlaceRight, GoTo, FailTools
<1>29. CASE TurnReturns
  BY <1>0, <1>29 DEF TurnReturns, Fresh, PlaceRight, OutRight, GoTo, FailTools, FailingRight,
     Failure, EntryRight, NoFibers
<1>30. CASE Interrupt
  BY <1>0, <1>30 DEF Interrupt
<1>31. CASE RunInterrupted
  BY <1>0, <1>31 DEF RunInterrupted, Fresh
<1>32. CASE Crash
  BY <1>0, <1>32 DEF Crash, Fresh
<1>33. CASE UNCHANGED vars
  BY <1>0, <1>33 DEF vars
<1> QED
  BY <1>1, <1>2, <1>3, <1>4, <1>5, <1>6, <1>7, <1>8, <1>9, <1>10, <1>11, <1>12, <1>13,
    <1>14, <1>15, <1>16, <1>17, <1>18, <1>19, <1>20, <1>21, <1>22, <1>23, <1>24, <1>25,
    <1>26, <1>27, <1>28, <1>29, <1>30, <1>31, <1>32, <1>33 DEF Next, Proceeds, Provides,
    Publishes

-----------------------------------------------------------------------------
(* The Step events and the assistant message.                               *)

\* The flags and the Step events agree.
LEMMA NextSteps ==
  ASSUME TurnAssumption, IInv, [Next]_vars
  PROVE  (InTurn => StepsRight)'
<1>0. TypeOK /\ PlaceRight /\ OutRight /\ DoneRight /\ (InTurn => StepsRight)
  BY DEF IInv
<1> USE DEF StepsRight, Closed, InTurn, Failing, Failure, FailingRight, Event, Quiet, GoTo,
            FailTools, NoFibers, durable, turn, tools, Marks, InStream, TypeOK, EntryState,
            OutRight, PlaceRight, FlagState
<1>1. CASE Run
  BY <1>0, <1>1 DEF Run
<1>2. ASSUME NEW c \in Calls, FailInterrupted(c) PROVE (InTurn => StepsRight)'
  BY <1>0, <1>2, CommitSteps, EventTypes DEF FailInterrupted
<1>3. CASE Recovered
  BY <1>0, <1>3 DEF Recovered
<1>4. CASE Request
  BY <1>0, <1>4 DEF Request, NoFlags
<1>5. CASE StartAssistant
  BY <1>0, <1>5 DEF StartAssistant, Streams
<1>6. ASSUME NEW c \in Calls, StartToolInput(c) PROVE (InTurn => StepsRight)'
  BY <1>0, <1>6 DEF StartToolInput, Streams
<1>7. ASSUME NEW c \in Calls, NEW h \in BOOLEAN, ToolCall(c, h) PROVE (InTurn => StepsRight)'
  BY <1>0, <1>7 DEF ToolCall, Streams
<1>8. ASSUME NEW c \in Calls, NEW r \in {"completed", "error"}, HostedResult(c, r)
      PROVE  (InTurn => StepsRight)'
  BY <1>0, <1>8 DEF HostedResult, Streams
<1>9. CASE StepFinish
  BY <1>0, <1>9 DEF StepFinish, Streams
<1>10. CASE ProviderError
  BY <1>0, <1>10 DEF ProviderError, Streams
<1>11. CASE Commit
  <2>0. out \in Recordable /\ Commits(out)
    BY <1>0, <1>11, EventTypes DEF Commit, TypeOK, OutRight, Recordable, DrainEvents
  <2>1. out'.name \in {"none", "run"} /\ UNCHANGED <<pc, flags, fails, exit, settled>>
    BY <1>11 DEF Commit, Event, Quiet, turn
  <2>2. CASE out.name \in {"started", "ended", "failed"}
    BY <1>0, <2>0, <2>1, <2>2, CommitSteps DEF StepsRight, Closed, InTurn, Failing
  <2>3. CASE out.name \notin {"started", "ended", "failed"}
    BY <1>0, <2>0, <2>1, <2>3, CommitSteps DEF StepsRight, Closed, InTurn, Failing
  <2> QED BY <2>2, <2>3
<1>12. CASE RunTool
  BY <1>0, <1>12 DEF RunTool
<1>13. CASE RefuseTool
  BY <1>0, <1>13 DEF RefuseTool
<1>14. ASSUME NEW how \in {"success", "failure", "died"}, StreamEnds(how)
      PROVE  (InTurn => StepsRight)'
  BY <1>0, <1>14 DEF StreamEnds
<1>15. CASE StreamInterrupted
  BY <1>0, <1>15 DEF StreamInterrupted
<1>16. ASSUME NEW c \in Calls, NEW r \in {"completed", "error"}, ToolReturns(c, r)
      PROVE  (InTurn => StepsRight)'
  BY <1>0, <1>16 DEF ToolReturns
<1>17. ASSUME NEW c \in Calls, NEW why \in {"declined", "defect"}, ToolFails(c, why)
      PROVE  (InTurn => StepsRight)'
  BY <1>0, <1>17 DEF ToolFails
<1>18. ASSUME NEW c \in Calls, PublishResult(c) PROVE (InTurn => StepsRight)'
  <2>1. UNCHANGED <<pc, step, out, flags, fails, exit, settled, failure, interrupted>>
    BY <1>18 DEF PublishResult
  <2>2. /\ Event(fiber[c], c) \in Recordable /\ Commits(Event(fiber[c], c))
        /\ Event(fiber[c], c).name \notin {"started", "ended", "failed"}
    BY <1>0, <1>18, EventTypes DEF PublishResult
  <2>3. steps' = steps
    BY <1>0, <2>2, CommitSteps
  <2> QED BY <1>0, <2>1, <2>3
<1>19. ASSUME NEW c \in Calls, LateResult(c) PROVE (InTurn => StepsRight)'
  BY <1>0, <1>19 DEF LateResult
<1>20. ASSUME NEW c \in Calls, FailNext(c) PROVE (InTurn => StepsRight)'
  BY <1>0, <1>20 DEF FailNext
<1>21. CASE FailDone
  BY <1>0, <1>21 DEF FailDone
<1>22. CASE Exited
  BY <1>0, <1>22 DEF Exited
<1>23. CASE FailAssistant
  <2>0. steps' = steps /\ exit' = exit /\ settled' = settled /\ fails' = fails /\ InTurn
    BY <1>23 DEF FailAssistant, GoTo, durable, InTurn
  <2>1. CASE flags' = flags /\ out' = out /\ (pc = "failAssistant" => flags.failed)
             /\ (pc = "failActive" => flags.failed \/ ~flags.active)
    BY <1>0, <2>0, <2>1, <1>23
       DEF FailAssistant, GoTo, StepsRight, Closed, Failing, PlaceRight, Quiet, Event
  <2>2. CASE /\ flags' = [flags EXCEPT !.started = TRUE, !.active = TRUE]
             /\ ~flags.failed /\ ~flags.started
             /\ out' = Event("started", NoCall) /\ pc' = pc
    BY <1>0, <2>0, <2>2, <1>23
       DEF FailAssistant, StepsRight, Closed, Failing, PlaceRight, Event, TypeOK, FlagState
  <2>3. CASE /\ flags' = [flags EXCEPT !.active = FALSE, !.failed = TRUE]
             /\ flags.started
             /\ out' = Event("failed", NoCall)
             /\ pc' = IF pc = "failAssistant" THEN "await" ELSE "stepEnd"
    BY <1>0, <2>0, <2>3, <1>23
       DEF FailAssistant, StepsRight, Closed, Failing, PlaceRight, Event, TypeOK, FlagState
  <2> QED BY <2>1, <2>2, <2>3, <1>23 DEF FailAssistant, GoTo
<1>24. ASSUME NEW c \in Calls, InterruptTool(c) PROVE (InTurn => StepsRight)'
  BY <1>0, <1>24 DEF InterruptTool
<1>25. CASE Cleared
  BY <1>0, <1>25 DEF Cleared
<1>26. CASE AwaitTools
  BY <1>0, <1>26 DEF AwaitTools
<1>27. CASE StepEnd
  BY <1>0, <1>27 DEF StepEnd
<1>28. CASE Close
  BY <1>0, <1>28 DEF Close
<1>29. CASE TurnReturns
  BY <1>0, <1>29 DEF TurnReturns, Fresh
<1>30. CASE Interrupt
  BY <1>0, <1>30 DEF Interrupt
<1>31. CASE RunInterrupted
  BY <1>0, <1>31 DEF RunInterrupted, Fresh
<1>32. CASE Crash
  BY <1>0, <1>32 DEF Crash, Fresh
<1>33. CASE UNCHANGED vars
  BY <1>0, <1>33 DEF vars
<1> QED
  BY <1>1, <1>2, <1>3, <1>4, <1>5, <1>6, <1>7, <1>8, <1>9, <1>10, <1>11, <1>12, <1>13,
    <1>14, <1>15, <1>16, <1>17, <1>18, <1>19, <1>20, <1>21, <1>22, <1>23, <1>24, <1>25,
    <1>26, <1>27, <1>28, <1>29, <1>30, <1>31, <1>32, <1>33 DEF Next, Proceeds, Provides,
    Publishes

\* A step changes the log by one event, or not at all.
LEMMA StepCommits ==
  ASSUME TurnAssumption, IInv, [Next]_vars
  PROVE  \/ UNCHANGED <<part, settlements, refused>>
         \/ \E e \in Recordable : Commits(e)
<1>0. TypeOK /\ OutRight
  BY DEF IInv
<1> USE DEF durable
<1>1. CASE Run
  BY <1>1 DEF Run
<1>2. ASSUME NEW c \in Calls, FailInterrupted(c)
      PROVE  \/ UNCHANGED <<part, settlements, refused>>
             \/ \E e \in Recordable : Commits(e)
  BY <1>2, EventTypes DEF FailInterrupted
<1>3. CASE Recovered
  BY <1>3 DEF Recovered
<1>4. CASE Request
  BY <1>4 DEF Request
<1>5. CASE StartAssistant
  BY <1>5 DEF StartAssistant, Streams
<1>6. ASSUME NEW c \in Calls, StartToolInput(c)
      PROVE  \/ UNCHANGED <<part, settlements, refused>>
             \/ \E e \in Recordable : Commits(e)
  BY <1>6 DEF StartToolInput, Streams
<1>7. ASSUME NEW c \in Calls, NEW h \in BOOLEAN, ToolCall(c, h)
      PROVE  \/ UNCHANGED <<part, settlements, refused>>
             \/ \E e \in Recordable : Commits(e)
  BY <1>7 DEF ToolCall, Streams
<1>8. ASSUME NEW c \in Calls, NEW r \in {"completed", "error"}, HostedResult(c, r)
      PROVE  \/ UNCHANGED <<part, settlements, refused>>
             \/ \E e \in Recordable : Commits(e)
  BY <1>8 DEF HostedResult, Streams
<1>9. CASE StepFinish
  BY <1>9 DEF StepFinish, Streams
<1>10. CASE ProviderError
  BY <1>10 DEF ProviderError, Streams
<1>11. CASE Commit
  BY <1>0, <1>11, EventTypes DEF Commit, OutRight, TypeOK, Recordable, DrainEvents
<1>12. CASE RunTool
  BY <1>12 DEF RunTool
<1>13. CASE RefuseTool
  BY <1>13 DEF RefuseTool
<1>14. ASSUME NEW how \in {"success", "failure", "died"}, StreamEnds(how)
      PROVE  \/ UNCHANGED <<part, settlements, refused>>
             \/ \E e \in Recordable : Commits(e)
  BY <1>14 DEF StreamEnds
<1>15. CASE StreamInterrupted
  BY <1>15 DEF StreamInterrupted
<1>16. ASSUME NEW c \in Calls, NEW r \in {"completed", "error"}, ToolReturns(c, r)
      PROVE  \/ UNCHANGED <<part, settlements, refused>>
             \/ \E e \in Recordable : Commits(e)
  BY <1>16 DEF ToolReturns
<1>17. ASSUME NEW c \in Calls, NEW why \in {"declined", "defect"}, ToolFails(c, why)
      PROVE  \/ UNCHANGED <<part, settlements, refused>>
             \/ \E e \in Recordable : Commits(e)
  BY <1>17 DEF ToolFails
<1>18. ASSUME NEW c \in Calls, PublishResult(c)
      PROVE  \/ UNCHANGED <<part, settlements, refused>>
             \/ \E e \in Recordable : Commits(e)
  BY <1>18, EventTypes DEF PublishResult
<1>19. ASSUME NEW c \in Calls, LateResult(c)
      PROVE  \/ UNCHANGED <<part, settlements, refused>>
             \/ \E e \in Recordable : Commits(e)
  BY <1>19 DEF LateResult
<1>20. ASSUME NEW c \in Calls, FailNext(c)
      PROVE  \/ UNCHANGED <<part, settlements, refused>>
             \/ \E e \in Recordable : Commits(e)
  BY <1>20 DEF FailNext
<1>21. CASE FailDone
  BY <1>21 DEF FailDone
<1>22. CASE Exited
  BY <1>22 DEF Exited
<1>23. CASE FailAssistant
  BY <1>23 DEF FailAssistant
<1>24. ASSUME NEW c \in Calls, InterruptTool(c)
      PROVE  \/ UNCHANGED <<part, settlements, refused>>
             \/ \E e \in Recordable : Commits(e)
  BY <1>24 DEF InterruptTool
<1>25. CASE Cleared
  BY <1>25 DEF Cleared
<1>26. CASE AwaitTools
  BY <1>26 DEF AwaitTools
<1>27. CASE StepEnd
  BY <1>27 DEF StepEnd
<1>28. CASE Close
  BY <1>28 DEF Close
<1>29. CASE TurnReturns
  BY <1>29 DEF TurnReturns, Fresh
<1>30. CASE Interrupt
  BY <1>30 DEF Interrupt
<1>31. CASE RunInterrupted
  BY <1>31 DEF RunInterrupted, Fresh
<1>32. CASE Crash
  BY <1>32 DEF Crash, Fresh
<1>33. CASE UNCHANGED vars
  BY <1>33 DEF vars
<1> QED
  BY <1>1, <1>2, <1>3, <1>4, <1>5, <1>6, <1>7, <1>8, <1>9, <1>10, <1>11, <1>12, <1>13,
    <1>14, <1>15, <1>16, <1>17, <1>18, <1>19, <1>20, <1>21, <1>22, <1>23, <1>24, <1>25,
    <1>26, <1>27, <1>28, <1>29, <1>30, <1>31, <1>32, <1>33 DEF Next, Proceeds, Provides,
    Publishes

-----------------------------------------------------------------------------
(* The inductive invariant.                                                 *)

\* The inductive invariant holds at first.
LEMMA InitIInv ==
  ASSUME TurnAssumption, Init
  PROVE  IInv
<1>1. TypeOK
  BY InitTypes
<1>2. PlaceRight /\ OutRight /\ ~InTurn
  BY DEF Init, PlaceRight, OutRight, InTurn, NoEntry, Quiet, Event
<1>3. \A c \in Calls : EntryRight(c) /\ FiberRight(c) /\ SettleRight(c) /\ RunningRight(c)
  BY DEF Init, EntryRight, FiberRight, SettleRight, RunningRight, InStream, InTurn, NoEntry,
       Quiet,
         Event, Marks, IsOpen
<1>4. DoneRight
  BY DEF Init, DoneRight, Failing, InTurn
<1> QED BY <1>1, <1>2, <1>3, <1>4 DEF IInv

\* Every step keeps it.
LEMMA NextIInv ==
  ASSUME TurnAssumption, IInv, [Next]_vars
  PROVE  IInv'
BY NextTypes, NextPlace, NextOut, NextEntry, NextFiber, NextSettle, NextRunning, NextDone,
     NextSteps
   DEF IInv

\* What holds of the publisher, the fibers and the log at every place of a
\* turn holds in every reachable state.
THEOREM Inductive == Spec => []IInv
<1>1. Init => IInv
  BY InitIInv, TurnAssumption
<1>2. IInv /\ [Next]_vars => IInv'
  BY NextIInv, TurnAssumption
<1> QED BY <1>1, <1>2, PTL DEF Spec

-----------------------------------------------------------------------------
(* What the runs check, for every value of the constants.                   *)

\* Types: the projections, the publisher and the drain fiber keep the ranges
\* llm.ts and publish-llm-event.ts declare.
THEOREM TypeCorrect == Spec => []TypeOK
<1>1. IInv => TypeOK
  BY DEF IInv
<1> QED BY <1>1, Inductive, PTL

\* A call gets one result in the log, whoever settles it first: its tool, the
\* provider, the end of the turn, or the run after a crash.
THEOREM CallsSettleOnce == Spec => []SettledOnce
<1>1. IInv => SettledOnce
  BY DEF IInv, SettleRight, SettledOnce
<1> QED BY <1>1, Inductive, PTL

\* No provider request is made while a call of an earlier turn is running in
\* the history.
THEOREM NothingLeftBehind == Spec => []NoCallLeftBehind
<1>1. IInv => NoCallLeftBehind
  BY DEF IInv, RunningRight, InTurn, NoCallLeftBehind
<1> QED BY <1>1, Inductive, PTL

\* A turn that returns has settled its calls, but for a hosted result that an
\* interruption took back and for a stream that died.
THEOREM TurnsSettle == Spec => []TurnSettlesCalls
<1>1. ASSUME IInv, pc = "return", NEW c \in Calls, part[c] = "running", exit # "died", c \notin refused
      PROVE  exit = "interrupted" /\ c \in hosted
  <2>1. entry[c].settled /\ out = Quiet /\ InTurn
    <3>1. RunningSettled
      BY <1>1 DEF IInv, DoneRight
    <3>2. out = Quiet
      BY <1>1, MarkIs DEF IInv, OutRight, Quiet, Event, PlaceRight, TypeOK, DrainEvents
    <3> QED BY <1>1, <3>1, <3>2 DEF RunningSettled, InTurn
  <2>2. RunningRight(c)
    BY <1>1 DEF IInv
  <2> QED BY <1>1, <2>1, <2>2 DEF RunningRight, Marks, Quiet, Event
<1>2. IInv => TurnSettlesCalls
  BY <1>1 DEF TurnSettlesCalls
<1> QED BY <1>2, Inductive, PTL

\* A tool executes only while the log has its call running, unless a sibling
\* of it died.
THEOREM ToolsRunRecorded == Spec => []ExecutesWhileRunning
<1>1. IInv => ExecutesWhileRunning
  BY DEF IInv, FiberRight, ExecutesWhileRunning
<1> QED BY <1>1, Inductive, PTL

\* A turn that failed, was interrupted or finished its step has closed its
\* assistant message.
THEOREM AssistantsClose == Spec => []AssistantCloses
<1>1. ASSUME IInv, pc = "return"
      PROVE  AssistantCloses
  <2>1. StepsRight /\ out.name \notin {"ended", "failed"} /\ settled # "none"
    BY <1>1 DEF IInv, OutRight, PlaceRight, InTurn
  <2>2. exit = "interrupted" => settled = "interrupted"
    BY <1>1, <2>1 DEF IInv, PlaceRight
  <2> QED BY <1>1, <2>1, <2>2 DEF StepsRight, AssistantCloses, Closed, Failing
<1>2. IInv => AssistantCloses
  BY <1>1 DEF AssistantCloses
<1> QED BY <1>2, Inductive, PTL

\* What the log says of a settled call never changes again: a late result, a
\* repeated failure or the next run's recovery rewrites nothing.
SettlementIsFinal ==
  [][\A c \in Calls \ refused' : part[c] \in {"completed", "error"} => part'[c] = part[c]]_vars

THEOREM SettlementsStay == Spec => SettlementIsFinal
<1>1. ASSUME IInv, [Next]_vars, NEW c \in Calls, c \notin refused', part[c] \in {"completed", "error"}
      PROVE  part'[c] = part[c]
  <2>1. CASE UNCHANGED <<part, settlements, refused>>
    BY <2>1
  <2>2. ASSUME NEW e \in Recordable, Commits(e), c # e.call
        PROVE  part'[c] = part[c]
    BY <1>1, <2>2, CommitOthers DEF IInv
  <2>3. ASSUME NEW e \in Recordable, Commits(e), c = e.call
        PROVE  part'[c] = part[c]
    <3>1. TypeOK /\ IInv' /\ c \notin refused
      BY <1>1, <2>3, NextIInv, TurnAssumption, CommitOwn DEF IInv
    <3>2. SettleRight(c) /\ SettleRight(c)'
      BY <1>1, <3>1 DEF IInv
    <3>3. settlements[c] = 1 /\ settlements'[c] \in {1, 2}
      BY <1>1, <2>3, <3>1, <3>2, CommitOwn DEF SettleRight
    <3>4. e.name \notin {"completed", "error"} /\ ~(part'[c] \in {"pending", "running"})
      BY <2>3, <3>1, <3>2, <3>3, CommitOwn DEF SettleRight, IsOpen
    <3> QED BY <1>1, <2>3, <3>1, <3>4, CommitOwn
  <2> QED BY <1>1, <2>1, <2>2, <2>3, StepCommits, TurnAssumption
<1>2. IInv /\ [Next]_vars =>
        \A c \in Calls \ refused' : part[c] \in {"completed", "error"} => part'[c] = part[c]
  BY <1>1
<1> QED BY <1>2, Inductive, PTL DEF SettlementIsFinal, Spec

-----------------------------------------------------------------------------
(* Context epochs.  What the epoch and the conversation tell is kept        *)
(* together by what the drain fiber still knows of the tables it has read:  *)
(* unless the epoch was reset under it, the row is the one it read, no      *)
(* compaction is later than the one it found, and no update was told since  *)
(* the sequence it is about to write.                                       *)

UpdatesAfter(s) == {u \in Updates : u.seq > s}

\* What the attempt has rendered is what it wants told.
RenderedRight ==
  /\ drain.pc \in {"latest", "insert", "replaceLatest", "replace", "update"} =>
       drain.next \in Contexts /\ drain.wanted = drain.next
  /\ drain.pc \in {"insert", "replaceLatest", "replace", "history", "rows"} => drain.prepared \in Prepared
  /\ drain.pc \in {"insert", "replaceLatest", "replace"} => drain.prepared.baseline = drain.next

\* An attempt that has not begun to prepare has read and prepared nothing.
FreshRight ==
  /\ drain.pc \in {"attempt", "exists", "initialize"} => drain.prepared = None
  /\ drain.pc \in {"attempt", "exists", "initialize", "promote"} => drain.reads = {}
  /\ drain.pc \in {"attempt", "exists", "initialize", "promote", "latest", "insert"} => drain.stored = None

\* Nothing is about a sequence that has not come.
SequencesPast ==
  /\ epoch # None => epoch.seq <= seq
  /\ drain.pc \in {"insert", "replace"} => drain.prepared.seq <= seq
  /\ drain.compaction <= seq

\* The row it read is the row, unless that was reset.
StoredRight ==
  /\ drain.pc = "update" => drain.stored \in Epoch /\ drain.stored # None
  /\ drain.pc \in {"find", "update"} /\ drain.stored # None /\ epoch # None => epoch = drain.stored

\* So is the compaction it found the latest.
CompactionRight ==
  drain.pc = "find" /\ "compaction" \in drain.reads /\ epoch # None =>
    /\ \A m \in Compactions : m.seq <= drain.compaction
    /\ drain.compaction = 0 \/ \E m \in Compactions : m.seq = drain.compaction

\* After a compaction that the epoch has not taken in nothing is told.
CompactionStopsUpdates ==
  epoch # None =>
    \A m \in Compactions, u \in Updates : m.seq > epoch.seq => u.seq <= m.seq

\* An update is told only of an epoch that has taken in every compaction.
UpdateRight ==
  drain.pc = "update" /\ epoch # None => \A m \in Compactions : m.seq <= epoch.seq

\* Nothing was told since the sequence a new baseline is about to start at.
BaselineRight ==
  \/ drain.pc = "insert"
  \/ drain.pc = "replace" /\ epoch # None
  => UpdatesAfter(drain.prepared.seq) = {}

\* The request is made with the row's baseline, and what it should tell is what
\* the row says was told.
PreparedRight ==
  /\ drain.pc \in {"history", "rows"} \/ (drain.pc = "promote" /\ drain.prepared # None)
  /\ epoch # None
  => epoch = [baseline |-> drain.prepared.baseline, snapshot |-> drain.wanted, seq |-> drain.prepared.seq]

EpochInv ==
  /\ EpochTypeOK
  /\ RenderedRight
  /\ FreshRight
  /\ SequencesPast
  /\ StoredRight
  /\ CompactionRight
  /\ CompactionStopsUpdates
  /\ UpdateRight
  /\ BaselineRight
  /\ PreparedRight
  /\ EpochMatchesHistory

-----------------------------------------------------------------------------
(* The latest of some sequences.                                            *)

\* Bounded numbers have a largest, as their distances to the bound have a
\* smallest.
LEMMA LargestExists ==
  ASSUME NEW n \in Nat, NEW S, S \subseteq 0..n, S # {}
  PROVE  \E x \in S : \A y \in S : y <= x
<1> DEFINE T == {n - x : x \in S}
<1>1. T \subseteq Nat /\ T # {}
  <2>1. ASSUME NEW x \in S
        PROVE  n - x \in Nat
    OBVIOUS
  <2> QED BY <2>1
<1>2. PICK t \in T : \A u \in T : ~(<<u, t>> \in OpToRel(<, Nat))
  BY <1>1, WFMin, NatLessThanWellFounded
<1>3. PICK x \in S : t = n - x
  OBVIOUS
<1>4. ASSUME NEW y \in S
      PROVE  y <= x
  <2>1. n - y \in T /\ n - y \in Nat /\ t \in Nat
    BY <1>1
  <2>2. ~(n - y < t)
    BY <1>2, <2>1 DEF OpToRel
  <2> QED BY <1>3, <2>1, <2>2
<1> QED BY <1>4

\* latestCompaction: 0, or the sequence of a compaction that none is after.
LEMMA LatestIs ==
  ASSUME EpochTypeOK
  PROVE  /\ LatestCompaction \in Nat /\ LatestCompaction <= seq
         /\ \A m \in Compactions : m.seq <= LatestCompaction
         /\ LatestCompaction = 0 \/ \E m \in Compactions : m.seq = LatestCompaction
<1>1. CASE Compactions = {}
  BY <1>1 DEF LatestCompaction, EpochTypeOK
<1>2. CASE Compactions # {}
  <2> DEFINE S == {m.seq : m \in Compactions}
  <2>1. S \subseteq 0..seq /\ S # {} /\ seq \in Nat
    BY <1>2 DEF EpochTypeOK, Compactions
  <2>2. PICK x \in S : \A y \in S : y <= x
    BY <2>1, LargestExists
  <2>3. \A m \in Compactions : m.seq <= x
    BY <2>2
  <2>4. LatestCompaction = CHOOSE s \in S : \A m \in Compactions : m.seq <= s
    BY <1>2 DEF LatestCompaction
  <2>5. LatestCompaction \in S /\ \A m \in Compactions : m.seq <= LatestCompaction
    BY <2>3, <2>4
  <2> QED BY <2>1, <2>5
<1> QED BY <1>1, <1>2

\* The latest sequence is no message's but the one it is about to have.
LEMMA MessageTypes ==
  ASSUME EpochTypeOK
  PROVE  /\ seq \in Nat
         /\ \A m \in messages : m.seq \in Nat /\ m.seq <= seq
         /\ Compactions \subseteq messages /\ Updates \subseteq messages
BY DEF EpochTypeOK, Compactions, Updates

-----------------------------------------------------------------------------
(* What is told.                                                            *)

\* Nothing but the baseline is told before the first update.
LEMMA TellsBaseline ==
  ASSUME NEW context
  PROVE  Tells(context, {}, context)
BY DEF Tells, Told

\* An update later than all others, rendered against what they told, tells on.
LEMMA TellsUpdate ==
  ASSUME NEW baseline, NEW U, NEW context, Tells(baseline, U, context),
         NEW u, u.before = context, u.seq \in Nat,
         \A v \in U : v.seq \in Nat /\ v.seq < u.seq
  PROVE  Tells(baseline, U \cup {u}, u.after)
<1> DEFINE W == U \cup {u}
<1>1. Newest(W) = u
  <2>1. \A v \in W : v.seq <= u.seq
    OBVIOUS
  <2>2. \A w \in W : (\A v \in W : v.seq <= w.seq) => w = u
    OBVIOUS
  <2> QED BY <2>1, <2>2 DEF Newest
<1>2. Told(baseline, W) = u.after
  BY <1>1 DEF Told
<1>3. ASSUME NEW w \in W
      PROVE  w.before = Told(baseline, {v \in W : v.seq < w.seq})
  <2>1. CASE w \in U
    <3>1. {v \in W : v.seq < w.seq} = {v \in U : v.seq < w.seq}
      BY <2>1
    <3> QED BY <2>1, <3>1 DEF Tells
  <2>2. CASE w = u
    <3>1. {v \in W : v.seq < u.seq} = U
      OBVIOUS
    <3> QED BY <2>2, <3>1 DEF Tells
  <2> QED BY <2>1, <2>2
<1> QED BY <1>2, <1>3 DEF Tells

-----------------------------------------------------------------------------
(* Types.                                                                   *)

DrainState ==
  [pc : PCs, reads : SUBSET {"epoch", "compaction"}, stored : Epoch \cup {None},
   compaction : Nat, prepared : Prepared \cup {None},
   next : Contexts \cup {None}, wanted : Contexts \cup {None}]

\* Observations render contexts.
LEMMA ContextTypes ==
  ASSUME EpochTypeOK, NEW obs \in Observations
  PROVE  /\ Generation(obs) \in Contexts
         /\ \A snapshot \in Contexts : Reconciled(obs, snapshot) \in Contexts
<1>1. obs \in [Keys -> Values \cup {Absent, Unavailable}]
  BY DEF Observations
<1>2. Generation(obs) \in Contexts
  BY <1>1 DEF Generation, Available, Contexts
<1>3. ASSUME NEW snapshot \in Contexts
      PROVE  Reconciled(obs, snapshot) \in Contexts
  BY <1>1 DEF Reconciled, Contexts
<1> QED BY <1>2, <1>3

LEMMA IdleTypes == Idle \in DrainState /\ Attempt \in DrainState
BY DEF Idle, Attempt, DrainState, PCs

\* What a step may make of the attempt.
LEMMA DrainTypes ==
  ASSUME drain \in DrainState
  PROVE  /\ End => drain' \in DrainState /\ away' = FALSE
         /\ \A to \in PCs : Goto(to) => drain' \in DrainState
         /\ \A obs \in Observations :
              Generation(obs) \in Contexts /\ Initialize(obs) /\ away \in BOOLEAN =>
                drain' \in DrainState /\ away' \in BOOLEAN
<1>1. End => drain' \in DrainState /\ away' = FALSE
  BY IdleTypes DEF End
<1>2. \A to \in PCs : Goto(to) => drain' \in DrainState
  BY DEF Goto, DrainState
<1>3. ASSUME NEW obs \in Observations, Generation(obs) \in Contexts,
             Initialize(obs), away \in BOOLEAN
      PROVE  drain' \in DrainState /\ away' \in BOOLEAN
  <2>1. CASE Missing(obs) # {}
    BY <1>1, <1>3, <2>1 DEF Initialize
  <2>2. CASE Missing(obs) = {}
    <3>1. drain' = [drain EXCEPT !.pc = "latest", !.next = Generation(obs), !.wanted = Generation(obs)]
          /\ away' = away
      BY <1>3, <2>2 DEF Initialize
    <3>2. drain' \in DrainState
      BY <1>3, <3>1 DEF DrainState, PCs
    <3> QED BY <1>3, <3>1, <3>2
  <2> QED BY <2>1, <2>2
<1> QED BY <1>1, <1>2, <1>3

\* Types hold at first.
LEMMA EpochInitTypes ==
  ASSUME EpochInit
  PROVE  EpochTypeOK
<1>1. drain \in DrainState
  BY IdleTypes DEF EpochInit
<1>2. messages \subseteq [seq : 1 .. seq, type : {"user", "system", "compaction"},
                         before : Contexts \cup {None}, after : Contexts \cup {None}]
  BY DEF EpochInit, Other, Message
<1> QED BY <1>1, <1>2 DEF EpochInit, EpochTypeOK, DrainState


\* A decision keeps the types of the attempt.
LEMMA DecideTypes ==
  ASSUME EpochTypeOK, Decide
  PROVE  drain' \in DrainState /\ away' \in BOOLEAN
<1>0. drain \in DrainState /\ away \in BOOLEAN
  BY DEF EpochTypeOK, DrainState
<1>1. PICK obs \in Observations :
        \/ Initialize(obs)
        \/ /\ drain.stored # None
           /\ UNCHANGED away
           /\ \/ Keep(drain.stored.snapshot)
              \/ Replacing(obs)
              \/ drain' = [drain EXCEPT !.pc = "update", !.reads = {}, !.compaction = 0,
                                        !.next = Reconciled(obs, drain.stored.snapshot),
                                        !.wanted = Reconciled(obs, drain.stored.snapshot)]
  BY DEF Decide
<1>2. /\ Generation(obs) \in Contexts
      /\ \A snapshot \in Contexts : Reconciled(obs, snapshot) \in Contexts
  BY ContextTypes
<1>3. CASE Initialize(obs)
  BY <1>0, <1>2, <1>3, DrainTypes
<1>4. CASE ~Initialize(obs)
  <2>1. drain.stored \in Epoch /\ away' = away
    BY <1>0, <1>1, <1>4 DEF DrainState
  <2>2. /\ drain.stored.snapshot \in Contexts /\ drain.stored.baseline \in Contexts
        /\ drain.stored.seq \in Nat /\ drain.compaction \in Nat
    BY <1>0, <2>1 DEF Epoch, DrainState
  <2>3. /\ {"history", "replace", "replaceLatest", "update"} \subseteq PCs
        /\ {} \in SUBSET {"epoch", "compaction"}
    BY DEF PCs
  <2>4. CASE Keep(drain.stored.snapshot)
    <3> DEFINE p == [baseline |-> drain.stored.baseline, seq |-> drain.stored.seq]
    <3>1. p \in Prepared
      BY <2>2 DEF Prepared
    <3>2. drain' = [drain EXCEPT !.pc = "history", !.reads = {}, !.stored = None, !.compaction = 0,
                                 !.prepared = p, !.wanted = drain.stored.snapshot]
      BY <2>4 DEF Keep
    <3> HIDE DEF p
    <3> QED BY <1>0, <2>1, <2>2, <2>3, <3>1, <3>2 DEF DrainState
  <2>5. CASE Replacing(obs)
    <3> DEFINE p == [baseline |-> Generation(obs), seq |-> drain.compaction]
               to == IF Compacted THEN "replace" ELSE "replaceLatest"
               g == Generation(obs)
    <3>1. p \in Prepared /\ to \in PCs /\ g \in Contexts
      BY <1>2, <2>2, <2>3 DEF Prepared
    <3>2. drain' = [drain EXCEPT !.pc = to, !.reads = {}, !.stored = None, !.compaction = 0,
                                 !.prepared = p, !.next = g, !.wanted = g]
      BY <2>5 DEF Replacing
    <3> HIDE DEF p, to, g
    <3> QED BY <1>0, <2>1, <2>3, <3>1, <3>2 DEF DrainState
  <2>6. CASE ~Keep(drain.stored.snapshot) /\ ~Replacing(obs)
    <3> DEFINE r == Reconciled(obs, drain.stored.snapshot)
    <3>1. r \in Contexts
      BY <1>2, <2>2
    <3>2. drain' = [drain EXCEPT !.pc = "update", !.reads = {}, !.compaction = 0, !.next = r, !.wanted = r]
      BY <1>1, <1>4, <2>6
    <3> HIDE DEF r
    <3> QED BY <1>0, <2>1, <2>3, <3>1, <3>2 DEF DrainState
  <2> QED BY <2>1, <2>4, <2>5, <2>6, <1>0
<1> QED BY <1>3, <1>4

\* Every step keeps the types.
LEMMA EpochNextTypes ==
  ASSUME EpochInv, [EpochNext]_epochVars
  PROVE  EpochTypeOK'
<1>0. EpochTypeOK /\ RenderedRight /\ StoredRight
  BY DEF EpochInv
<1> USE DEF EpochTypeOK, PCs
<1>1. CASE Start
  BY <1>0, <1>1 DEF Start, Attempt, Idle
<1>2. CASE EnterAttempt
  <2>1. drain' \in DrainState
    BY <1>0, <1>2, DrainTypes DEF EnterAttempt, DrainState
  <2>2. away' \in BOOLEAN
    <3>1. away' = FALSE \/ away' = away
      BY <1>2, Zenon DEF EnterAttempt, End
    <3> QED BY <1>0, <3>1
  <2> QED BY <1>0, <2>1, <2>2, <1>2 DEF EnterAttempt, DrainState
<1>3. CASE Exists
  BY <1>0, <1>3 DEF Exists, Goto
<1>4. CASE InitializeOnce
  <2>1. drain' \in DrainState /\ away' \in BOOLEAN
    BY <1>0, <1>4, DrainTypes, ContextTypes DEF InitializeOnce, DrainState
  <2> QED BY <1>0, <2>1, <1>4 DEF InitializeOnce, DrainState
<1>5. CASE ReadLatest
  BY <1>0, <1>5 DEF ReadLatest, RenderedRight, Prepared
<1>6. CASE Insert
  BY <1>0, <1>6 DEF Insert, RenderedRight, Prepared, Epoch
<1>7. CASE Promote
  BY <1>0, <1>7 DEF Promote, Goto, Record, NextSequence, Other, Message
<1>8. CASE Find
  BY <1>0, <1>8 DEF Find
<1>9. CASE FindCompaction
  BY <1>0, <1>9, LatestIs DEF FindCompaction
<1>10. CASE Decide
  <2>1. drain' \in DrainState /\ away' \in BOOLEAN
    BY <1>0, <1>10, DecideTypes
  <2> QED BY <1>0, <2>1, <1>10 DEF Decide, DrainState
<1>11. CASE ReadReplacement
  BY <1>0, <1>11 DEF ReadReplacement, RenderedRight, Prepared
<1>12. CASE Replace
  BY <1>0, <1>12 DEF Replace, RenderedRight, Prepared, Epoch
<1>13. CASE Update
  <2>1. drain.next \in Contexts /\ drain.stored \in Epoch /\ epoch \in Epoch /\ seq \in Nat
    BY <1>0, <1>13 DEF Update, RenderedRight, StoredRight
  <2>2. /\ seq' = seq + 1
        /\ messages' = messages \cup
             {Message(seq + 1, "system", drain.stored.snapshot, drain.next)}
    BY <1>13 DEF Update, Record, NextSequence, Message
  <2>3. messages' \subseteq [seq : 1 .. seq', type : {"user", "system", "compaction"},
                            before : Contexts \cup {None}, after : Contexts \cup {None}]
    BY <1>0, <2>1, <2>2 DEF Message, Epoch
  <2>4. epoch' \in Epoch
    BY <2>1, <1>13 DEF Update, Epoch
  <2>5. drain' \in DrainState
    BY <1>0, <2>1, <1>13 DEF Update, DrainState, Epoch, Prepared
  <2> QED BY <1>0, <2>1, <2>2, <2>3, <2>4, <2>5, <1>13 DEF Update, DrainState
<1>14. CASE RowGone
  BY <1>0, <1>14 DEF RowGone, End, Idle
<1>15. CASE ReadCompaction
  BY <1>0, <1>15, LatestIs DEF ReadCompaction
<1>16. CASE CallModel
  BY <1>0, <1>16 DEF CallModel, Idle
<1>17. CASE Compact
  BY <1>0, <1>17 DEF Compact, Record, NextSequence, Other, Message, Attempt, Idle
<1>18. CASE TurnEnds
  <2>1. drain' \in DrainState
    BY <1>18, IdleTypes DEF TurnEnds, End
  <2>2. away' \in BOOLEAN
    <3>1. away' = FALSE \/ away' = away
      BY <1>18, Zenon DEF TurnEnds, End
    <3> QED BY <1>0, <3>1
  <2> QED BY <1>0, <2>1, <2>2, <1>18 DEF TurnEnds, DrainState
<1>19. CASE Fail
  BY <1>0, <1>19 DEF Fail, End, Idle
<1>20. CASE Moved
  <2>1. away' \in BOOLEAN
    <3>1. away' \in {FALSE} \/ away' \in BOOLEAN \/ away' \in {TRUE}
      BY <1>20, Zenon DEF Moved
    <3> QED BY <3>1
  <2> QED BY <1>0, <2>1, <1>20 DEF Moved, NextSequence
<1>21. ASSUME NEW b \in messages, Committed(b) PROVE EpochTypeOK'
  BY <1>0, <1>21 DEF Committed, NextSequence
<1>22. CASE OtherEvent
  BY <1>0, <1>22 DEF OtherEvent, NextSequence
<1>23. CASE UNCHANGED epochVars
  BY <1>0, <1>23 DEF epochVars
<1> QED BY <1>1, <1>2, <1>3, <1>4, <1>5, <1>6, <1>7, <1>8, <1>9, <1>10, <1>11, <1>12, <1>13,
   <1>14, <1>15, <1>16, <1>17, <1>18, <1>19, <1>20, <1>21, <1>22, <1>23
   DEF EpochNext

-----------------------------------------------------------------------------
(* What a decision leaves the attempt with.                                 *)

\* The turn ends, or a first baseline is rendered.
LEMMA InitializeEffect ==
  ASSUME EpochTypeOK, NEW obs \in Observations, Initialize(obs)
  PROVE  \/ drain' = Idle
         \/ /\ drain'.pc = "latest"
            /\ drain'.next \in Contexts /\ drain'.wanted = drain'.next
            /\ drain'.stored = drain.stored
<1>1. CASE Missing(obs) # {}
  BY <1>1 DEF Initialize, End
<1>2. CASE Missing(obs) = {}
  <2>1. drain' = [drain EXCEPT !.pc = "latest", !.next = Generation(obs), !.wanted = Generation(obs)]
    BY <1>2 DEF Initialize
  <2>2. Generation(obs) \in Contexts
    BY ContextTypes
  <2>3. drain \in DrainState
    BY DEF EpochTypeOK, DrainState
  <2> QED BY <2>1, <2>2, <2>3 DEF DrainState
<1> QED BY <1>1, <1>2

\* The epoch goes on as it is, with what it told as what is wanted.
Kept ==
  /\ drain.stored \in Epoch /\ drain.stored # None
  /\ drain'.pc = "history"
  /\ drain'.prepared = [baseline |-> drain.stored.baseline, seq |-> drain.stored.seq]
  /\ drain'.wanted = drain.stored.snapshot

\* A new baseline, from the compaction found or from a sequence to be read.
Replaced ==
  /\ drain.stored \in Epoch /\ drain.stored # None
  /\ drain'.pc = IF Compacted THEN "replace" ELSE "replaceLatest"
  /\ drain'.next \in Contexts /\ drain'.wanted = drain'.next
  /\ drain'.prepared = [baseline |-> drain'.next, seq |-> drain.compaction]

\* An update, when the epoch has taken in the compaction found.
Updated ==
  /\ ~Compacted
  /\ drain'.pc = "update"
  /\ drain.stored \in Epoch /\ drain.stored # None /\ drain'.stored = drain.stored
  /\ drain'.next \in Contexts /\ drain'.wanted = drain'.next

LEMMA DecideEffect ==
  ASSUME EpochTypeOK, Decide
  PROVE  /\ drain.pc = "find" /\ drain.reads = {"epoch", "compaction"}
         /\ UNCHANGED <<world, seq, messages, epoch>>
         /\ \/ drain' = Idle
            \/ /\ drain'.pc = "latest"
               /\ drain'.next \in Contexts /\ drain'.wanted = drain'.next
               /\ drain'.stored = None
            \/ Kept
            \/ Replaced
            \/ Updated
<1>0. drain \in DrainState
  BY DEF EpochTypeOK, DrainState
<1>1. PICK obs \in Observations :
        \/ drain.stored = None /\ Initialize(obs)
        \/ /\ drain.stored # None
           /\ \/ Keep(drain.stored.snapshot)
              \/ Replacing(obs)
              \/ /\ ~Compacted
                 /\ drain' = [drain EXCEPT !.pc = "update", !.reads = {}, !.compaction = 0,
                                          !.next = Reconciled(obs, drain.stored.snapshot),
                                          !.wanted = Reconciled(obs, drain.stored.snapshot)]
  BY DEF Decide
<1>2. /\ Generation(obs) \in Contexts
      /\ \A snapshot \in Contexts : Reconciled(obs, snapshot) \in Contexts
  BY ContextTypes
<1>3. drain.stored # None => drain.stored \in Epoch /\ drain.stored.snapshot \in Contexts
  BY <1>0 DEF DrainState, Epoch
<1>4. CASE drain.stored = None /\ Initialize(obs)
  BY <1>4, InitializeEffect DEF Decide
<1>5. CASE drain.stored # None /\ Keep(drain.stored.snapshot)
  BY <1>0, <1>3, <1>5 DEF Decide, Keep, Kept, DrainState
<1>6. CASE drain.stored # None /\ Replacing(obs)
  BY <1>0, <1>2, <1>3, <1>6 DEF Decide, Replacing, Replaced, DrainState
<1>7. CASE /\ drain.stored # None /\ ~Compacted
           /\ drain' = [drain EXCEPT !.pc = "update", !.reads = {}, !.compaction = 0,
                                    !.next = Reconciled(obs, drain.stored.snapshot),
                                    !.wanted = Reconciled(obs, drain.stored.snapshot)]
  <2>1. Updated
    BY <1>0, <1>2, <1>3, <1>7 DEF Updated, DrainState
  <2> QED BY <2>1 DEF Decide
<1> QED BY <1>1, <1>4, <1>5, <1>6, <1>7


\* Prompts leave what the epoch is about alone.
LEMMA PromoteEffect ==
  ASSUME EpochTypeOK, Promote
  PROVE  /\ drain.pc = "promote"
         /\ drain' = [drain EXCEPT !.pc = IF drain.prepared = None THEN "find" ELSE "history"]
         /\ UNCHANGED <<world, epoch, away>>
         /\ Compactions' = Compactions /\ Updates' = Updates
         /\ seq' \in Nat /\ seq' >= seq
<1>1. CASE UNCHANGED <<seq, messages>>
  BY <1>1 DEF EpochTypeOK, Promote, Goto, Compactions, Updates
<1>2. CASE Record(Other(seq + 1, "user"))
  BY <1>2 DEF EpochTypeOK, Promote, Goto, Compactions, Updates, Record, NextSequence,
       Other, Message
<1> QED BY <1>1, <1>2 DEF Promote

\* An update is told last, of the row it was decided on.
LEMMA UpdateEffect ==
  ASSUME EpochTypeOK, RenderedRight, StoredRight, Update
  PROVE  /\ drain.pc = "update" /\ epoch \in Epoch /\ epoch = drain.stored
         /\ drain.next \in Contexts /\ drain.wanted = drain.next
         /\ seq' = seq + 1 /\ seq \in Nat
         /\ Updates' = Updates \cup {Message(seq + 1, "system", epoch.snapshot, drain.next)}
         /\ Compactions' = Compactions
         /\ epoch' = [baseline |-> epoch.baseline, snapshot |-> drain.next, seq |-> epoch.seq]
         /\ drain'.pc = "history" /\ drain'.wanted = drain.next
         /\ drain'.prepared = [baseline |-> epoch.baseline, seq |-> epoch.seq]
         /\ drain'.stored = None
<1>1. /\ drain.pc = "update" /\ drain.next \in Contexts /\ drain.wanted = drain.next
      /\ drain.stored \in Epoch /\ epoch # None /\ epoch \in Epoch /\ drain.stored # None
  BY DEF Update, RenderedRight, StoredRight, EpochTypeOK
<1>2. epoch = drain.stored
  BY <1>1 DEF StoredRight
<1>3. /\ seq' = seq + 1 /\ seq \in Nat
      /\ messages' = messages \cup {Message(seq + 1, "system", epoch.snapshot, drain.next)}
  BY <1>2 DEF Update, Record, NextSequence, EpochTypeOK
<1>4. /\ Updates' = Updates \cup {Message(seq + 1, "system", epoch.snapshot, drain.next)}
      /\ Compactions' = Compactions
  BY <1>3 DEF Updates, Compactions, Message
<1>5. epoch' = [baseline |-> epoch.baseline, snapshot |-> drain.next, seq |-> epoch.seq]
  BY <1>1 DEF Update, Epoch
<1>6. drain \in DrainState
  BY DEF EpochTypeOK, DrainState
<1>7. /\ drain'.pc = "history" /\ drain'.wanted = drain.next /\ drain'.stored = None
      /\ drain'.prepared = [baseline |-> epoch.baseline, seq |-> epoch.seq]
  BY <1>1, <1>2, <1>6 DEF Update, DrainState
<1> QED BY <1>1, <1>2, <1>3, <1>4, <1>5, <1>7

\* Sequences that have come stay so.
LEMMA SequencesStay ==
  ASSUME EpochTypeOK, SequencesPast, RenderedRight, seq' \in Nat, seq' >= seq,
         epoch' = epoch \/ epoch' = None,
         drain'.pc \in {"insert", "replace"} => drain'.pc = drain.pc /\ drain'.prepared = drain.prepared,
         drain'.compaction = drain.compaction \/ drain'.compaction = 0
  PROVE  SequencesPast'
<1>1. /\ seq \in Nat /\ drain.compaction \in Nat
      /\ epoch # None => epoch.seq \in Nat
      /\ drain.pc \in {"insert", "replace"} => drain.prepared.seq \in Nat
  BY DEF EpochTypeOK, Epoch, Prepared, RenderedRight
<1>2. epoch' # None => epoch'.seq <= seq'
  BY <1>1 DEF SequencesPast
<1>3. drain'.pc \in {"insert", "replace"} => drain'.prepared.seq <= seq'
  BY <1>1 DEF SequencesPast
<1>4. drain'.compaction <= seq'
  BY <1>1 DEF SequencesPast
<1> QED BY <1>2, <1>3, <1>4 DEF SequencesPast

\* An initialization has no sequence yet.
LEMMA InitializeCompaction ==
  ASSUME drain \in DrainState, NEW obs, Initialize(obs)
  PROVE  /\ drain'.pc \notin {"insert", "replace"}
         /\ drain'.compaction = drain.compaction \/ drain'.compaction = 0
<1>1. CASE Missing(obs) # {}
  <2>1. drain' = Idle
    BY <1>1 DEF Initialize, End
  <2> QED BY <2>1 DEF Idle
<1>2. CASE Missing(obs) = {}
  <2> DEFINE g == Generation(obs)
  <2>1. drain' = [drain EXCEPT !.pc = "latest", !.next = g, !.wanted = g]
    BY <1>2 DEF Initialize
  <2> HIDE DEF g
  <2>2. drain'.pc = "latest" /\ drain'.compaction = drain.compaction
    BY <2>1 DEF DrainState
  <2> QED BY <2>2
<1> QED BY <1>1, <1>2

\* A decision is about sequences that have come.
LEMMA DecideSequences ==
  ASSUME EpochTypeOK, SequencesPast, RenderedRight, Decide
  PROVE  SequencesPast'
<1>0. drain \in DrainState /\ seq' = seq /\ epoch' = epoch /\ seq \in Nat
  BY DEF EpochTypeOK, DrainState, Decide
<1>1. PICK obs \in Observations :
        \/ Initialize(obs)
        \/ /\ drain.stored # None
           /\ UNCHANGED away
           /\ \/ Keep(drain.stored.snapshot)
              \/ Replacing(obs)
              \/ drain' = [drain EXCEPT !.pc = "update", !.reads = {}, !.compaction = 0,
                                        !.next = Reconciled(obs, drain.stored.snapshot),
                                        !.wanted = Reconciled(obs, drain.stored.snapshot)]
  BY DEF Decide
<1>2. CASE Initialize(obs)
  <2>2. /\ drain'.pc \notin {"insert", "replace"}
        /\ drain'.compaction = drain.compaction \/ drain'.compaction = 0
    BY <1>0, <1>2, InitializeCompaction
  <2> QED BY <1>0, <2>2, SequencesStay
<1>3. CASE ~Initialize(obs)
  <2>1. drain.stored # None /\ drain.stored \in Epoch
    BY <1>0, <1>1, <1>3 DEF DrainState
  <2>2. CASE Keep(drain.stored.snapshot)
    BY <1>0, <2>1, <2>2 DEF Keep, SequencesPast, DrainState
  <2>3. CASE Replacing(obs)
    BY <1>0, <2>1, <2>3 DEF Replacing, SequencesPast, DrainState
  <2>4. CASE ~Keep(drain.stored.snapshot) /\ ~Replacing(obs)
    <3>1. drain' = [drain EXCEPT !.pc = "update", !.reads = {}, !.compaction = 0,
                                 !.next = Reconciled(obs, drain.stored.snapshot),
                                 !.wanted = Reconciled(obs, drain.stored.snapshot)]
      BY <1>1, <1>3, <2>4
    <3> QED BY <1>0, <3>1, SequencesStay DEF DrainState
  <2> QED BY <2>2, <2>3, <2>4
<1> QED BY <1>2, <1>3

-----------------------------------------------------------------------------
(* Each part of the invariant is kept.                                      *)

\* What is rendered stays what is wanted.
LEMMA NextRendered ==
  ASSUME EpochInv, [EpochNext]_epochVars
  PROVE  RenderedRight'
<1>0. EpochTypeOK /\ RenderedRight /\ StoredRight
  BY DEF EpochInv
<1> USE DEF RenderedRight, EpochTypeOK
<1>1. CASE Start
  BY <1>0, <1>1 DEF Start, Attempt, Idle
<1>2. CASE EnterAttempt
  BY <1>0, <1>2 DEF EnterAttempt, End, Goto, Idle
<1>3. CASE Exists
  BY <1>0, <1>3 DEF Exists, Goto
<1>4. CASE InitializeOnce
  BY <1>0, <1>4, InitializeEffect DEF InitializeOnce, Idle
<1>5. CASE ReadLatest
  BY <1>0, <1>5 DEF ReadLatest, Prepared
<1>6. CASE Insert
  BY <1>0, <1>6 DEF Insert
<1>7. CASE Promote
  BY <1>0, <1>7 DEF Promote, Goto, Record, NextSequence, Other, Message
<1>8. CASE Find
  BY <1>0, <1>8 DEF Find
<1>9. CASE FindCompaction
  BY <1>0, <1>9 DEF FindCompaction
<1>10. CASE Decide
  <2>1. drain.compaction \in Nat
    BY <1>0
  <2> QED BY <1>0, <1>10, <2>1, DecideEffect DEF Kept, Replaced, Updated, Idle, Epoch,
       Prepared
<1>11. CASE ReadReplacement
  BY <1>0, <1>11 DEF ReadReplacement, Prepared
<1>12. CASE Replace
  BY <1>0, <1>12 DEF Replace
<1>13. CASE Update
  <2>1. drain'.pc = "history" /\ drain'.prepared \in Prepared
    BY <1>0, <1>13, UpdateEffect DEF Epoch, Prepared
  <2> QED BY <2>1
<1>14. CASE RowGone
  BY <1>0, <1>14 DEF RowGone, End, Idle
<1>15. CASE ReadCompaction
  BY <1>0, <1>15 DEF ReadCompaction
<1>16. CASE CallModel
  BY <1>0, <1>16 DEF CallModel, Idle
<1>17. CASE Compact
  BY <1>0, <1>17 DEF Compact, Record, NextSequence, Other, Message, Attempt, Idle
<1>18. CASE TurnEnds
  BY <1>0, <1>18 DEF TurnEnds, Attempt, End, Idle
<1>19. CASE Fail
  BY <1>0, <1>19 DEF Fail, End, Idle
<1>20. CASE Moved
  BY <1>0, <1>20 DEF Moved, NextSequence
<1>21. ASSUME NEW b \in messages, Committed(b) PROVE RenderedRight'
  BY <1>0, <1>21 DEF Committed, NextSequence
<1>22. CASE OtherEvent
  BY <1>0, <1>22 DEF OtherEvent, NextSequence
<1>23. CASE UNCHANGED epochVars
  BY <1>0, <1>23 DEF epochVars
<1> QED BY <1>1, <1>2, <1>3, <1>4, <1>5, <1>6, <1>7, <1>8, <1>9, <1>10, <1>11, <1>12, <1>13,
   <1>14, <1>15, <1>16, <1>17, <1>18, <1>19, <1>20, <1>21, <1>22, <1>23
   DEF EpochNext

\* An attempt has read and prepared nothing before it begins to.
LEMMA NextFresh ==
  ASSUME EpochInv, [EpochNext]_epochVars
  PROVE  FreshRight'
<1>0. EpochTypeOK /\ FreshRight
  BY DEF EpochInv
<1> USE DEF FreshRight, EpochTypeOK
<1>1. CASE Start
  BY <1>0, <1>1 DEF Start, Attempt, Idle
<1>2. CASE EnterAttempt
  BY <1>0, <1>2 DEF EnterAttempt, End, Goto, Idle
<1>3. CASE Exists
  BY <1>0, <1>3 DEF Exists, Goto
<1>4. CASE InitializeOnce
  BY <1>0, <1>4, InitializeEffect DEF InitializeOnce, Idle
<1>5. CASE ReadLatest
  BY <1>0, <1>5 DEF ReadLatest
<1>6. CASE Insert
  BY <1>0, <1>6 DEF Insert
<1>7. CASE Promote
  BY <1>0, <1>7 DEF Promote, Goto, Record, NextSequence, Other, Message
<1>8. CASE Find
  BY <1>0, <1>8 DEF Find
<1>9. CASE FindCompaction
  BY <1>0, <1>9 DEF FindCompaction
<1>10. CASE Decide
  BY <1>0, <1>10, DecideEffect DEF Kept, Replaced, Updated, Idle
<1>11. CASE ReadReplacement
  BY <1>0, <1>11 DEF ReadReplacement
<1>12. CASE Replace
  BY <1>0, <1>12 DEF Replace
<1>13. CASE Update
  BY <1>0, <1>13 DEF Update, Record, NextSequence, Message
<1>14. CASE RowGone
  BY <1>0, <1>14 DEF RowGone, End, Idle
<1>15. CASE ReadCompaction
  BY <1>0, <1>15 DEF ReadCompaction
<1>16. CASE CallModel
  BY <1>0, <1>16 DEF CallModel, Idle
<1>17. CASE Compact
  BY <1>0, <1>17 DEF Compact, Record, NextSequence, Other, Message, Attempt, Idle
<1>18. CASE TurnEnds
  BY <1>0, <1>18 DEF TurnEnds, Attempt, End, Idle
<1>19. CASE Fail
  BY <1>0, <1>19 DEF Fail, End, Idle
<1>20. CASE Moved
  BY <1>0, <1>20 DEF Moved, NextSequence
<1>21. ASSUME NEW b \in messages, Committed(b) PROVE FreshRight'
  BY <1>0, <1>21 DEF Committed, NextSequence
<1>22. CASE OtherEvent
  BY <1>0, <1>22 DEF OtherEvent, NextSequence
<1>23. CASE UNCHANGED epochVars
  BY <1>0, <1>23 DEF epochVars
<1> QED BY <1>1, <1>2, <1>3, <1>4, <1>5, <1>6, <1>7, <1>8, <1>9, <1>10, <1>11, <1>12, <1>13,
   <1>14, <1>15, <1>16, <1>17, <1>18, <1>19, <1>20, <1>21, <1>22, <1>23
   DEF EpochNext

\* No step is about a sequence that has not come.
LEMMA NextSequences ==
  ASSUME EpochInv, [EpochNext]_epochVars
  PROVE  SequencesPast'
<1>0. EpochTypeOK /\ SequencesPast /\ RenderedRight
  BY DEF EpochInv
<1>a. drain \in DrainState /\ seq \in Nat
  BY <1>0 DEF EpochTypeOK, DrainState
<1> USE DEF DrainState
<1>1. CASE Start
  BY <1>0, <1>a, <1>1, SequencesStay DEF Start, Attempt, Idle
<1>2. CASE EnterAttempt
  BY <1>0, <1>a, <1>2, SequencesStay DEF EnterAttempt, End, Goto, Idle
<1>3. CASE Exists
  BY <1>0, <1>a, <1>3, SequencesStay DEF Exists, Goto
<1>4. CASE InitializeOnce
  <2>1. PICK obs \in Observations : Initialize(obs)
    BY <1>4 DEF InitializeOnce
  <2>3. /\ drain'.pc \notin {"insert", "replace"}
        /\ drain'.compaction = drain.compaction \/ drain'.compaction = 0
    BY <1>a, <2>1, InitializeCompaction
  <2> QED BY <1>0, <1>a, <2>3, <1>4, SequencesStay DEF InitializeOnce
<1>5. CASE ReadLatest
  <2>1. drain'.prepared.seq = seq /\ drain'.stored = drain.stored /\ drain'.compaction = drain.compaction
    BY <1>a, <1>5 DEF ReadLatest
  <2> QED BY <1>0, <1>a, <2>1, <1>5 DEF ReadLatest, SequencesPast
<1>6. CASE Insert
  <2>1. drain.prepared.seq <= seq /\ epoch'.seq = drain.prepared.seq
    BY <1>0, <1>6 DEF Insert, SequencesPast
  <2>2. drain'.pc \notin {"insert", "replace"} /\ drain'.compaction = 0
    BY <1>a, <1>6 DEF Insert
  <2> QED BY <1>0, <1>a, <2>1, <2>2, <1>6 DEF Insert, SequencesPast
<1>7. CASE Promote
  BY <1>0, <1>a, <1>7, PromoteEffect, SequencesStay
<1>8. CASE Find
  BY <1>0, <1>a, <1>8, SequencesStay DEF Find
<1>9. CASE FindCompaction
  BY <1>0, <1>a, <1>9, LatestIs DEF FindCompaction, SequencesPast
<1>10. CASE Decide
  BY <1>0, <1>a, <1>10, DecideSequences
<1>11. CASE ReadReplacement
  <2>1. drain.prepared \in Prepared
    BY <1>0, <1>11 DEF ReadReplacement, RenderedRight
  <2>2. drain'.prepared.seq = seq /\ drain'.compaction = drain.compaction
    BY <1>a, <2>1, <1>11 DEF ReadReplacement, Prepared
  <2> QED BY <1>0, <1>a, <2>2, <1>11 DEF ReadReplacement, SequencesPast
<1>12. CASE Replace
  <2>1. drain.prepared.seq <= seq /\ epoch'.seq = drain.prepared.seq
    BY <1>0, <1>12 DEF Replace, SequencesPast
  <2>2. drain'.pc = "history" /\ drain'.compaction = drain.compaction
    BY <1>a, <1>12 DEF Replace
  <2> QED BY <1>0, <1>a, <2>1, <2>2, <1>12 DEF Replace, SequencesPast
<1>13. CASE Update
  <2>1. drain'.pc = "history" /\ drain'.compaction = drain.compaction
    BY <1>a, <1>13 DEF Update
  <2>2. seq' = seq + 1 /\ epoch \in Epoch /\ epoch'.seq = epoch.seq
    BY <1>0, <1>13 DEF Update, Record, NextSequence, EpochTypeOK, Epoch
  <2>3. epoch.seq \in Nat /\ epoch.seq <= seq /\ drain.compaction \in Nat /\ drain.compaction <= seq
    BY <1>0, <2>2, <1>13 DEF Update, SequencesPast, EpochTypeOK, Epoch
  <2> QED BY <1>a, <2>1, <2>2, <2>3 DEF SequencesPast
<1>14. CASE RowGone
  BY <1>0, <1>a, <1>14, SequencesStay DEF RowGone, End, Idle
<1>15. CASE ReadCompaction
  BY <1>0, <1>a, <1>15, LatestIs DEF ReadCompaction, SequencesPast
<1>16. CASE CallModel
  BY <1>0, <1>a, <1>16, SequencesStay DEF CallModel, Idle
<1>17. CASE Compact
  BY <1>0, <1>a, <1>17, SequencesStay DEF Compact, Record, NextSequence, Other, Message,
       Attempt, Idle
<1>18. CASE TurnEnds
  BY <1>0, <1>a, <1>18, SequencesStay DEF TurnEnds, Attempt, End, Idle
<1>19. CASE Fail
  BY <1>0, <1>a, <1>19, SequencesStay DEF Fail, End, Idle
<1>20. CASE Moved
  BY <1>0, <1>a, <1>20, SequencesStay DEF Moved, NextSequence
<1>21. ASSUME NEW b \in messages, Committed(b) PROVE SequencesPast'
  BY <1>0, <1>a, <1>21, SequencesStay DEF Committed, NextSequence
<1>22. CASE OtherEvent
  BY <1>0, <1>a, <1>22, SequencesStay DEF OtherEvent, NextSequence
<1>23. CASE UNCHANGED epochVars
  BY <1>0, <1>a, <1>23 DEF epochVars, SequencesPast
<1> QED BY <1>1, <1>2, <1>3, <1>4, <1>5, <1>6, <1>7, <1>8, <1>9, <1>10, <1>11, <1>12, <1>13,
   <1>14, <1>15, <1>16, <1>17, <1>18, <1>19, <1>20, <1>21, <1>22, <1>23
   DEF EpochNext

\* The row read stays the row, or is reset.
LEMMA NextStored ==
  ASSUME EpochInv, [EpochNext]_epochVars
  PROVE  StoredRight'
<1>0. EpochTypeOK /\ StoredRight /\ FreshRight
  BY DEF EpochInv
<1> USE DEF StoredRight, EpochTypeOK
<1>1. CASE Start
  BY <1>0, <1>1 DEF Start, Attempt, Idle
<1>2. CASE EnterAttempt
  BY <1>0, <1>2 DEF EnterAttempt, End, Goto, Idle
<1>3. CASE Exists
  BY <1>0, <1>3 DEF Exists, Goto
<1>4. CASE InitializeOnce
  BY <1>0, <1>4, InitializeEffect DEF InitializeOnce, Idle
<1>5. CASE ReadLatest
  BY <1>0, <1>5 DEF ReadLatest
<1>6. CASE Insert
  BY <1>0, <1>6 DEF Insert
<1>7. CASE Promote
  <2>1. drain'.pc \in {"find", "history"} /\ drain'.stored = None
    BY <1>0, <1>7, PromoteEffect DEF FreshRight
  <2> QED BY <2>1
<1>8. CASE Find
  BY <1>0, <1>8 DEF Find
<1>9. CASE FindCompaction
  BY <1>0, <1>9 DEF FindCompaction
<1>10. CASE Decide
  BY <1>0, <1>10, DecideEffect DEF Kept, Replaced, Updated, Idle
<1>11. CASE ReadReplacement
  BY <1>0, <1>11 DEF ReadReplacement
<1>12. CASE Replace
  BY <1>0, <1>12 DEF Replace
<1>13. CASE Update
  BY <1>0, <1>13 DEF Update, Record, NextSequence, Message
<1>14. CASE RowGone
  BY <1>0, <1>14 DEF RowGone, End, Idle
<1>15. CASE ReadCompaction
  BY <1>0, <1>15 DEF ReadCompaction
<1>16. CASE CallModel
  BY <1>0, <1>16 DEF CallModel, Idle
<1>17. CASE Compact
  BY <1>0, <1>17 DEF Compact, Record, NextSequence, Other, Message, Attempt, Idle
<1>18. CASE TurnEnds
  BY <1>0, <1>18 DEF TurnEnds, Attempt, End, Idle
<1>19. CASE Fail
  BY <1>0, <1>19 DEF Fail, End, Idle
<1>20. CASE Moved
  BY <1>0, <1>20 DEF Moved, NextSequence
<1>21. ASSUME NEW b \in messages, Committed(b) PROVE StoredRight'
  BY <1>0, <1>21 DEF Committed, NextSequence
<1>22. CASE OtherEvent
  BY <1>0, <1>22 DEF OtherEvent, NextSequence
<1>23. CASE UNCHANGED epochVars
  BY <1>0, <1>23 DEF epochVars
<1> QED BY <1>1, <1>2, <1>3, <1>4, <1>5, <1>6, <1>7, <1>8, <1>9, <1>10, <1>11, <1>12, <1>13,
   <1>14, <1>15, <1>16, <1>17, <1>18, <1>19, <1>20, <1>21, <1>22, <1>23
   DEF EpochNext

\* The compaction found stays the latest, or the epoch is reset.
LEMMA NextCompaction ==
  ASSUME EpochInv, [EpochNext]_epochVars
  PROVE  CompactionRight'
<1>0. EpochTypeOK /\ CompactionRight /\ FreshRight
  BY DEF EpochInv
<1> USE DEF CompactionRight, EpochTypeOK, Compactions
<1>1. CASE Start
  BY <1>0, <1>1 DEF Start, Attempt, Idle
<1>2. CASE EnterAttempt
  BY <1>0, <1>2 DEF EnterAttempt, End, Goto, Idle
<1>3. CASE Exists
  BY <1>0, <1>3 DEF Exists, Goto
<1>4. CASE InitializeOnce
  BY <1>0, <1>4, InitializeEffect DEF InitializeOnce, Idle
<1>5. CASE ReadLatest
  BY <1>0, <1>5 DEF ReadLatest
<1>6. CASE Insert
  BY <1>0, <1>6 DEF Insert
<1>7. CASE Promote
  <2>1. drain'.reads = {}
    BY <1>0, <1>7, PromoteEffect DEF FreshRight
  <2> QED BY <2>1
<1>8. CASE Find
  BY <1>0, <1>8 DEF Find
<1>9. CASE FindCompaction
  BY <1>0, <1>9, LatestIs DEF FindCompaction
<1>10. CASE Decide
  BY <1>0, <1>10, DecideEffect DEF Kept, Replaced, Updated, Idle
<1>11. CASE ReadReplacement
  BY <1>0, <1>11 DEF ReadReplacement
<1>12. CASE Replace
  BY <1>0, <1>12 DEF Replace
<1>13. CASE Update
  BY <1>0, <1>13 DEF Update, Record, NextSequence, Message
<1>14. CASE RowGone
  BY <1>0, <1>14 DEF RowGone, End, Idle
<1>15. CASE ReadCompaction
  BY <1>0, <1>15 DEF ReadCompaction
<1>16. CASE CallModel
  BY <1>0, <1>16 DEF CallModel, Idle
<1>17. CASE Compact
  BY <1>0, <1>17 DEF Compact, Record, NextSequence, Other, Message, Attempt, Idle
<1>18. CASE TurnEnds
  BY <1>0, <1>18 DEF TurnEnds, Attempt, End, Idle
<1>19. CASE Fail
  BY <1>0, <1>19 DEF Fail, End, Idle
<1>20. CASE Moved
  BY <1>0, <1>20 DEF Moved, NextSequence
<1>21. ASSUME NEW b \in messages, Committed(b) PROVE CompactionRight'
  BY <1>0, <1>21 DEF Committed, NextSequence
<1>22. CASE OtherEvent
  BY <1>0, <1>22 DEF OtherEvent, NextSequence
<1>23. CASE UNCHANGED epochVars
  BY <1>0, <1>23 DEF epochVars
<1> QED BY <1>1, <1>2, <1>3, <1>4, <1>5, <1>6, <1>7, <1>8, <1>9, <1>10, <1>11, <1>12, <1>13,
   <1>14, <1>15, <1>16, <1>17, <1>18, <1>19, <1>20, <1>21, <1>22, <1>23
   DEF EpochNext

\* A compaction stops the updates until the epoch takes it in.
LEMMA NextStops ==
  ASSUME EpochInv, [EpochNext]_epochVars
  PROVE  CompactionStopsUpdates'
<1>0. /\ EpochTypeOK /\ RenderedRight
      /\ CompactionStopsUpdates /\ UpdateRight /\ StoredRight /\ BaselineRight
  BY DEF EpochInv
<1> USE DEF CompactionStopsUpdates, EpochTypeOK, Compactions, Updates
<1>1. CASE Start
  BY <1>0, <1>1 DEF Start, Attempt, Idle
<1>2. CASE EnterAttempt
  BY <1>0, <1>2 DEF EnterAttempt, End, Goto, Idle
<1>3. CASE Exists
  BY <1>0, <1>3 DEF Exists, Goto
<1>4. CASE InitializeOnce
  BY <1>0, <1>4, InitializeEffect DEF InitializeOnce, Idle
<1>5. CASE ReadLatest
  BY <1>0, <1>5 DEF ReadLatest
<1>6. CASE Insert
  BY <1>0, <1>6 DEF Insert, BaselineRight, UpdatesAfter, RenderedRight, Prepared
<1>7. CASE Promote
  BY <1>0, <1>7 DEF Promote, Goto, Record, NextSequence, Other, Message, Epoch
<1>8. CASE Find
  BY <1>0, <1>8 DEF Find
<1>9. CASE FindCompaction
  BY <1>0, <1>9 DEF FindCompaction
<1>10. CASE Decide
  BY <1>0, <1>10, DecideEffect DEF Kept, Replaced, Updated, Idle
<1>11. CASE ReadReplacement
  BY <1>0, <1>11 DEF ReadReplacement
<1>12. CASE Replace
  BY <1>0, <1>12 DEF Replace, BaselineRight, UpdatesAfter, RenderedRight, Prepared
<1>13. CASE Update
  BY <1>0, <1>13 DEF Update, Record, NextSequence, Message, UpdateRight, Epoch
<1>14. CASE RowGone
  BY <1>0, <1>14 DEF RowGone, End, Idle
<1>15. CASE ReadCompaction
  BY <1>0, <1>15 DEF ReadCompaction
<1>16. CASE CallModel
  BY <1>0, <1>16 DEF CallModel, Idle
<1>17. CASE Compact
  BY <1>0, <1>17 DEF Compact, Record, NextSequence, Other, Message, Attempt, Idle,
       Epoch
<1>18. CASE TurnEnds
  BY <1>0, <1>18 DEF TurnEnds, Attempt, End, Idle
<1>19. CASE Fail
  BY <1>0, <1>19 DEF Fail, End, Idle
<1>20. CASE Moved
  BY <1>0, <1>20 DEF Moved, NextSequence
<1>21. ASSUME NEW b \in messages, Committed(b) PROVE CompactionStopsUpdates'
  BY <1>0, <1>21 DEF Committed, NextSequence
<1>22. CASE OtherEvent
  BY <1>0, <1>22 DEF OtherEvent, NextSequence
<1>23. CASE UNCHANGED epochVars
  BY <1>0, <1>23 DEF epochVars
<1> QED BY <1>1, <1>2, <1>3, <1>4, <1>5, <1>6, <1>7, <1>8, <1>9, <1>10, <1>11, <1>12, <1>13,
   <1>14, <1>15, <1>16, <1>17, <1>18, <1>19, <1>20, <1>21, <1>22, <1>23
   DEF EpochNext

\* An update is decided only when every compaction is taken in.
LEMMA NextUpdate ==
  ASSUME EpochInv, [EpochNext]_epochVars
  PROVE  UpdateRight'
<1>0. EpochTypeOK /\ UpdateRight /\ StoredRight /\ CompactionRight
  BY DEF EpochInv
<1> USE DEF UpdateRight, EpochTypeOK, Compactions
<1>1. CASE Start
  BY <1>0, <1>1 DEF Start, Attempt, Idle
<1>2. CASE EnterAttempt
  BY <1>0, <1>2 DEF EnterAttempt, End, Goto, Idle
<1>3. CASE Exists
  BY <1>0, <1>3 DEF Exists, Goto
<1>4. CASE InitializeOnce
  BY <1>0, <1>4, InitializeEffect DEF InitializeOnce, Idle
<1>5. CASE ReadLatest
  BY <1>0, <1>5 DEF ReadLatest
<1>6. CASE Insert
  BY <1>0, <1>6 DEF Insert
<1>7. CASE Promote
  BY <1>0, <1>7 DEF Promote, Goto, Record, NextSequence, Other, Message
<1>8. CASE Find
  BY <1>0, <1>8 DEF Find
<1>9. CASE FindCompaction
  BY <1>0, <1>9 DEF FindCompaction
<1>10. CASE Decide
  <2>0. EpochTypeOK /\ epoch' = epoch /\ messages' = messages
    BY <1>0, <1>10, DecideEffect
  <2>1. ASSUME drain'.pc = "update", epoch # None
        PROVE  \A m \in Compactions : m.seq <= epoch.seq
    <3>1. Updated /\ drain.pc = "find" /\ drain.reads = {"epoch", "compaction"}
      BY <2>0, <2>1, <1>10, DecideEffect DEF Kept, Replaced, Idle
    <3>2. drain.stored = epoch
      BY <1>0, <2>0, <2>1, <3>1 DEF Updated, StoredRight
    <3>3. \A m \in Compactions : m.seq <= drain.compaction
      BY <1>0, <2>1, <3>1 DEF CompactionRight
    <3>4. drain.compaction \in Nat /\ epoch.seq \in Nat /\ drain.compaction <= epoch.seq
      BY <2>0, <2>1, <3>1, <3>2 DEF EpochTypeOK, Updated, Compacted, Epoch
    <3>5. \A m \in Compactions : m.seq \in Nat
      BY <2>0, MessageTypes
    <3> QED BY <3>3, <3>4, <3>5
  <2> QED BY <2>0, <2>1
<1>11. CASE ReadReplacement
  BY <1>0, <1>11 DEF ReadReplacement
<1>12. CASE Replace
  BY <1>0, <1>12 DEF Replace
<1>13. CASE Update
  BY <1>0, <1>13 DEF Update, Record, NextSequence, Message
<1>14. CASE RowGone
  BY <1>0, <1>14 DEF RowGone, End, Idle
<1>15. CASE ReadCompaction
  BY <1>0, <1>15 DEF ReadCompaction
<1>16. CASE CallModel
  BY <1>0, <1>16 DEF CallModel, Idle
<1>17. CASE Compact
  BY <1>0, <1>17 DEF Compact, Record, NextSequence, Other, Message, Attempt, Idle
<1>18. CASE TurnEnds
  BY <1>0, <1>18 DEF TurnEnds, Attempt, End, Idle
<1>19. CASE Fail
  BY <1>0, <1>19 DEF Fail, End, Idle
<1>20. CASE Moved
  BY <1>0, <1>20 DEF Moved, NextSequence
<1>21. ASSUME NEW b \in messages, Committed(b) PROVE UpdateRight'
  BY <1>0, <1>21 DEF Committed, NextSequence
<1>22. CASE OtherEvent
  BY <1>0, <1>22 DEF OtherEvent, NextSequence
<1>23. CASE UNCHANGED epochVars
  BY <1>0, <1>23 DEF epochVars
<1> QED BY <1>1, <1>2, <1>3, <1>4, <1>5, <1>6, <1>7, <1>8, <1>9, <1>10, <1>11, <1>12, <1>13,
   <1>14, <1>15, <1>16, <1>17, <1>18, <1>19, <1>20, <1>21, <1>22, <1>23
   DEF EpochNext

\* Nothing is told between the choice of a baseline's sequence and its row.
LEMMA NextBaseline ==
  ASSUME EpochInv, [EpochNext]_epochVars
  PROVE  BaselineRight'
<1>0. /\ EpochTypeOK /\ RenderedRight
      /\ BaselineRight /\ StoredRight /\ CompactionRight /\ CompactionStopsUpdates
  BY DEF EpochInv
<1> USE DEF BaselineRight, EpochTypeOK, UpdatesAfter, Updates
<1>1. CASE Start
  BY <1>0, <1>1 DEF Start, Attempt, Idle
<1>2. CASE EnterAttempt
  BY <1>0, <1>2 DEF EnterAttempt, End, Goto, Idle
<1>3. CASE Exists
  BY <1>0, <1>3 DEF Exists, Goto
<1>4. CASE InitializeOnce
  BY <1>0, <1>4, InitializeEffect DEF InitializeOnce, Idle
<1>5. CASE ReadLatest
  BY <1>0, <1>5 DEF ReadLatest
<1>6. CASE Insert
  BY <1>0, <1>6 DEF Insert
<1>7. CASE Promote
  BY <1>0, <1>7 DEF Promote, Goto, Record, NextSequence, Other, Message
<1>8. CASE Find
  BY <1>0, <1>8 DEF Find
<1>9. CASE FindCompaction
  BY <1>0, <1>9 DEF FindCompaction
<1>10. CASE Decide
  <2>0. /\ EpochTypeOK /\ epoch' = epoch /\ messages' = messages /\ Updates' = Updates
        /\ drain'.pc # "insert"
    BY <1>0, <1>10, DecideEffect DEF Kept, Replaced, Updated, Idle
  <2>1. ASSUME drain'.pc = "replace", epoch # None
        PROVE  UpdatesAfter(drain'.prepared.seq) = {}
    <3>1. Replaced /\ Compacted /\ drain.pc = "find" /\ drain.reads = {"epoch", "compaction"}
      BY <2>0, <2>1, <1>10, DecideEffect DEF Kept, Replaced, Updated, Idle
    <3>2. drain.stored = epoch /\ epoch \in Epoch
      BY <1>0, <2>0, <2>1, <3>1 DEF Replaced, StoredRight
    <3>3. drain.compaction = 0 \/ \E m \in Compactions : m.seq = drain.compaction
      BY <1>0, <2>1, <3>1 DEF CompactionRight
    <3>4. drain.compaction \in Nat /\ epoch.seq \in Nat /\ drain.compaction > epoch.seq
      BY <2>0, <3>1, <3>2 DEF EpochTypeOK, Compacted, Epoch
    <3>5. PICK m \in Compactions : m.seq = drain.compaction
      BY <3>3, <3>4
    <3>6. \A u \in Updates : u.seq \in Nat /\ u.seq <= drain.compaction
      BY <1>0, <2>0, <2>1, <3>4, <3>5, MessageTypes DEF CompactionStopsUpdates
    <3>7. drain'.prepared.seq = drain.compaction
      BY <3>1 DEF Replaced
    <3> QED BY <3>4, <3>6, <3>7 DEF UpdatesAfter
  <2> QED BY <2>0, <2>1 DEF UpdatesAfter
<1>11. CASE ReadReplacement
  BY <1>0, <1>11 DEF ReadReplacement, RenderedRight, Prepared
<1>12. CASE Replace
  BY <1>0, <1>12 DEF Replace
<1>13. CASE Update
  BY <1>0, <1>13 DEF Update, Record, NextSequence, Message
<1>14. CASE RowGone
  BY <1>0, <1>14 DEF RowGone, End, Idle
<1>15. CASE ReadCompaction
  BY <1>0, <1>15 DEF ReadCompaction
<1>16. CASE CallModel
  BY <1>0, <1>16 DEF CallModel, Idle
<1>17. CASE Compact
  BY <1>0, <1>17 DEF Compact, Record, NextSequence, Other, Message, Attempt, Idle
<1>18. CASE TurnEnds
  BY <1>0, <1>18 DEF TurnEnds, Attempt, End, Idle
<1>19. CASE Fail
  BY <1>0, <1>19 DEF Fail, End, Idle
<1>20. CASE Moved
  BY <1>0, <1>20 DEF Moved, NextSequence
<1>21. ASSUME NEW b \in messages, Committed(b) PROVE BaselineRight'
  BY <1>0, <1>21 DEF Committed, NextSequence
<1>22. CASE OtherEvent
  BY <1>0, <1>22 DEF OtherEvent, NextSequence
<1>23. CASE UNCHANGED epochVars
  BY <1>0, <1>23 DEF epochVars
<1> QED BY <1>1, <1>2, <1>3, <1>4, <1>5, <1>6, <1>7, <1>8, <1>9, <1>10, <1>11, <1>12, <1>13,
   <1>14, <1>15, <1>16, <1>17, <1>18, <1>19, <1>20, <1>21, <1>22, <1>23
   DEF EpochNext

\* What is prepared stays what the row says, or the row is reset.
LEMMA NextPrepared ==
  ASSUME EpochInv, [EpochNext]_epochVars
  PROVE  PreparedRight'
<1>0. /\ EpochTypeOK /\ PreparedRight /\ StoredRight /\ RenderedRight /\ FreshRight
  BY DEF EpochInv
<1> USE DEF PreparedRight, EpochTypeOK
<1>1. CASE Start
  BY <1>0, <1>1 DEF Start, Attempt, Idle
<1>2. CASE EnterAttempt
  BY <1>0, <1>2 DEF EnterAttempt, End, Goto, Idle
<1>3. CASE Exists
  BY <1>0, <1>3 DEF Exists, Goto, FreshRight
<1>4. CASE InitializeOnce
  BY <1>0, <1>4, InitializeEffect DEF InitializeOnce, Idle
<1>5. CASE ReadLatest
  BY <1>0, <1>5 DEF ReadLatest
<1>6. CASE Insert
  BY <1>0, <1>6 DEF Insert, RenderedRight, Prepared
<1>7. CASE Promote
  BY <1>0, <1>7, PromoteEffect
<1>8. CASE Find
  BY <1>0, <1>8 DEF Find
<1>9. CASE FindCompaction
  BY <1>0, <1>9 DEF FindCompaction
<1>10. CASE Decide
  <2>0. /\ EpochTypeOK /\ epoch' = epoch
        /\ drain.pc = "find"
        /\ drain'.pc # "rows" /\ drain'.pc # "promote"
    BY <1>0, <1>10, DecideEffect DEF Kept, Replaced, Updated, Idle
  <2>1. ASSUME drain'.pc = "history", epoch # None
        PROVE  epoch = [baseline |-> drain'.prepared.baseline,
                        snapshot |-> drain'.wanted, seq |-> drain'.prepared.seq]
    <3>1. Kept
      BY <2>0, <2>1, <1>10, DecideEffect DEF Replaced, Updated, Idle
    <3>2. drain.stored = epoch /\ epoch \in Epoch
      BY <1>0, <2>0, <2>1, <3>1 DEF Kept, StoredRight
    <3> QED BY <3>1, <3>2 DEF Kept, Epoch
  <2> QED BY <2>0, <2>1
<1>11. CASE ReadReplacement
  BY <1>0, <1>11 DEF ReadReplacement
<1>12. CASE Replace
  BY <1>0, <1>12 DEF Replace, RenderedRight, Prepared
<1>13. CASE Update
  BY <1>0, <1>13, UpdateEffect DEF Message
<1>14. CASE RowGone
  BY <1>0, <1>14 DEF RowGone, End, Idle
<1>15. CASE ReadCompaction
  BY <1>0, <1>15 DEF ReadCompaction
<1>16. CASE CallModel
  BY <1>0, <1>16 DEF CallModel, Idle
<1>17. CASE Compact
  BY <1>0, <1>17 DEF Compact, Record, NextSequence, Other, Message, Attempt, Idle
<1>18. CASE TurnEnds
  BY <1>0, <1>18 DEF TurnEnds, Attempt, End, Idle
<1>19. CASE Fail
  BY <1>0, <1>19 DEF Fail, End, Idle
<1>20. CASE Moved
  BY <1>0, <1>20 DEF Moved, NextSequence
<1>21. ASSUME NEW b \in messages, Committed(b) PROVE PreparedRight'
  BY <1>0, <1>21 DEF Committed, NextSequence
<1>22. CASE OtherEvent
  BY <1>0, <1>22 DEF OtherEvent, NextSequence
<1>23. CASE UNCHANGED epochVars
  BY <1>0, <1>23 DEF epochVars
<1> QED BY <1>1, <1>2, <1>3, <1>4, <1>5, <1>6, <1>7, <1>8, <1>9, <1>10, <1>11, <1>12, <1>13,
   <1>14, <1>15, <1>16, <1>17, <1>18, <1>19, <1>20, <1>21, <1>22, <1>23
   DEF EpochNext


\* What the row and the conversation tell stays the same, or the row is reset.
LEMMA TellsStays ==
  ASSUME EpochMatchesHistory, Updates' = Updates, epoch' = epoch \/ epoch' = None
  PROVE  EpochMatchesHistory'
<1>1. CASE epoch' = None
  BY <1>1 DEF EpochMatchesHistory
<1>2. CASE epoch' = epoch
  BY <1>2 DEF EpochMatchesHistory, Tells, Told, Newest
<1> QED BY <1>1, <1>2

\* A new row whose baseline nothing was told after.
LEMMA TellsAnew ==
  ASSUME NEW context, NEW s, UpdatesAfter(s) = {}, messages' = messages,
         epoch' = [baseline |-> context, snapshot |-> context, seq |-> s]
  PROVE  EpochMatchesHistory'
<1>1. {u \in Updates' : u.seq > epoch'.seq} = {}
  BY DEF UpdatesAfter, Updates
<1> HIDE DEF UpdatesAfter
<1>2. Tells(context, {}, context)
  BY TellsBaseline
<1>3. Tells(epoch'.baseline, {u \in Updates' : u.seq > epoch'.seq}, epoch'.snapshot)
  BY <1>1, <1>2
<1> QED BY <1>3 DEF EpochMatchesHistory, Tells, Told, Newest

\* An update goes on from what the row says was told.
LEMMA TellsOn ==
  ASSUME EpochInv, Update
  PROVE  EpochMatchesHistory'
<1> DEFINE u == Message(seq + 1, "system", epoch.snapshot, drain.next)
<1>1. /\ EpochTypeOK /\ RenderedRight /\ StoredRight /\ EpochMatchesHistory /\ SequencesPast
      /\ epoch # None
  BY DEF EpochInv, Update
<1>2. /\ epoch \in Epoch /\ seq \in Nat
      /\ Updates' = Updates \cup {u}
      /\ epoch' = [baseline |-> epoch.baseline, snapshot |-> drain.next, seq |-> epoch.seq]
  BY <1>1, UpdateEffect
<1>3. Tells(epoch.baseline, UpdatesAfter(epoch.seq), epoch.snapshot)
  BY <1>1 DEF EpochMatchesHistory, UpdatesAfter
<1>4. \A v \in UpdatesAfter(epoch.seq) : v.seq \in Nat /\ v.seq < seq + 1
  BY <1>1, MessageTypes DEF UpdatesAfter
<1>5. u.before = epoch.snapshot /\ u.after = drain.next /\ u.seq = seq + 1 /\ u.seq \in Nat
  BY <1>2 DEF Message
<1> HIDE DEF u
<1>6. Tells(epoch.baseline, UpdatesAfter(epoch.seq) \cup {u}, u.after)
  BY <1>3, <1>4, <1>5, TellsUpdate
<1>7. {v \in Updates' : v.seq > epoch'.seq} = UpdatesAfter(epoch.seq) \cup {u}
  <2>1. u.seq > epoch.seq
    BY <1>1, <1>2, <1>5 DEF SequencesPast, Epoch
  <2>2. epoch'.seq = epoch.seq
    BY <1>2
  <2>3. {v \in Updates \cup {u} : v.seq > epoch.seq} = {v \in Updates : v.seq > epoch.seq} \cup {u}
    BY <2>1
  <2> QED BY <1>2, <2>2, <2>3 DEF UpdatesAfter
<1>8. Tells(epoch'.baseline, {v \in Updates' : v.seq > epoch'.seq}, epoch'.snapshot)
  BY <1>2, <1>5, <1>6, <1>7
<1> QED BY <1>8 DEF EpochMatchesHistory, Tells, Told, Newest

LEMMA NextTells ==
  ASSUME EpochInv, [EpochNext]_epochVars
  PROVE  EpochMatchesHistory'
<1>0. EpochTypeOK /\ EpochMatchesHistory /\ BaselineRight /\ RenderedRight
  BY DEF EpochInv
<1>1. CASE Update
  BY <1>1, TellsOn
<1>2. CASE Insert
  <2> DEFINE s == drain.prepared.seq
             context == drain.next
  <2>1. /\ UpdatesAfter(s) = {} /\ messages' = messages
        /\ epoch' = [baseline |-> context, snapshot |-> context, seq |-> s]
    BY <1>0, <1>2 DEF Insert, BaselineRight
  <2> HIDE DEF s, context
  <2> QED BY <2>1, TellsAnew
<1>3. CASE Replace
  <2> DEFINE s == drain.prepared.seq
             context == drain.next
  <2>1. /\ UpdatesAfter(s) = {} /\ messages' = messages
        /\ epoch' = [baseline |-> context, snapshot |-> context, seq |-> s]
    BY <1>0, <1>3 DEF Replace, BaselineRight
  <2> HIDE DEF s, context
  <2> QED BY <2>1, TellsAnew
<1>4. CASE Promote
  BY <1>0, <1>4, PromoteEffect, TellsStays
<1>5. CASE Compact
  <2>1. Updates' = Updates /\ epoch' = epoch
    BY <1>5 DEF Compact, Record, Other, Message, Updates
  <2> QED BY <1>0, <2>1, TellsStays
<1>6. CASE \E boundary \in messages : Committed(boundary)
  BY <1>6 DEF Committed, EpochMatchesHistory
<1>7. CASE Moved
  BY <1>7 DEF Moved, EpochMatchesHistory
<1>8. CASE UNCHANGED <<messages, epoch>>
  BY <1>0, <1>8, TellsStays DEF Updates
<1>9. CASE Decide
  BY <1>0, <1>8, <1>9, DecideEffect
<1>10. CASE \/ Start \/ EnterAttempt \/ Exists \/ InitializeOnce \/ ReadLatest
            \/ Find \/ FindCompaction \/ ReadReplacement \/ RowGone
            \/ ReadCompaction \/ CallModel \/ TurnEnds \/ Fail \/ OtherEvent
            \/ UNCHANGED epochVars
  <2>1. UNCHANGED <<messages, epoch>>
    BY <1>10 DEF Start, EnterAttempt, Exists, InitializeOnce, ReadLatest, Find,
         FindCompaction,
       ReadReplacement, RowGone, ReadCompaction, CallModel, TurnEnds,
       Fail, OtherEvent, epochVars
  <2> QED BY <1>8, <2>1
<1> QED BY <1>1, <1>2, <1>3, <1>4, <1>5, <1>6, <1>7, <1>9, <1>10 DEF EpochNext

-----------------------------------------------------------------------------
(* The theorems.                                                            *)

LEMMA InitEpochInv ==
  ASSUME EpochInit
  PROVE  EpochInv
<1>1. EpochTypeOK
  BY EpochInitTypes
<1>2. /\ drain = Idle /\ epoch = None /\ seq = 1
  BY DEF EpochInit
<1> QED BY <1>1, <1>2 DEF EpochInv, RenderedRight, FreshRight, SequencesPast, StoredRight,
     CompactionRight,
       CompactionStopsUpdates, UpdateRight, BaselineRight, PreparedRight, EpochMatchesHistory, Idle

LEMMA NextEpochInv ==
  ASSUME EpochInv, [EpochNext]_epochVars
  PROVE  EpochInv'
BY EpochNextTypes, NextRendered, NextFresh, NextSequences, NextStored, NextCompaction, NextStops,
     NextUpdate,
   NextBaseline, NextPrepared, NextTells DEF EpochInv

\* The drain fiber knows enough of the tables it read, whatever falls between
\* its reads and its writes.
THEOREM EpochInductive == EpochSpec => []EpochInv
<1>1. EpochInit => EpochInv
  BY InitEpochInv
<1>2. EpochInv /\ [EpochNext]_epochVars => EpochInv'
  BY NextEpochInv
<1> QED BY <1>1, <1>2, PTL DEF EpochSpec

\* The tables and the attempt's local state keep their types.
THEOREM EpochTypeCorrect == EpochSpec => []EpochTypeOK
<1>1. EpochInv => EpochTypeOK
  BY DEF EpochInv
<1> QED BY <1>1, EpochInductive, PTL

\* The updates after the stored baseline lead from it to the stored snapshot:
\* the next change is rendered against what the model has really been told.
THEOREM EpochTellsHistory == EpochSpec => []EpochMatchesHistory
<1>1. EpochInv => EpochMatchesHistory
  BY DEF EpochInv
<1> QED BY <1>1, EpochInductive, PTL

\* A request tells the model what its turn observed: a compaction hides no
\* update that its baseline has not taken in.
THEOREM RequestsTellContext == EpochSpec => []RequestTellsContext
<1>1. ASSUME EpochInv, drain.pc = "rows", epoch # None
      PROVE  Tells(drain.prepared.baseline,
                   {u \in Rows(drain.compaction, drain.prepared.seq) : u.type = "system"}, drain.wanted)
  <2>1. epoch = [baseline |-> drain.prepared.baseline, snapshot |-> drain.wanted, seq |-> drain.prepared.seq]
    BY <1>1 DEF EpochInv, PreparedRight
  <2>2. Tells(epoch.baseline, {u \in Updates : u.seq > epoch.seq}, epoch.snapshot)
    BY <1>1 DEF EpochInv, EpochMatchesHistory
  <2>3. {u \in Rows(drain.compaction, drain.prepared.seq) : u.type = "system"}
          = {u \in Updates : u.seq > drain.prepared.seq}
    BY DEF Rows, Updates
  <2> QED BY <2>1, <2>2, <2>3
<1>2. EpochInv => RequestTellsContext
  BY <1>1 DEF RequestTellsContext
<1> QED BY <1>2, EpochInductive, PTL

=============================================================================
