--------------------------- MODULE TurnSettlement ---------------------------
(***************************************************************************)
(* The provider turns of one session (packages/core/src/session/runner/    *)
(* llm.ts with its publisher publish-llm-event.ts) and what message-       *)
(* updater.ts projects of them.  A run of the drain fails the calls that   *)
(* an earlier process left open, then requests provider turns.  The        *)
(* provider's stream announces tool calls; each recorded local call runs   *)
(* in a fiber of its own, hosted calls are run by the provider.  The turn  *)
(* has to settle every call in the log, whether the stream ends, fails or  *)
(* is interrupted, a tool fails, or the process stops.                     *)
(*                                                                         *)
(* The publisher first marks what it publishes (the settled flag of a      *)
(* call, the start of the assistant message) and then commits the event.   *)
(* In the stream an interruption can fall in between; a tool's result and  *)
(* all that follows the stream are published uninterruptibly.              *)
(*                                                                         *)
(* Not here: text and reasoning, the input fragments of a call, snapshots, *)
(* compaction (an attempt it restarts leaves nothing of what is modelled). *)
(***************************************************************************)
EXTENDS Integers, Sequences, FiniteSets

CONSTANTS
  Calls,        (* tool calls, of all turns                                *)
  NoCall,       (* the call of an event that is about none                 *)
  LastStep,     (* agent.steps: from this step on tools are disabled       *)
  MaxTurns      (* bound: provider turns                                   *)

ASSUME TurnAssumption ==
  /\ NoCall \notin Calls
  /\ LastStep \in Nat \ {0}
  /\ MaxTurns \in Nat

VARIABLES
  part,         (* durable: the projected state of each call               *)
  hosted,       (* durable: calls recorded as executed by the provider     *)
  settlements,  (* durable: how many Success and Failed events a call has  *)
  steps,        (* durable: the Step events of the latest turn             *)
  turns,        (* provider turns requested so far                         *)
  refused,      (* calls recorded while tools were disabled                *)
  pc,           (* where the drain fiber is                                *)
  step,         (* currentStep                                             *)
  entry,        (* the publisher's tools                                   *)
  out,          (* what the drain fiber has marked and not yet committed   *)
  flags,        (* the publisher's flags and needsContinuation             *)
  fails,        (* failUnsettledTools: which calls, and where it returns   *)
  exit,         (* how the provider's stream ended                         *)
  settled,      (* how the wait for the tool fibers ended                  *)
  fiber,        (* the tool fibers                                         *)
  failure,      (* why the first of them failed                            *)
  interrupted   (* the drain fiber was interrupted                         *)

durable == <<part, hosted, settlements, steps, turns, refused>>
turn    == <<step, entry, flags, fails, exit, settled>>
tools   == <<fiber, failure>>
vars    == <<durable, pc, turn, out, tools, interrupted>>

-----------------------------------------------------------------------------
Event(name, c) == [name |-> name, call |-> c]

\* The drain fiber has nothing to commit.
Quiet == Event("none", NoCall)

NoFlags == [started |-> FALSE, active |-> FALSE, failed |-> FALSE,
            providerFailed |-> FALSE, finished |-> FALSE, continue |-> FALSE]

NoEntry == [known |-> FALSE, called |-> FALSE, settled |-> FALSE, hosted |-> FALSE]

\* A drain fiber that has nothing, as before the first run and after a crash.
Fresh ==
  /\ pc' = "idle"
  /\ entry' = [c \in Calls |-> NoEntry]
  /\ flags' = NoFlags
  /\ fails' = [all |-> FALSE, to |-> "idle"]
  /\ exit' = "none"
  /\ settled' = "none"
  /\ out' = Quiet
  /\ fiber' = [c \in Calls |-> "none"]
  /\ failure' = "none"

Init ==
  /\ part = [c \in Calls |-> "absent"]
  /\ hosted = {}
  /\ settlements = [c \in Calls |-> 0]
  /\ steps = <<>>
  /\ turns = 0
  /\ refused = {}
  /\ pc = "idle"
  /\ step = 1
  /\ entry = [c \in Calls |-> NoEntry]
  /\ out = Quiet
  /\ flags = NoFlags
  /\ fails = [all |-> FALSE, to |-> "idle"]
  /\ exit = "none"
  /\ settled = "none"
  /\ fiber = [c \in Calls |-> "none"]
  /\ failure = "none"
  /\ interrupted = FALSE

-----------------------------------------------------------------------------
(* Events and their projection.                                             *)

IsOpen(c) == part[c] \in {"pending", "running"}

\* The updater: a call is pending from its first input, running once called,
\* and settled by the first result that finds it so.
Projected(e) ==
  CASE e.name = "input" -> [part EXCEPT ![e.call] = "pending"]
    [] e.name = "called" -> [part EXCEPT ![e.call] = IF @ = "absent" THEN @ ELSE "running"]
    [] e.name = "completed" -> [part EXCEPT ![e.call] = IF @ = "running" THEN "completed" ELSE @]
    [] e.name = "error" -> [part EXCEPT ![e.call] = IF IsOpen(e.call) THEN "error" ELSE @]
    [] OTHER -> part

\* One durable event.
Commits(e) ==
  /\ part' = Projected(e)
  /\ hosted' = IF e.name = "called" /\ entry[e.call].hosted THEN hosted \cup {e.call} ELSE hosted
  /\ settlements' = IF e.name \in {"completed", "error"}
                      THEN [settlements EXCEPT ![e.call] = @ + 1] ELSE settlements
  /\ steps' = IF e.name \in {"started", "ended", "failed"} THEN Append(steps, e.name) ELSE steps
  /\ refused' = IF e.name = "called" /\ step >= LastStep
                  THEN refused \cup {e.call} ELSE refused
  /\ UNCHANGED turns

\* Nobody holds the publication permit: the drain fiber has it from the mark to
\* the commit, and while it fails unsettled tools.
PermitFree == pc # "failing" /\ out.name \in {"none", "run"}

-----------------------------------------------------------------------------
(* A run of the drain, from its start to a provider request.                *)

Run ==
  /\ pc = "idle"
  /\ turns < MaxTurns
  /\ pc' = "recover"
  /\ step' = 1
  /\ interrupted' = FALSE
  /\ UNCHANGED <<durable, entry, flags, fails, exit, settled, out, tools>>

\* failInterruptedTools, one event at a time.
FailInterrupted(c) ==
  /\ pc = "recover"
  /\ ~interrupted
  /\ IsOpen(c)
  /\ Commits(Event("error", c))
  /\ UNCHANGED <<pc, turn, out, tools, interrupted>>

\* Faulty variant of Recovered: nothing is looked for.
RecoveredUnchecked ==
  /\ pc = "recover"
  /\ ~interrupted
  /\ pc' = "request"
  /\ UNCHANGED <<durable, turn, out, tools, interrupted>>

Recovered ==
  /\ pc = "recover"
  /\ ~interrupted
  /\ \A c \in Calls : ~IsOpen(c)
  /\ pc' = "request"
  /\ UNCHANGED <<durable, turn, out, tools, interrupted>>

\* A new publisher; input that the turn promotes restarts the step allowance.
Request ==
  /\ pc = "request"
  /\ ~interrupted
  /\ turns < MaxTurns
  /\ turns' = turns + 1
  /\ steps' = <<>>
  /\ step' \in {step, 1}
  /\ pc' = "stream"
  /\ entry' = [c \in Calls |-> NoEntry]
  /\ flags' = NoFlags
  /\ exit' = "none"
  /\ settled' = "none"
  /\ failure' = "none"
  /\ UNCHANGED <<part, hosted, settlements, refused, fails, out, fiber, interrupted>>

-----------------------------------------------------------------------------
(* The provider's stream.                                                   *)

\* The next event of the stream is taken: none is being published, and none is
\* taken after a provider error.
Streams ==
  /\ pc = "stream"
  /\ out = Quiet
  /\ ~interrupted
  /\ ~flags.providerFailed

\* startAssistant.
StartAssistant ==
  /\ Streams
  /\ ~flags.started
  /\ flags' = [flags EXCEPT !.started = TRUE, !.active = TRUE]
  /\ out' = Event("started", NoCall)
  /\ UNCHANGED <<durable, pc, step, entry, fails, exit, settled, tools, interrupted>>

\* tool-input-start, or the tool-call of a call that had none.
StartToolInput(c) ==
  /\ Streams
  /\ flags.started
  /\ part[c] = "absent" /\ settlements[c] = 0 /\ ~entry[c].known
  /\ entry' = [entry EXCEPT ![c].known = TRUE]
  /\ out' = Event("input", c)
  /\ UNCHANGED <<durable, pc, step, flags, fails, exit, settled, tools, interrupted>>

\* tool-call.
ToolCall(c, isHosted) ==
  /\ Streams
  /\ entry[c].known /\ ~entry[c].called
  /\ entry' = [entry EXCEPT ![c].called = TRUE, ![c].hosted = isHosted]
  /\ out' = Event("called", c)
  /\ UNCHANGED <<durable, pc, step, flags, fails, exit, settled, tools, interrupted>>

\* tool-result and tool-error of a hosted call.
HostedResult(c, result) ==
  /\ Streams
  /\ entry[c].called /\ entry[c].hosted /\ ~entry[c].settled
  /\ entry' = [entry EXCEPT ![c].settled = TRUE]
  /\ out' = Event(result, c)
  /\ UNCHANGED <<durable, pc, step, flags, fails, exit, settled, tools, interrupted>>

StepFinish ==
  /\ Streams
  /\ flags.started
  /\ ~flags.finished
  /\ flags' = [flags EXCEPT !.active = FALSE, !.finished = TRUE]
  /\ UNCHANGED <<durable, pc, out, step, entry, fails, exit, settled, tools, interrupted>>

\* provider-error: the assistant fails at once.
ProviderError ==
  /\ Streams
  /\ flags.started
  /\ flags' = [flags EXCEPT !.providerFailed = TRUE, !.active = FALSE, !.failed = TRUE]
  /\ out' = Event("failed", NoCall)
  /\ UNCHANGED <<durable, pc, step, entry, fails, exit, settled, tools, interrupted>>

\* The marked event is committed.  A local call that has been recorded is next
\* to run.
Commit ==
  /\ out.name \notin {"none", "run"}
  /\ Commits(out)
  /\ out' = IF out.name = "called" /\ ~entry[out.call].hosted
              THEN Event("run", out.call) ELSE Quiet
  /\ UNCHANGED <<pc, turn, tools, interrupted>>

\* Faulty variant of RunTool: the call runs before it is recorded.
RunToolEarly ==
  /\ out.name = "called" /\ ~entry[out.call].hosted
  /\ step < LastStep
  /\ flags' = [flags EXCEPT !.continue = TRUE]
  /\ fiber' = [fiber EXCEPT ![out.call] = "settling"]
  /\ UNCHANGED <<durable, pc, out, step, entry, fails, exit, settled, failure, interrupted>>

\* A recorded local call gets its fiber.
RunTool ==
  /\ out.name = "run"
  /\ ~interrupted
  /\ step < LastStep
  /\ flags' = [flags EXCEPT !.continue = TRUE]
  /\ fiber' = [fiber EXCEPT ![out.call] = "settling"]
  /\ out' = Quiet
  /\ UNCHANGED <<durable, pc, step, entry, fails, exit, settled, failure, interrupted>>

\* On the last step every unsettled call is failed instead, called or not.
RefuseTool ==
  /\ out.name = "run"
  /\ ~interrupted
  /\ step >= LastStep
  /\ fails' = [all |-> TRUE, to |-> "stream"]
  /\ pc' = "failing"
  /\ out' = Quiet
  /\ UNCHANGED <<durable, step, entry, flags, exit, settled, tools, interrupted>>

\* The stream ends, fails in the transport, or dies of an event out of order.
StreamEnds(how) ==
  /\ pc = "stream"
  /\ out = Quiet
  /\ ~interrupted
  /\ exit' = how
  /\ pc' = "exited"
  /\ UNCHANGED <<durable, out, step, entry, flags, fails, settled, tools, interrupted>>

\* The stream is interrupted; what was marked and not committed is forgotten.
StreamInterrupted ==
  /\ pc \in {"stream", "failing"}
  /\ pc = "failing" => fails.to = "stream"
  /\ interrupted
  /\ exit' = "interrupted"
  /\ pc' = "exited"
  /\ out' = Quiet
  /\ UNCHANGED <<durable, step, entry, flags, fails, settled, tools, interrupted>>

-----------------------------------------------------------------------------
(* The tool fibers.                                                         *)

\* The tool comes back, with a result or with an error for the model; from
\* here on its fiber cannot be interrupted.
ToolReturns(c, result) ==
  /\ fiber[c] = "settling"
  /\ fiber' = [fiber EXCEPT ![c] = result]
  /\ UNCHANGED <<durable, pc, turn, out, failure, interrupted>>

\* The fiber fails: the user declined what the tool asked, or the tool died.
\* The set of fibers keeps the first failure.
ToolFails(c, why) ==
  /\ fiber[c] = "settling"
  /\ fiber' = [fiber EXCEPT ![c] = "none"]
  /\ failure' = IF failure = "none" THEN why ELSE failure
  /\ UNCHANGED <<durable, pc, turn, out, interrupted>>

\* Faulty variant of PublishResult: the settled flag is not looked at.
PublishResultAgain(c) ==
  /\ fiber[c] \in {"completed", "error"}
  /\ PermitFree
  /\ entry' = [entry EXCEPT ![c].settled = TRUE]
  /\ Commits(Event(fiber[c], c))
  /\ fiber' = [fiber EXCEPT ![c] = "none"]
  /\ UNCHANGED <<pc, step, out, flags, fails, exit, settled, failure, interrupted>>

\* tool-result of a local call.
PublishResult(c) ==
  /\ fiber[c] \in {"completed", "error"}
  /\ PermitFree
  /\ ~entry[c].settled
  /\ entry' = [entry EXCEPT ![c].settled = TRUE]
  /\ Commits(Event(fiber[c], c))
  /\ fiber' = [fiber EXCEPT ![c] = "none"]
  /\ UNCHANGED <<pc, step, out, flags, fails, exit, settled, failure, interrupted>>

\* The call was settled before: an error is dropped, a result kills the fiber.
LateResult(c) ==
  /\ fiber[c] \in {"completed", "error"}
  /\ PermitFree
  /\ entry[c].settled
  /\ fiber' = [fiber EXCEPT ![c] = "none"]
  /\ failure' = IF failure = "none" /\ fiber[c] = "completed" THEN "defect" ELSE failure
  /\ UNCHANGED <<durable, pc, turn, out, interrupted>>

-----------------------------------------------------------------------------
(* What the turn does after the stream.                                     *)

Unsettled(c) == entry[c].known /\ ~entry[c].settled /\ (fails.all \/ entry[c].hosted)

\* The drain fiber goes on to p, or fails tools first.
GoTo(p) == pc' = p /\ UNCHANGED fails

FailTools(all, p) == pc' = "failing" /\ fails' = [all |-> all, to |-> p]

FailNext(c) ==
  /\ pc = "failing"
  /\ out = Quiet
  /\ fails.to = "stream" => ~interrupted
  /\ Unsettled(c)
  /\ entry' = [entry EXCEPT ![c].settled = TRUE]
  /\ out' = Event("error", c)
  /\ UNCHANGED <<durable, pc, step, flags, fails, exit, settled, tools, interrupted>>

FailDone ==
  /\ pc = "failing"
  /\ out = Quiet
  /\ \A c \in Calls : ~Unsettled(c)
  /\ GoTo(fails.to)
  /\ UNCHANGED <<durable, out, step, entry, flags, exit, settled, tools, interrupted>>

\* The stream's end.
Exited ==
  /\ pc = "exited"
  /\ IF exit = "failure" /\ ~flags.providerFailed
       THEN FailTools(FALSE, "failAssistant")
       ELSE GoTo(IF exit = "interrupted" THEN "clear" ELSE "await")
  /\ UNCHANGED <<durable, out, step, entry, flags, exit, settled, tools, interrupted>>

\* failAssistant; after an interruption only if the assistant is still active.
FailAssistant ==
  /\ pc \in {"failAssistant", "failActive"}
  /\ out = Quiet
  /\ LET next == IF pc = "failAssistant" THEN "await" ELSE "stepEnd"
         need == ~flags.failed /\ (pc = "failActive" => flags.active)
     IN \/ /\ ~need
           /\ GoTo(next)
           /\ UNCHANGED <<flags, out>>
        \/ /\ need /\ ~flags.started
           /\ flags' = [flags EXCEPT !.started = TRUE, !.active = TRUE]
           /\ out' = Event("started", NoCall)
           /\ UNCHANGED <<pc, fails>>
        \/ /\ need /\ flags.started
           /\ flags' = [flags EXCEPT !.active = FALSE, !.failed = TRUE]
           /\ out' = Event("failed", NoCall)
           /\ GoTo(next)
  /\ UNCHANGED <<durable, step, entry, exit, settled, tools, interrupted>>

\* Faulty variant of InterruptTool: what the turn clears it only waits for.
InterruptToolAtReturn(c) ==
  /\ pc = "return"
  /\ out = Quiet
  /\ fiber[c] = "settling"
  /\ fiber' = [fiber EXCEPT ![c] = "none"]
  /\ UNCHANGED <<durable, pc, turn, out, failure, interrupted>>

\* FiberSet.clear, and the end of the turn's scope: a fiber that is publishing
\* its result is waited for.
InterruptTool(c) ==
  /\ pc \in {"clear", "return"}
  /\ out = Quiet
  /\ fiber[c] = "settling"
  /\ fiber' = [fiber EXCEPT ![c] = "none"]
  /\ UNCHANGED <<durable, pc, turn, out, failure, interrupted>>

NoFibers == \A c \in Calls : fiber[c] = "none"

Cleared ==
  /\ pc = "clear"
  /\ NoFibers
  /\ GoTo(IF settled = "none" THEN "await" ELSE "failing")
  /\ UNCHANGED <<durable, out, step, entry, flags, exit, settled, tools, interrupted>>

\* awaitToolFibers: the first failure, or all of them done, or the drain fiber
\* is interrupted while it waits.
AwaitTools ==
  /\ pc = "await"
  /\ out = Quiet
  /\ \/ /\ interrupted
        /\ settled' = "interrupted"
        /\ pc' = "clear" /\ fails' = [all |-> TRUE, to |-> "failActive"]
     \/ /\ ~interrupted /\ failure = "declined"
        /\ settled' = "declined"
        /\ pc' = "clear" /\ fails' = [all |-> TRUE, to |-> "return"]
     \/ /\ ~interrupted /\ failure = "defect"
        /\ settled' = "defect"
        /\ FailTools(TRUE, "stepEnd")
     \/ /\ ~interrupted /\ failure = "none" /\ NoFibers
        /\ settled' = "success"
        /\ GoTo("stepEnd")
  /\ UNCHANGED <<durable, out, step, entry, flags, exit, tools, interrupted>>

\* Faulty variant of StepEnd: only a stream that succeeds ends its step.
StepEndOnSuccess ==
  /\ pc = "stepEnd"
  /\ out = Quiet
  /\ GoTo("close")
  /\ out' = IF exit = "success" /\ flags.finished /\ ~flags.providerFailed
              THEN Event("ended", NoCall) ELSE Quiet
  /\ UNCHANGED <<durable, step, entry, flags, exit, settled, tools, interrupted>>

StepEnd ==
  /\ pc = "stepEnd"
  /\ out = Quiet
  /\ GoTo("close")
  /\ out' = IF flags.finished /\ ~flags.providerFailed THEN Event("ended", NoCall) ELSE Quiet
  /\ UNCHANGED <<durable, step, entry, flags, exit, settled, tools, interrupted>>

\* Faulty variant of Close: hosted calls are left to the provider.
CloseOnError ==
  /\ pc = "close"
  /\ out = Quiet
  /\ IF flags.providerFailed THEN FailTools(TRUE, "return") ELSE GoTo("return")
  /\ UNCHANGED <<durable, out, step, entry, flags, exit, settled, tools, interrupted>>

\* What a provider error, or the end of the stream, leaves unsettled.
Close ==
  /\ pc = "close"
  /\ out = Quiet
  /\ IF flags.providerFailed THEN FailTools(TRUE, "return")
     ELSE IF exit = "success" THEN FailTools(FALSE, "return")
     ELSE GoTo("return")
  /\ UNCHANGED <<durable, out, step, entry, flags, exit, settled, tools, interrupted>>

\* The run goes on after tool calls, or for input that came meanwhile; it ends
\* with the turn that failed or was interrupted or declined.
Continues ==
  /\ exit = "success"
  /\ settled \in {"success", "defect"}
  /\ ~interrupted
  /\ turns < MaxTurns

TurnReturns ==
  /\ pc = "return"
  /\ out = Quiet
  /\ NoFibers
  /\ \/ /\ Continues
        /\ pc' = "request"
        /\ step' = step + 1
        /\ UNCHANGED <<durable, out, entry, flags, fails, exit, settled, tools, interrupted>>
     \/ /\ Continues => ~flags.continue \/ flags.providerFailed
        /\ Fresh
        /\ step' = 1
        /\ interrupted' = FALSE
        /\ UNCHANGED durable

-----------------------------------------------------------------------------
(* Interruption and crash.                                                  *)

Interrupt ==
  /\ pc # "idle"
  /\ ~interrupted
  /\ interrupted' = TRUE
  /\ UNCHANGED <<durable, pc, turn, out, tools>>

\* Outside a turn an interruption ends the run at once.
RunInterrupted ==
  /\ pc \in {"recover", "request"}
  /\ interrupted
  /\ Fresh
  /\ step' = 1
  /\ interrupted' = FALSE
  /\ UNCHANGED durable

\* The process stops.
Crash ==
  /\ pc # "idle"
  /\ Fresh
  /\ step' = 1
  /\ interrupted' = FALSE
  /\ UNCHANGED durable

\* What the drain fiber does of its own accord.
Proceeds ==
  \/ \E c \in Calls : FailInterrupted(c) \/ FailNext(c) \/ InterruptTool(c)
  \/ Recovered
  \/ Request
  \/ Commit
  \/ RunTool
  \/ RefuseTool
  \/ StreamInterrupted
  \/ FailDone
  \/ Exited
  \/ FailAssistant
  \/ Cleared
  \/ AwaitTools
  \/ StepEnd
  \/ Close
  \/ TurnReturns
  \/ RunInterrupted

\* What the provider sends, and how its stream ends.
Provides ==
  \/ StartAssistant
  \/ \E c \in Calls : StartToolInput(c)
  \/ \E c \in Calls, h \in BOOLEAN : ToolCall(c, h)
  \/ \E c \in Calls, r \in {"completed", "error"} : HostedResult(c, r)
  \/ StepFinish
  \/ ProviderError
  \/ \E how \in {"success", "failure", "died"} : StreamEnds(how)

Publishes == \E c \in Calls : PublishResult(c) \/ LateResult(c)

Next ==
  \/ Run
  \/ Proceeds
  \/ Provides
  \/ Publishes
  \/ \E c \in Calls, r \in {"completed", "error"} : ToolReturns(c, r)
  \/ \E c \in Calls, why \in {"declined", "defect"} : ToolFails(c, why)
  \/ Interrupt
  \/ Crash

Spec == Init /\ [][Next]_vars

\* Fibers that can run do.  The provider may stall, and tools may block.
FairSpec == Spec /\ WF_vars(Proceeds) /\ WF_vars(Publishes)

-----------------------------------------------------------------------------
(* Properties.                                                              *)

DrainEvents ==
  [name : {"started", "ended", "failed", "input", "called", "completed", "error", "run", "none"},
   call : Calls \cup {NoCall}]

EntryState == [known : BOOLEAN, called : BOOLEAN, settled : BOOLEAN, hosted : BOOLEAN]

FlagState == [started : BOOLEAN, active : BOOLEAN, failed : BOOLEAN,
              providerFailed : BOOLEAN, finished : BOOLEAN, continue : BOOLEAN]

Places == {"idle", "recover", "request", "stream", "failing", "exited", "clear",
           "await", "failAssistant", "failActive", "stepEnd", "close", "return"}

\* Types: what the log projects, what the publisher keeps and where the drain
\* fiber is range over what llm.ts and publish-llm-event.ts declare.
TypeOK ==
  /\ part \in [Calls -> {"absent", "pending", "running", "completed", "error"}]
  /\ hosted \in SUBSET Calls
  /\ settlements \in [Calls -> Nat]
  /\ steps \in Seq({"started", "ended", "failed"})
  /\ turns \in 0..MaxTurns
  /\ refused \in SUBSET Calls
  /\ pc \in Places
  /\ step \in Nat
  /\ entry \in [Calls -> EntryState]
  /\ out \in DrainEvents
  /\ flags \in FlagState
  /\ fails \in [all : BOOLEAN, to : Places]
  /\ exit \in {"none", "success", "failure", "died", "interrupted"}
  /\ settled \in {"none", "success", "declined", "defect", "interrupted"}
  /\ fiber \in [Calls -> {"none", "settling", "completed", "error"}]
  /\ failure \in {"none", "declined", "defect"}
  /\ interrupted \in BOOLEAN

\* A call gets one result in the log, whoever settles it first: its tool, the
\* provider, the end of the turn, or the run after a crash.  (Not of calls the
\* model makes while tools are disabled: their turn's own repair fails those
\* whose input had only started, and a later call is skipped.)
SettledOnce == \A c \in Calls \ refused : settlements[c] <= 1

\* A provider request is never made while a call of an earlier turn is still
\* running in the history, whatever that turn or process died of.
NoCallLeftBehind ==
  pc = "stream" =>
    \A c \in Calls \ refused : part[c] = "running" => entry[c].called

\* A turn settles its own calls, without waiting for the next run: what is
\* still running when it returns is a hosted call whose result the
\* interruption took back, a call made while tools were disabled, or the stream
\* died of an event out of order.
TurnSettlesCalls ==
  pc = "return" =>
    \A c \in Calls :
      part[c] = "running" =>
        exit = "died" \/ c \in refused \/ (exit = "interrupted" /\ c \in hosted)

\* "Durably record each tool call before side effects begin", and do not report
\* it failed while it executes: a tool executes only while the log has its call
\* running.  The exception: a tool that dies fails its siblings in the log
\* while they still execute.
ExecutesWhileRunning ==
  \A c \in Calls : fiber[c] # "none" => part[c] = "running" \/ settled = "defect"

\* A turn that fails or is interrupted, or whose step finished, closes its
\* assistant message in the log: the last Step event is Ended or Failed.  (Not
\* when the user declines; and an interruption may take a provider error back.)
AssistantCloses ==
  /\ pc = "return"
  /\ steps # <<>>
  /\ settled # "declined"
  /\ exit \in {"failure", "interrupted"} \/ flags.finished
  /\ exit = "interrupted" => ~flags.providerFailed
  => steps[Len(steps)] \in {"ended", "failed"}

\* An interrupted run ends, with tools that never return and a provider that
\* has stalled: nothing it waits for can wait for it.
InterruptEnds == interrupted ~> ~interrupted

=============================================================================
