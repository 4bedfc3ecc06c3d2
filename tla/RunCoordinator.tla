--------------------------- MODULE RunCoordinator ---------------------------
(***************************************************************************)
(* packages/core/src/session/run-coordinator.ts as session/execution/      *)
(* local.ts uses it: for each session at most one drain fiber runs, runs   *)
(* join it, wakes coalesce into one follow-up, interrupts stop it.         *)
(*                                                                         *)
(* Every operation of the coordinator is one synchronous stretch of code,  *)
(* hence one action; a drain runs in a fiber of its own and suspends       *)
(* between its steps.  Of the drain (session/runner/llm.ts, run) the model *)
(* keeps that it looks for recorded work, does a turn while there is some  *)
(* or while it is forced to, and ends when it finds none.                  *)
(***************************************************************************)
EXTENDS Integers, FiniteSets

CONSTANTS
  Keys,       (* sessions                                                  *)
  Callers,    (* fibers that prompt, resume and interrupt sessions         *)
  NoKey,      (* a caller is busy with no session                          *)
  MaxWork,    (* bound: prompts recorded and not consumed, per session     *)
  MaxCalls    (* bound: operations called in all                           *)

ASSUME RunCoordinatorAssumption ==
  /\ NoKey \notin Keys
  /\ MaxWork \in Nat
  /\ MaxCalls \in Nat

VARIABLES
  entry,      (* the active map: one Entry, or NoEntry, per session        *)
  fibers,     (* the drain fibers of a session that have not exited        *)
  starts,     (* fibers forked so far per session: numbers them            *)
  work,       (* prompts recorded durably and not consumed                 *)
  caller,     (* what each caller is doing                                 *)
  calls,      (* operations called so far                                  *)
  owed,       (* history: a wake came while a drain was active, and no     *)
              (* drain has been started, or interrupted, since             *)
  excused     (* history: the recorded work may wait for another request   *)

execVars == <<entry, fibers, starts>>
vars == <<entry, fibers, starts, work, caller, calls, owed, excused>>

-----------------------------------------------------------------------------
NoEntry == [live |-> FALSE, owner |-> 0, pendingWake |-> FALSE, stopping |-> FALSE]

NewEntry(n) == [NoEntry EXCEPT !.live = TRUE, !.owner = n]

\* A successor yields before it drains; any other drain starts at once.
NewFiber(n, force, successor) ==
  [num |-> n, force |-> force, interrupted |-> FALSE,
   phase |-> IF successor THEN "yielded" ELSE "looking"]

IdleCaller == [pc |-> "idle", key |-> NoKey, num |-> 0, result |-> "none"]

Init ==
  /\ entry = [k \in Keys |-> NoEntry]
  /\ fibers = [k \in Keys |-> {}]
  /\ starts = [k \in Keys |-> 0]
  /\ work = [k \in Keys |-> 0]
  /\ caller = [c \in Callers |-> IdleCaller]
  /\ calls = 0
  /\ owed = [k \in Keys |-> FALSE]
  /\ excused = [k \in Keys |-> FALSE]

Busy(c, pc, k, n) == [pc |-> pc, key |-> k, num |-> n, result |-> "none"]

\* start for a session without an entry.
StartIdle(k, force) ==
  /\ starts' = [starts EXCEPT ![k] = @ + 1]
  /\ entry' = [entry EXCEPT ![k] = NewEntry(starts[k] + 1)]
  /\ fibers' = [fibers EXCEPT ![k] = @ \cup {NewFiber(starts[k] + 1, force, FALSE)}]

-----------------------------------------------------------------------------
(* The operations.                                                          *)

Call(c) ==
  /\ caller[c].pc = "idle"
  /\ calls < MaxCalls
  /\ calls' = calls + 1

\* Session.prompt records the prompt; unless it is told not to resume it wakes
\* the session next, and is uninterruptible until it has.
Record(c, k, resume) ==
  /\ Call(c)
  /\ work[k] < MaxWork
  /\ work' = [work EXCEPT ![k] = @ + 1]
  /\ caller' = [caller EXCEPT ![c] = IF resume THEN Busy(c, "recorded", k, 0) ELSE @]
  /\ excused' = [excused EXCEPT ![k] = @ \/ ~resume]
  /\ UNCHANGED <<execVars, owed>>

\* Faulty variant of WakeActive: a wake is dropped while the entry is stopping.
WakeDroppedWhileStopping(k) ==
  /\ entry[k].live
  /\ entry' = [entry EXCEPT ![k].pendingWake = @ \/ ~entry[k].stopping]
  /\ owed' = [owed EXCEPT ![k] = TRUE]
  /\ UNCHANGED <<fibers, starts>>

\* wake: registers a follow-up with the active entry, or starts a drain.
WakeActive(k) ==
  /\ entry[k].live
  /\ entry' = [entry EXCEPT ![k].pendingWake = TRUE]
  /\ owed' = [owed EXCEPT ![k] = TRUE]
  /\ UNCHANGED <<fibers, starts>>

WakeIdle(k) ==
  /\ ~entry[k].live
  /\ StartIdle(k, FALSE)
  /\ UNCHANGED owed

Wake(c) ==
  LET k == caller[c].key
  IN /\ caller[c].pc = "recorded"
     /\ WakeActive(k) \/ WakeIdle(k)
     /\ caller' = [caller EXCEPT ![c] = IdleCaller]
     /\ excused' = [excused EXCEPT ![k] = FALSE]
     /\ UNCHANGED <<work, calls>>

\* run: joins the active entry, waits for a stopping one and tries again, or
\* starts a forced drain and joins it.
RunJoin(c, k) ==
  /\ entry[k].live
  /\ caller' = [caller EXCEPT ![c] =
        Busy(c, IF entry[k].stopping THEN "stopwait" ELSE "joined", k, 0)]
  /\ UNCHANGED <<execVars, owed>>

\* Faulty variant of RunIdle: a run does not wait for a stopping drain.
RunOverStopping(c, k) ==
  /\ ~entry[k].live \/ entry[k].stopping
  /\ StartIdle(k, TRUE)
  /\ caller' = [caller EXCEPT ![c] = Busy(c, "joined", k, 0)]
  /\ UNCHANGED owed

RunIdle(c, k) ==
  /\ ~entry[k].live
  /\ StartIdle(k, TRUE)
  /\ caller' = [caller EXCEPT ![c] = Busy(c, "joined", k, 0)]
  /\ UNCHANGED owed

Run(c, k) ==
  /\ Call(c)
  /\ RunJoin(c, k) \/ RunIdle(c, k)
  /\ UNCHANGED <<work, excused>>

Rerun(c) ==
  /\ caller[c].pc = "rerun"
  /\ RunJoin(c, caller[c].key) \/ RunIdle(c, caller[c].key)
  /\ UNCHANGED <<work, calls, excused>>

\* interrupt: marks the entry, forgets its pending wake and interrupts its
\* fiber; the caller waits until that fiber has exited.
Interrupt(c, k) ==
  /\ Call(c)
  /\ entry[k].live
  /\ entry' = [entry EXCEPT ![k].stopping = TRUE, ![k].pendingWake = FALSE]
  /\ fibers' = [fibers EXCEPT ![k] =
        {IF f.num = entry[k].owner THEN [f EXCEPT !.interrupted = TRUE] ELSE f : f \in @}]
  /\ caller' = [caller EXCEPT ![c] = Busy(c, "interrupting", k, entry[k].owner)]
  /\ owed' = [owed EXCEPT ![k] = FALSE]
  /\ excused' = [excused EXCEPT ![k] = TRUE]
  /\ UNCHANGED <<starts, work>>

Interrupted(c) ==
  /\ caller[c].pc = "interrupting"
  /\ \A f \in fibers[caller[c].key] : f.num # caller[c].num
  /\ caller' = [caller EXCEPT ![c] = IdleCaller]
  /\ UNCHANGED <<execVars, work, calls, owed, excused>>

\* The caller of a settled run returns; a waiting caller can also be
\* interrupted itself, which leaves the execution alone.
Return(c) ==
  /\ caller[c].pc \in {"settled", "joined", "stopwait", "rerun"}
  /\ caller' = [caller EXCEPT ![c] = IdleCaller]
  /\ UNCHANGED <<execVars, work, calls, owed, excused>>

-----------------------------------------------------------------------------
(* Drains.                                                                  *)

Move(k, f, g) == fibers' = [fibers EXCEPT ![k] = (@ \ {f}) \cup {g}]

Begin(k, f) ==
  /\ f.phase = "yielded"
  /\ Move(k, f, [f EXCEPT !.phase = "looking"])
  /\ UNCHANGED <<entry, starts, work, caller, calls, owed, excused>>

\* Faulty variant of FindNothing: a drain ends after its turn without looking.
EndUnchecked(k, f) ==
  /\ f.phase = "looking"
  /\ ~f.force
  /\ Move(k, f, [f EXCEPT !.phase = "drained"])
  /\ UNCHANGED <<entry, starts, work, caller, calls, owed, excused>>

\* The drain promotes some of the work it finds (all steers, one queued
\* prompt) and calls the model, also without work the first time it is forced.
Look(k, f) ==
  /\ f.phase = "looking"
  /\ f.force \/ work[k] > 0
  /\ \E n \in 0..work[k] :
       /\ work[k] > 0 => n < work[k]
       /\ work' = [work EXCEPT ![k] = n]
       /\ excused' = [excused EXCEPT ![k] = @ /\ n > 0]
  /\ Move(k, f, [f EXCEPT !.phase = "turn", !.force = FALSE])
  /\ UNCHANGED <<entry, starts, caller, calls, owed>>

TurnEnds(k, f) ==
  /\ f.phase = "turn"
  /\ Move(k, f, [f EXCEPT !.phase = "looking"])
  /\ UNCHANGED <<entry, starts, work, caller, calls, owed, excused>>

\* Nothing is recorded: the drain is over, but its fiber has not exited yet.
FindNothing(k, f) ==
  /\ f.phase = "looking"
  /\ ~f.force
  /\ work[k] = 0
  /\ Move(k, f, [f EXCEPT !.phase = "drained"])
  /\ UNCHANGED <<entry, starts, work, caller, calls, owed, excused>>

\* Faulty variant of Settled: only a success releases who joined.
SettledOnSuccess(cl, success) ==
  CASE cl.pc = "joined" /\ success -> [cl EXCEPT !.pc = "settled", !.result = "success"]
    [] cl.pc = "stopwait" /\ success -> [cl EXCEPT !.pc = "rerun"]
    [] OTHER -> cl

\* What settling the entry does to a caller: done is resolved with the exit,
\* so a caller that was to try again after a stopping entry does so only if
\* that entry's exit was a success.
Settled(cl, success) ==
  CASE cl.pc = "joined" ->
         [cl EXCEPT !.pc = "settled", !.result = IF success THEN "success" ELSE "failure"]
    [] cl.pc = "stopwait" ->
         IF success THEN [cl EXCEPT !.pc = "rerun"]
                    ELSE [cl EXCEPT !.pc = "settled", !.result = "refused"]
    [] OTHER -> cl

\* settle, in the exit of fiber f.  A successful drain that was woken drains
\* again under the same entry; otherwise the entry is over, and a pending wake
\* starts a successor with an entry of its own.
Settle(k, f, success) ==
  LET again     == success /\ ~entry[k].stopping /\ entry[k].pendingWake
      successor == entry[k].pendingWake
      rest      == fibers[k] \ {f}
      n         == starts[k] + 1
  IN /\ IF successor
          THEN /\ starts' = [starts EXCEPT ![k] = n]
               /\ fibers' = [fibers EXCEPT ![k] = rest \cup {NewFiber(n, FALSE, TRUE)}]
               /\ entry' = [entry EXCEPT ![k] = NewEntry(n)]
               /\ owed' = [owed EXCEPT ![k] = FALSE]
          ELSE /\ fibers' = [fibers EXCEPT ![k] = rest]
               /\ entry' = [entry EXCEPT ![k] = NoEntry]
               /\ UNCHANGED <<starts, owed>>
     /\ caller' = [c \in Callers |->
           IF caller[c].key = k /\ ~again THEN Settled(caller[c], success) ELSE caller[c]]
     /\ UNCHANGED <<work, calls>>

\* The fiber exits: with success when drained, with a failure when the session
\* is gone or a turn fails, with an interruption at any point once interrupted.
Succeed(k, f) ==
  /\ f.phase = "drained"
  /\ Settle(k, f, TRUE)
  /\ UNCHANGED excused

\* Faulty variant of Fail: the entry is settled by successful exits only.
FailUnsettled(k, f) ==
  /\ f.phase \in {"looking", "turn"}
  /\ fibers' = [fibers EXCEPT ![k] = @ \ {f}]
  /\ excused' = [excused EXCEPT ![k] = TRUE]
  /\ UNCHANGED <<entry, starts, work, caller, calls, owed>>

Fail(k, f) ==
  /\ f.phase \in {"looking", "turn"}
  /\ Settle(k, f, FALSE)
  /\ excused' = [excused EXCEPT ![k] = TRUE]

ExitInterrupted(k, f) ==
  /\ f.interrupted
  /\ Settle(k, f, FALSE)
  /\ UNCHANGED excused

\* The process stops: only the recorded work survives.
Crash ==
  /\ entry' = [k \in Keys |-> NoEntry]
  /\ fibers' = [k \in Keys |-> {}]
  /\ caller' = [c \in Callers |-> IdleCaller]
  /\ owed' = [k \in Keys |-> FALSE]
  /\ excused' = [k \in Keys |-> TRUE]
  /\ UNCHANGED <<starts, work, calls>>

-----------------------------------------------------------------------------
DrainStep(k, f) ==
  \/ Begin(k, f)
  \/ Look(k, f)
  \/ TurnEnds(k, f)
  \/ FindNothing(k, f)
  \/ Succeed(k, f)
  \/ Fail(k, f)
  \/ ExitInterrupted(k, f)

Drains(k) == \E f \in fibers[k] : DrainStep(k, f)

Operations(c) ==
  \/ \E k \in Keys, resume \in BOOLEAN : Record(c, k, resume)
  \/ Wake(c)
  \/ \E k \in Keys : Run(c, k)
  \/ Rerun(c)
  \/ \E k \in Keys : Interrupt(c, k)
  \/ Interrupted(c)
  \/ Return(c)

Next ==
  \/ \E c \in Callers : Operations(c)
  \/ \E k \in Keys : Drains(k)
  \/ Crash

\* The scheduler runs every fiber that can go on: a recorded prompt is followed
\* by its wake, a drain takes its next step (provider turns end), an exited
\* fiber releases who waits for it.  Nobody is obliged to call anything.
Fairness ==
  /\ \A c \in Callers : WF_vars(Wake(c)) /\ WF_vars(Rerun(c)) /\ WF_vars(Interrupted(c))
  /\ \A k \in Keys : WF_vars(Drains(k))

Spec == Init /\ [][Next]_vars

FairSpec == Spec /\ Fairness

-----------------------------------------------------------------------------
(* Properties.                                                              *)

Phases == {"yielded", "looking", "turn", "drained"}

Fiber == [num : Nat, force : BOOLEAN, interrupted : BOOLEAN, phase : Phases]

Entry == [live : BOOLEAN, owner : Nat, pendingWake : BOOLEAN, stopping : BOOLEAN]

CallerState ==
  [pc : {"idle", "recorded", "joined", "stopwait", "rerun", "interrupting", "settled"},
   key : Keys \cup {NoKey}, num : Nat,
   result : {"none", "success", "failure", "refused"}]

\* Types of the coordinator's state and of its callers.
TypeOK ==
  /\ entry \in [Keys -> Entry]
  /\ fibers \in [Keys -> SUBSET Fiber]
  /\ starts \in [Keys -> Nat]
  /\ work \in [Keys -> Nat]
  /\ caller \in [Callers -> CallerState]
  /\ calls \in Nat
  /\ owed \in [Keys -> BOOLEAN]
  /\ excused \in [Keys -> BOOLEAN]

\* "Serializes execution for each key": two drain fibers of one session never
\* coexist, across wakes, restarts, failures and successors.
OneDrainPerKey ==
  \A k \in Keys : \A f, g \in fibers[k] : f = g

\* The active map is exact: a session is in it exactly while a drain fiber of
\* it lives, and the entry's owner is that fiber, so an interrupt never hits a
\* fiber that is gone and no entry is left behind to join for ever.
ActiveIsExact ==
  \A k \in Keys :
    /\ entry[k].live <=> fibers[k] # {}
    /\ entry[k].live => \E f \in fibers[k] : f.num = entry[k].owner

\* "Registers one coalesced follow-up": a wake that found a drain active is
\* kept by an entry until a drain starts, also when that drain fails or is
\* being interrupted.
FollowUpKept ==
  \A k \in Keys : owed[k] => entry[k].live /\ entry[k].pendingWake

\* A caller only waits for a drain that exists.
NobodyWaitsForNothing ==
  \A c \in Callers :
    caller[c].pc \in {"joined", "stopwait"} => entry[caller[c].key].live

\* A recorded prompt is consumed by a drain, unless the session was interrupted
\* or failed, the process stopped, or the caller asked not to resume.
WorkIsConsumed == \A k \in Keys : work[k] > 0 ~> (work[k] = 0 \/ excused[k])

\* Whoever joined an execution, or interrupts one, gets an answer.
CallersReturn ==
  \A c \in Callers :
    caller[c].pc \in {"joined", "stopwait", "rerun", "interrupting", "recorded"}
      ~> caller[c].pc \in {"idle", "settled"}

\* "starts a resume registered during interruption cleanup": a run called while
\* the entry is stopping is not answered with the exit of what it waited for.
ResumeDuringCleanupStarts == \A c \in Callers : caller[c].result # "refused"

=============================================================================
