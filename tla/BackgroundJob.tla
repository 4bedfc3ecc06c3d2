--------------------------- MODULE BackgroundJob ---------------------------
(***************************************************************************)
(* The process-local job registry of packages/core/src/background-job.ts   *)
(* as the task tool (packages/kancode/src/tool/task.ts) uses it: a task     *)
(* call extends the running job of its session or starts one, and waits in *)
(* the foreground until the job ends or is promoted to the background;     *)
(* what ends in the background is injected into the parent session.        *)
(*                                                                         *)
(* The registry is changed by SynchronizedRef.modify and what follows      *)
(* without suspending (resolving done or promoted, closing the scope), so  *)
(* an operation is one action.  Work runs in fibers of its own, and so     *)
(* does a promotion: it updates the tool call's metadata before it asks    *)
(* who to wait for.                                                        *)
(***************************************************************************)
EXTENDS Integers, FiniteSets

CONSTANTS
  Jobs,         (* job ids: sessions of subagents                          *)
  Callers,      (* fibers that call the task tool                          *)
  Promoters,    (* requests that send a session's tasks to the background  *)
  NoJob,
  MaxStarts,    (* bound: starts of jobs in all                            *)
  MaxExtends    (* bound: extensions of one start                          *)

ASSUME BackgroundJobAssumption ==
  /\ NoJob \notin Jobs
  /\ MaxStarts \in Nat
  /\ MaxExtends \in Nat

VARIABLES
  jobs,         (* the registry: an entry, or NoEntry, per job id          *)
  starts,       (* starts so far; the number of a start is its token       *)
  fibers,       (* work: what each fiber of a start is doing               *)
  closed,       (* starts whose scope was closed                           *)
  done,         (* per start, the info its done deferred was resolved with *)
  promoted,     (* starts whose promoted deferred was resolved             *)
  caller,       (* what each task call is doing, and what it was answered  *)
  promoter,     (* promotions whose onPromote has not looked up the job    *)
  notifiers,    (* per start, how many fibers wait to inject its end       *)
  injected      (* how often the end of each start was injected            *)

registryVars == <<jobs, starts, fibers, closed, done, promoted>>
vars == <<jobs, starts, fibers, closed, done, promoted, caller, promoter, notifiers, injected>>

-----------------------------------------------------------------------------
Tokens == 1..MaxStarts

Endings == {"completed", "error", "cancelled"}

NoEntry == [token |-> 0, status |-> "none", pending |-> 0, next |-> 0, output |-> -1,
            background |-> FALSE]

NoInfo == [status |-> "running", background |-> FALSE]

\* Work number seq of a start; it waits for the tail of the work before it.
Work(t, n, id, phase) ==
  [token |-> t, seq |-> n, id |-> id, phase |-> phase, result |-> "none"]

IdleCaller == [pc |-> "idle", token |-> 0, id |-> NoJob]

Init ==
  /\ jobs = [j \in Jobs |-> NoEntry]
  /\ starts = 0
  /\ fibers = {}
  /\ closed = {}
  /\ done = [t \in Tokens |-> NoInfo]
  /\ promoted = {}
  /\ caller = [c \in Callers |-> IdleCaller]
  /\ promoter = [p \in Promoters |-> NoJob]
  /\ notifiers = [t \in Tokens |-> 0]
  /\ injected = [t \in Tokens |-> 0]

Running(j) == jobs[j].status = "running"

Info(entry) == [status |-> entry.status, background |-> entry.background]

-----------------------------------------------------------------------------
(* The task tool.                                                           *)

Busy(c, pc, t, j) == caller' = [caller EXCEPT ![c] = [pc |-> pc, token |-> t, id |-> j]]

\* extend: the work is queued after the tail of the running job, and the call
\* is answered at once that it is working in the background.
Extend(c, j) ==
  LET entry == jobs[j]
  IN /\ caller[c].pc = "idle"
     /\ Running(j)
     /\ entry.next <= MaxExtends
     /\ jobs' = [jobs EXCEPT ![j].pending = @ + 1, ![j].next = @ + 1]
     /\ fibers' = fibers \cup {Work(entry.token, entry.next, j, "queued")}
     /\ Busy(c, "told", entry.token, j)
     /\ UNCHANGED <<starts, closed, done, promoted, promoter, notifiers, injected>>

\* start: a job that is not running is replaced.  A background task gets its
\* notifier, any other is waited for.
Start(c, j, background) ==
  LET t == starts + 1
  IN /\ caller[c].pc = "idle"
     /\ ~Running(j)
     /\ starts < MaxStarts
     /\ starts' = t
     /\ jobs' = [jobs EXCEPT ![j] =
          [token |-> t, status |-> "running", pending |-> 1, next |-> 1, output |-> -1,
           background |-> background]]
     /\ fibers' = fibers \cup {Work(t, 0, j, "working")}
     /\ Busy(c, IF background THEN "told" ELSE "waiting", t, j)
     /\ notifiers' = IF background THEN [notifiers EXCEPT ![t] = @ + 1] ELSE notifiers
     /\ UNCHANGED <<closed, done, promoted, promoter, injected>>

\* wait and waitForPromotion race: whichever is resolved first answers; a job
\* that ended in the background counts as promoted.
Answered(c) ==
  LET t == caller[c].token
  IN /\ caller[c].pc = "waiting"
     /\ \/ /\ done[t].status \in Endings
           /\ Busy(c, IF done[t].background THEN "told" ELSE "answered", t, caller[c].id)
        \/ /\ t \in promoted
           /\ Busy(c, "told", t, caller[c].id)
     /\ UNCHANGED <<registryVars, promoter, notifiers, injected>>

Return(c) ==
  /\ caller[c].pc \in {"told", "answered"}
  /\ caller' = [caller EXCEPT ![c] = IdleCaller]
  /\ UNCHANGED <<registryVars, promoter, notifiers, injected>>

-----------------------------------------------------------------------------
(* Work.                                                                    *)

Move(f, g) == fibers' = (fibers \ {f}) \cup {g}

\* Faulty variant of Begin: an extension does not wait for its predecessor.
BeginAtOnce(f) ==
  /\ f.phase = "queued"
  /\ Move(f, [f EXCEPT !.phase = "working"])
  /\ UNCHANGED <<jobs, starts, closed, done, promoted, caller, promoter, notifiers, injected>>

\* The work before has resolved its tail, whether it succeeded or not.
Begin(f) ==
  /\ f.phase = "queued"
  /\ \A g \in fibers : g.token = f.token /\ g.seq = f.seq - 1 => g.phase = "ended"
  /\ Move(f, [f EXCEPT !.phase = "working"])
  /\ UNCHANGED <<jobs, starts, closed, done, promoted, caller, promoter, notifiers, injected>>

\* Work ends by itself, or, its scope closed, by interruption wherever it is;
\* settling is a step of its own.
Finish(f, result) ==
  /\ \/ f.phase = "working"
     \/ f.phase = "queued" /\ f.token \in closed /\ result = "interrupted"
  /\ Move(f, [f EXCEPT !.phase = "ended", !.result = result])
  /\ UNCHANGED <<jobs, starts, closed, done, promoted, caller, promoter, notifiers, injected>>

Ending(result) ==
  CASE result = "success" -> "completed"
    [] result = "failure" -> "error"
    [] result = "interrupted" -> "cancelled"

\* Faulty variants: of Stale, the status is not compared; of Output, the work
\* that settles last wins.
StaleByToken(f) == jobs[f.id].token # f.token

OutputOfLast(f) == IF f.result = "success" THEN f.seq ELSE jobs[f.id].output

\* A settlement of another start, or of one that is over, changes nothing.
Stale(f) == jobs[f.id].token # f.token \/ jobs[f.id].status # "running"

\* The output of the latest work that succeeded, in whatever order they settle.
Output(f) ==
  IF f.result = "success" /\ f.seq > jobs[f.id].output THEN f.seq ELSE jobs[f.id].output

Completes(f) == f.result # "success" \/ jobs[f.id].pending = 1

\* The entry becomes final: done is resolved and the scope is closed, which
\* interrupts what is left of its work.
Final(j, entry) ==
  /\ jobs' = [jobs EXCEPT ![j] = entry]
  /\ done' = [done EXCEPT ![entry.token] = Info(entry)]
  /\ closed' = closed \cup {entry.token}

Settle(f) ==
  LET entry == jobs[f.id]
  IN /\ f.phase = "ended"
     /\ fibers' = fibers \ {f}
     /\ IF Stale(f)
          THEN UNCHANGED <<jobs, done, closed>>
          ELSE IF Completes(f)
            THEN Final(f.id, [entry EXCEPT !.status = Ending(f.result), !.pending = 0,
                                           !.output = Output(f)])
            ELSE /\ jobs' = [jobs EXCEPT ![f.id].pending = @ - 1, ![f.id].output = Output(f)]
                 /\ UNCHANGED <<done, closed>>
     /\ UNCHANGED <<starts, promoted, caller, promoter, notifiers, injected>>

CancelJob(j) ==
  /\ Running(j)
  /\ Final(j, [jobs[j] EXCEPT !.status = "cancelled", !.pending = 0])

Cancel(j) ==
  /\ CancelJob(j)
  /\ UNCHANGED <<starts, fibers, promoted, caller, promoter, notifiers, injected>>

\* A task call that is interrupted while it waits cancels the job.
Abort(c) ==
  /\ caller[c].pc = "waiting"
  /\ CancelJob(caller[c].id) \/ (~Running(caller[c].id) /\ UNCHANGED <<jobs, done, closed>>)
  /\ caller' = [caller EXCEPT ![c] = IdleCaller]
  /\ UNCHANGED <<starts, fibers, promoted, promoter, notifiers, injected>>

-----------------------------------------------------------------------------
(* Promotion and notification.                                              *)

\* Faulty variant of Promote: the deferred of the promotion is not resolved.
PromoteSilently(p, j) ==
  /\ promoter[p] = NoJob
  /\ Running(j)
  /\ ~jobs[j].background
  /\ jobs' = [jobs EXCEPT ![j].background = TRUE]
  /\ promoter' = [promoter EXCEPT ![p] = j]
  /\ UNCHANGED <<promoted, starts, fibers, closed, done, caller, notifiers, injected>>

\* promote: once per start, while it runs; onPromote is still to come.
Promote(p, j) ==
  /\ promoter[p] = NoJob
  /\ Running(j)
  /\ ~jobs[j].background
  /\ jobs' = [jobs EXCEPT ![j].background = TRUE]
  /\ promoted' = promoted \cup {jobs[j].token}
  /\ promoter' = [promoter EXCEPT ![p] = j]
  /\ UNCHANGED <<starts, fibers, closed, done, caller, notifiers, injected>>

\* Faulty variant of Notify: only a job that still runs is waited for.
NotifyWhileRunning(p) ==
  /\ promoter[p] # NoJob
  /\ notifiers' = IF Running(promoter[p])
                    THEN [notifiers EXCEPT ![jobs[promoter[p]].token] = @ + 1]
                    ELSE notifiers
  /\ promoter' = [promoter EXCEPT ![p] = NoJob]
  /\ UNCHANGED <<registryVars, caller, injected>>

\* onPromote has updated the metadata and waits for the job of that id.
Notify(p) ==
  /\ promoter[p] # NoJob
  /\ notifiers' = [notifiers EXCEPT ![jobs[promoter[p]].token] = @ + 1]
  /\ promoter' = [promoter EXCEPT ![p] = NoJob]
  /\ UNCHANGED <<registryVars, caller, injected>>

\* The wait is over: what completed or failed is injected into the parent.
Inject(t) ==
  /\ notifiers[t] > 0
  /\ done[t].status \in Endings
  /\ notifiers' = [notifiers EXCEPT ![t] = @ - 1]
  /\ injected' = [injected EXCEPT ![t] = IF done[t].status = "cancelled" THEN @ ELSE @ + 1]
  /\ UNCHANGED <<registryVars, caller, promoter>>

-----------------------------------------------------------------------------
Results == {"success", "failure", "interrupted"}

Working(f) == Begin(f) \/ (\E result \in Results : Finish(f, result)) \/ Settle(f)

Calling(c) ==
  \/ \E j \in Jobs : Extend(c, j)
  \/ \E j \in Jobs, background \in BOOLEAN : Start(c, j, background)
  \/ Answered(c)
  \/ Return(c)
  \/ Abort(c)

Next ==
  \/ \E c \in Callers : Calling(c)
  \/ \E f \in fibers : Working(f)
  \/ \E j \in Jobs : Cancel(j)
  \/ \E p \in Promoters, j \in Jobs : Promote(p, j)
  \/ \E p \in Promoters : Notify(p)
  \/ \E t \in Tokens : Inject(t)

\* A task call whose wait is resolved returns.  Work may take for ever.
Fairness == \A c \in Callers : WF_vars(Answered(c))

Spec == Init /\ [][Next]_vars

FairSpec == Spec /\ Fairness

-----------------------------------------------------------------------------
(* Properties.                                                              *)

Entry == [token : 0..MaxStarts, status : Endings \cup {"none", "running"}, pending : Nat,
          next : Nat, output : {-1} \cup Nat, background : BOOLEAN]

WorkState == [token : Tokens, seq : Nat, id : Jobs, phase : {"queued", "working", "ended"},
              result : Results \cup {"none"}]

\* Types of the registry and of its clients.
TypeOK ==
  /\ jobs \in [Jobs -> Entry]
  /\ starts \in 0..MaxStarts
  /\ fibers \subseteq WorkState
  /\ closed \subseteq Tokens
  /\ done \in [Tokens -> [status : Endings \cup {"running"}, background : BOOLEAN]]
  /\ promoted \subseteq Tokens
  /\ caller \in [Callers -> [pc : {"idle", "waiting", "told", "answered"}, token : 0..MaxStarts,
                             id : Jobs \cup {NoJob}]]
  /\ promoter \in [Promoters -> Jobs \cup {NoJob}]
  /\ notifiers \in [Tokens -> Nat]
  /\ injected \in [Tokens -> Nat]

\* "runs extensions after earlier work completes": while a job runs, one piece
\* of its work is under way at a time.
WorkIsSerialized ==
  \A j \in Jobs : \A f, g \in fibers :
    /\ Running(j)
    /\ f.token = jobs[j].token /\ g.token = jobs[j].token
    /\ f.phase = "working" /\ g.phase = "working"
    => f = g

\* "waits for extensions before completing a running job": a job completes with
\* the output of the last work it accepted, though work settles out of order.
CompletesWithLatest ==
  \A j \in Jobs : jobs[j].status = "completed" => jobs[j].output = jobs[j].next - 1

\* What is told about a start is final and is what the registry says, however
\* cancellations, failures and stale settlements race.
EndsOnce ==
  [][/\ \A t \in Tokens : done[t].status \in Endings => done'[t] = done[t]
     /\ \A j \in Jobs : jobs'[j].token # 0 => done'[jobs'[j].token] =
          IF jobs'[j].status = "running" THEN NoInfo ELSE Info(jobs'[j])]_vars

\* A call that waits for a job is released once the job is in the background,
\* also when the job never ends.
PromotionReleases ==
  \A c \in Callers, j \in Jobs :
    (caller[c].pc = "waiting" /\ caller[c].token = jobs[j].token /\ jobs[j].background)
      ~> caller[c].pc # "waiting"

\* Somebody is left to inject the end of the job's last start.
WillBeNotified(j) ==
  \/ injected[jobs[j].token] > 0
  \/ notifiers[jobs[j].token] > 0
  \/ \E p \in Promoters : promoter[p] = j

\* "You will be notified automatically when it finishes.": said to a call whose
\* job was promoted.  However fast the job ends after its promotion, its end is
\* injected, unless the very id was started again before.
PromotedEndIsInjected ==
  \A j \in Jobs :
    jobs[j].token \in promoted /\ jobs[j].status \in {"completed", "error"} => WillBeNotified(j)

=============================================================================
