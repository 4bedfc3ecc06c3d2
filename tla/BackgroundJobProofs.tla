------------------------ MODULE BackgroundJobProofs ------------------------
(***************************************************************************)
(* Proofs about BackgroundJob.tla, for any jobs, calls and promoters and   *)
(* any bounds.  The inductive invariant says how a running job's entry     *)
(* goes with the fibers of its work: the work behind a piece that has not  *)
(* ended is queued, what is not there any more has settled and left its    *)
(* output, and as many pieces are pending as there are fibers.             *)
(***************************************************************************)
EXTENDS BackgroundJob, FiniteSetTheorems, TLAPS

\* The fibers of a job's last start.
WorkOf(j) == {f \in fibers : f.token = jobs[j].token}

\* A start's token is fresh and stays with one job.
TokensOnce == \A i, j \in Jobs : jobs[i].token = jobs[j].token /\ jobs[j].token # 0 => i = j

Unused(t) == done[t] = NoInfo /\ t \notin closed /\ t \notin promoted

TokensUsed ==
  /\ \A j \in Jobs : jobs[j].token <= starts
  /\ \A f \in fibers : f.token <= starts
  /\ \A t \in Tokens : t > starts => Unused(t)

\* What the deferred of a job's last start says, and when its scope is closed.
Told(j) ==
  /\ Running(j) => jobs[j].token # 0 /\ jobs[j].token \notin closed
  /\ jobs[j].status = "none" => jobs[j].token = 0
  /\ jobs[j].token # 0 => done[jobs[j].token] = IF Running(j) THEN NoInfo ELSE Info(jobs[j])

\* Work of a start is of its job, and has a sequence number of its own.
FibersFit ==
  /\ \A f \in fibers, j \in Jobs : f.token = jobs[j].token => f.id = j
  /\ \A f, g \in fibers : f.token = g.token /\ f.seq = g.seq => f = g
  /\ \A f \in fibers : f.phase = "ended" => f.result # "none"

\* What is behind a piece of work that has not ended is queued.
BehindIsQueued(j) ==
  \A f \in WorkOf(j) : f.phase # "ended" =>
    \A n \in (f.seq + 1)..(jobs[j].next - 1) : Work(jobs[j].token, n, j, "queued") \in fibers

\* Work that is gone has settled, and the output is at least as late.
GoneHasSettled(j) ==
  \A n \in 0..(jobs[j].next - 1) : (\A f \in WorkOf(j) : f.seq # n) => n <= jobs[j].output

Queue(j) ==
  /\ \A f \in WorkOf(j) : f.seq < jobs[j].next
  /\ jobs[j].output < jobs[j].next
  /\ BehindIsQueued(j)
  /\ GoneHasSettled(j)
  /\ jobs[j].pending = Cardinality(WorkOf(j))

\* Whoever promoted a job is about to wait for its end, or waits, or has told it.
PromotionTold(j) ==
  jobs[j].token \in promoted => WillBeNotified(j) \/ jobs[j].status = "cancelled"

\* A call that is under way is about a job.
CallersName == \A c \in Callers : caller[c].pc # "idle" => caller[c].id \in Jobs

IInv ==
  /\ TypeOK
  /\ IsFiniteSet(fibers)
  /\ TokensOnce
  /\ TokensUsed
  /\ FibersFit
  /\ \A j \in Jobs : Told(j)
  /\ \A j \in Jobs : Running(j) => Queue(j)
  /\ CompletesWithLatest
  /\ \A j \in Jobs : PromotionTold(j)


-----------------------------------------------------------------------------
(* Types of what a step writes.                                             *)

LEMMA EntryTypes ==
  ASSUME NEW e \in Entry, NEW n \in Nat, NEW m \in Nat, NEW out \in {-1} \cup Nat,
         NEW status \in Endings
  PROVE  /\ [e EXCEPT !.pending = n, !.next = m] \in Entry
         /\ [e EXCEPT !.pending = n, !.output = out] \in Entry
         /\ [e EXCEPT !.status = status, !.pending = 0, !.output = out] \in Entry
         /\ [e EXCEPT !.status = status, !.pending = 0] \in Entry
         /\ [e EXCEPT !.background = TRUE] \in Entry
BY DEF Entry

LEMMA NoEntryType == BackgroundJobAssumption => NoEntry \in Entry
BY DEF NoEntry, Entry, BackgroundJobAssumption

LEMMA WorkType ==
  ASSUME NEW t \in Tokens, NEW n \in Nat, NEW j \in Jobs, NEW phase \in {"queued", "working"}
  PROVE  Work(t, n, j, phase) \in WorkState
BY DEF Work, WorkState

LEMMA MovedType ==
  ASSUME NEW f \in WorkState, NEW result \in Results
  PROVE  /\ [f EXCEPT !.phase = "working"] \in WorkState
         /\ [f EXCEPT !.phase = "ended", !.result = result] \in WorkState
BY DEF WorkState

LEMMA InfoType ==
  ASSUME NEW e \in Entry, e.status \in Endings
  PROVE  Info(e) \in [status : Endings \cup {"running"}, background : BOOLEAN]
BY DEF Info, Entry

\* A running job has a token of its own, and a fiber's job is one of the jobs.
LEMMA RunningToken ==
  ASSUME BackgroundJobAssumption, IInv, NEW j \in Jobs, Running(j)
  PROVE  /\ jobs[j] \in Entry
         /\ jobs[j].token \in Tokens
         /\ jobs[j].token \notin closed
         /\ done[jobs[j].token] = NoInfo
<1>1. jobs[j] \in Entry /\ Told(j)
  BY DEF IInv, TypeOK
<1>2. jobs[j].token \in 1..MaxStarts
  BY <1>1 DEF Told, Entry, BackgroundJobAssumption
<1> QED BY <1>1, <1>2 DEF Told, Tokens

-----------------------------------------------------------------------------
(* Starting and extending.                                                  *)

LEMMA ExtendTypes ==
  ASSUME BackgroundJobAssumption, IInv, NEW c \in Callers, NEW j \in Jobs, Extend(c, j)
  PROVE  TypeOK' /\ IsFiniteSet(fibers)'
<1>0. TypeOK /\ Running(j) /\ jobs[j] \in Entry
  BY DEF IInv, TypeOK, Extend
<1> DEFINE f == Work(jobs[j].token, jobs[j].next, j, "queued")
<1>1. jobs[j].token \in Tokens
  BY <1>0, RunningToken
<1>2. jobs[j].next \in Nat /\ jobs[j].pending \in Nat
  BY <1>0 DEF Entry
<1>3. f \in WorkState
  BY <1>1, <1>2, WorkType
<1>4. [jobs[j] EXCEPT !.pending = jobs[j].pending + 1, !.next = jobs[j].next + 1] \in Entry
  <2>1. jobs[j].pending + 1 \in Nat /\ jobs[j].next + 1 \in Nat BY <1>2
  <2> QED BY <1>0, <2>1, EntryTypes DEF Endings
<1>5. jobs' = [jobs EXCEPT ![j] =
        [jobs[j] EXCEPT !.pending = jobs[j].pending + 1, !.next = jobs[j].next + 1]]
  BY <1>0 DEF Extend, TypeOK, Entry
<1>6. jobs' \in [Jobs -> Entry]
  BY <1>0, <1>4, <1>5 DEF TypeOK
<1>7. fibers' \subseteq WorkState
  BY <1>0, <1>3 DEF Extend, TypeOK
<1>8. caller' \in [Callers -> [pc : {"idle", "waiting", "told", "answered"},
                               token : 0..MaxStarts, id : Jobs \cup {NoJob}]]
  BY <1>0, <1>1 DEF Extend, Busy, TypeOK, Tokens, BackgroundJobAssumption
<1>9. IsFiniteSet(fibers')
  <2>1. IsFiniteSet(fibers) BY DEF IInv
  <2>2. IsFiniteSet(fibers \cup {f}) BY <2>1, FS_AddElement
  <2> QED BY <2>2 DEF Extend
<1> QED BY <1>0, <1>6, <1>7, <1>8, <1>9 DEF Extend, TypeOK

LEMMA StartTypes ==
  ASSUME BackgroundJobAssumption, IInv, NEW c \in Callers, NEW j \in Jobs,
         NEW background \in BOOLEAN, Start(c, j, background)
  PROVE  TypeOK' /\ IsFiniteSet(fibers)'
<1>0. TypeOK /\ starts + 1 \in Tokens
  <2>1. starts \in 0..MaxStarts /\ starts < MaxStarts BY DEF IInv, TypeOK, Start
  <2> QED BY <2>1 DEF IInv, Tokens, BackgroundJobAssumption
<1> DEFINE t == starts + 1
<1>1. [token |-> t, status |-> "running", pending |-> 1, next |-> 1, output |-> -1,
       background |-> background] \in Entry
  BY <1>0 DEF Entry, Tokens
<1>2. jobs' \in [Jobs -> Entry]
  BY <1>0, <1>1 DEF Start, TypeOK
<1>3. Work(t, 0, j, "working") \in WorkState
  BY <1>0, WorkType
<1>4. fibers' \subseteq WorkState
  BY <1>0, <1>3 DEF Start, TypeOK
<1>5. caller' \in [Callers -> [pc : {"idle", "waiting", "told", "answered"},
                               token : 0..MaxStarts, id : Jobs \cup {NoJob}]]
  BY <1>0 DEF Start, Busy, TypeOK, Tokens
<1>6. notifiers' \in [Tokens -> Nat]
  BY <1>0 DEF Start, TypeOK
<1>7. IsFiniteSet(fibers')
  <2>1. IsFiniteSet(fibers) BY DEF IInv
  <2>2. IsFiniteSet(fibers \cup {Work(t, 0, j, "working")}) BY <2>1, FS_AddElement
  <2> QED BY <2>2 DEF Start
<1>8. starts' \in 0..MaxStarts
  BY <1>0 DEF Start, Tokens
<1> QED BY <1>0, <1>2, <1>4, <1>5, <1>6, <1>7, <1>8 DEF Start, TypeOK


\* What a queue's properties depend on.
LEMMA SameQueue ==
  ASSUME NEW j \in Jobs, Queue(j), WorkOf(j)' = WorkOf(j),
         \A n \in Int : Work(jobs[j].token, n, j, "queued") \in fibers =>
                          Work(jobs[j].token, n, j, "queued") \in fibers',
         jobs[j].next \in Nat,
         jobs'[j].token = jobs[j].token, jobs'[j].next = jobs[j].next,
         jobs'[j].output = jobs[j].output, jobs'[j].pending = jobs[j].pending,
         fibers \subseteq WorkState
  PROVE  Queue(j)'
<1>1. \A f \in WorkOf(j) : f.seq \in Nat
  BY DEF WorkOf, WorkState
<1>2. BehindIsQueued(j)'
  BY <1>1 DEF Queue, BehindIsQueued
<1>3. GoneHasSettled(j)'
  BY DEF Queue, GoneHasSettled
<1> QED BY <1>2, <1>3 DEF Queue

\* What is told of a job depends on these only.
LEMMA SameTold ==
  ASSUME IInv, NEW j \in Jobs,
         jobs'[j].token = jobs[j].token, jobs'[j].status = jobs[j].status,
         jobs'[j].background = jobs[j].background,
         done' = done, closed' = closed
  PROVE  Told(j)'
<1>1. Told(j) BY DEF IInv
<1> QED BY <1>1 DEF Told, Running, Info

LEMMA SamePromotion ==
  ASSUME IInv, NEW j \in Jobs,
         jobs'[j].token = jobs[j].token,
         jobs'[j].status = jobs[j].status \/ jobs[j].status = "running",
         promoted' = promoted, promoter' = promoter,
         notifiers' = notifiers, injected' = injected
  PROVE  PromotionTold(j)'
<1>1. PromotionTold(j) BY DEF IInv
<1> QED BY <1>1 DEF PromotionTold, WillBeNotified

LEMMA ExtendKeeps ==
  ASSUME BackgroundJobAssumption, IInv, NEW c \in Callers, NEW j \in Jobs, Extend(c, j)
  PROVE  IInv'
<1>0. TypeOK /\ Running(j) /\ jobs[j] \in Entry
  BY DEF IInv, TypeOK, Extend
<1> DEFINE t == jobs[j].token
           f == Work(t, jobs[j].next, j, "queued")
<1>1. t \in Tokens
  BY <1>0, RunningToken
<1>2. jobs[j].next \in Nat /\ jobs[j].pending \in Nat /\ jobs[j].output \in {-1} \cup Nat
  BY <1>0 DEF Entry
<1>3. fibers' = fibers \cup {f}
  BY DEF Extend
<1>4. /\ \A i \in Jobs : i # j => jobs'[i] = jobs[i]
      /\ jobs'[j].token = t /\ jobs'[j].status = jobs[j].status
      /\ jobs'[j].background = jobs[j].background /\ jobs'[j].output = jobs[j].output
      /\ jobs'[j].next = jobs[j].next + 1 /\ jobs'[j].pending = jobs[j].pending + 1
  BY <1>0 DEF Extend, TypeOK, Entry
<1>5. f.token = t /\ f.seq = jobs[j].next /\ f.id = j /\ f.phase = "queued" /\ f.result = "none"
  BY DEF Work
<1>6. \A i \in Jobs : jobs'[i].token = jobs[i].token /\ jobs'[i].status = jobs[i].status
                      /\ jobs'[i].background = jobs[i].background
  BY <1>4
<1>7. Queue(j) /\ Told(j) /\ t # 0
  BY <1>0, <1>1 DEF IInv, Tokens
<1>8. f \notin fibers
  BY <1>2, <1>5, <1>7 DEF Queue, WorkOf
<1>10. TokensOnce'
  BY <1>6 DEF IInv, TokensOnce
<1>11. TokensUsed'
  BY <1>3, <1>5, <1>6 DEF IInv, TokensUsed, Unused, Extend
<1>12. FibersFit'
  <2>1. \A i \in Jobs : f.token = jobs[i].token => i = j
    BY <1>5, <1>7 DEF IInv, TokensOnce
  <2>2. \A g \in fibers : g.token = t => g.seq # f.seq
    BY <1>0, <1>2, <1>5, <1>7 DEF Queue, WorkOf, TypeOK, WorkState
  <2> QED BY <1>3, <1>5, <1>6, <2>1, <2>2 DEF IInv, FibersFit
<1>13. ASSUME NEW i \in Jobs PROVE Told(i)'
  <2>1. done' = done /\ closed' = closed BY DEF Extend
  <2> QED BY <1>6, <2>1, SameTold
<1>14. ASSUME NEW i \in Jobs, Running(i)' PROVE Queue(i)'
  <2>1. Running(i) /\ Queue(i)
    BY <1>6, <1>14 DEF IInv, Running
  <2>2. CASE i # j
    <3>1. jobs[i].token # t
      BY <1>7, <2>2 DEF IInv, TokensOnce
    <3>2. WorkOf(i)' = WorkOf(i)
      BY <1>3, <1>4, <1>5, <2>2, <3>1 DEF WorkOf
    <3>3. jobs[i].next \in Nat
      BY <1>0 DEF TypeOK, Entry
    <3> QED BY <1>0, <1>3, <1>4, <2>1, <2>2, <3>2, <3>3, SameQueue DEF TypeOK
  <2>3. CASE i = j
    <3>1. WorkOf(j)' = WorkOf(j) \cup {f}
      BY <1>3, <1>4, <1>5 DEF WorkOf
    <3>2. \A g \in WorkOf(j) : g.seq \in Nat /\ g.seq < jobs[j].next
      BY <1>0, <1>7 DEF Queue, WorkOf, TypeOK, WorkState
    <3>3. \A g \in WorkOf(j)' : g.seq < jobs'[j].next
      BY <1>2, <1>4, <1>5, <3>1, <3>2
    <3>4. jobs'[j].output < jobs'[j].next
      BY <1>2, <1>4, <1>7 DEF Queue
    <3>5. BehindIsQueued(j)'
      <4> SUFFICES ASSUME NEW g \in WorkOf(j)', g.phase # "ended",
                          NEW n \in (g.seq + 1)..(jobs'[j].next - 1)
                   PROVE  Work(t, n, j, "queued") \in fibers'
        BY <1>4 DEF BehindIsQueued
      <4>1. g \in WorkOf(j)
        BY <1>2, <1>4, <1>5, <3>1
      <4>2. CASE n = jobs[j].next
        BY <1>3, <4>2
      <4>3. CASE n # jobs[j].next
        <5>1. n \in (g.seq + 1)..(jobs[j].next - 1)
          BY <1>2, <1>4, <3>2, <4>1, <4>3
        <5> QED BY <1>3, <1>7, <4>1, <5>1 DEF Queue, BehindIsQueued
      <4> QED BY <4>2, <4>3
    <3>6. GoneHasSettled(j)'
      <4> SUFFICES ASSUME NEW n \in 0..(jobs'[j].next - 1), \A g \in WorkOf(j)' : g.seq # n
                   PROVE  n <= jobs'[j].output
        BY DEF GoneHasSettled
      <4>1. n # jobs[j].next
        BY <1>5, <3>1
      <4>2. n \in 0..(jobs[j].next - 1)
        BY <1>2, <1>4, <4>1
      <4> QED BY <1>4, <1>7, <3>1, <4>2 DEF Queue, GoneHasSettled
    <3>7. jobs'[j].pending = Cardinality(WorkOf(j)')
      <4>1. IsFiniteSet(WorkOf(j))
        BY FS_Subset DEF IInv, WorkOf
      <4>2. f \notin WorkOf(j)
        BY <1>8 DEF WorkOf
      <4>3. Cardinality(WorkOf(j) \cup {f}) = Cardinality(WorkOf(j)) + 1
        BY <4>1, <4>2, FS_AddElement
      <4> QED BY <1>4, <1>7, <3>1, <4>3 DEF Queue
    <3> QED BY <2>3, <3>3, <3>4, <3>5, <3>6, <3>7 DEF Queue
  <2> QED BY <2>2, <2>3
<1>15. CompletesWithLatest'
  BY <1>0, <1>4 DEF IInv, CompletesWithLatest, Running
<1>16. ASSUME NEW i \in Jobs PROVE PromotionTold(i)'
  <2>1. promoted' = promoted /\ promoter' = promoter /\ notifiers' = notifiers /\ injected' = injected
    BY DEF Extend
  <2> QED BY <1>6, <2>1, SamePromotion
<1> QED BY <1>10, <1>11, <1>12, <1>13, <1>14, <1>15, <1>16, ExtendTypes DEF IInv

LEMMA StartKeeps ==
  ASSUME BackgroundJobAssumption, IInv, NEW c \in Callers, NEW j \in Jobs,
         NEW background \in BOOLEAN, Start(c, j, background)
  PROVE  IInv'
<1> DEFINE t == starts + 1
           f == Work(t, 0, j, "working")
<1>0. TypeOK /\ t \in Tokens /\ starts' = t
  <2>1. starts \in 0..MaxStarts /\ starts < MaxStarts BY DEF IInv, TypeOK, Start
  <2>2. TypeOK BY DEF IInv
  <2> QED BY <2>1, <2>2 DEF Start, Tokens, BackgroundJobAssumption
<1>1. fibers' = fibers \cup {f}
  BY DEF Start
<1>2. f.token = t /\ f.seq = 0 /\ f.id = j /\ f.phase = "working"
  BY DEF Work
<1>3. /\ \A i \in Jobs : i # j => jobs'[i] = jobs[i]
      /\ jobs'[j] = [token |-> t, status |-> "running", pending |-> 1, next |-> 1, output |-> -1,
                     background |-> background]
  BY <1>0 DEF Start, TypeOK
<1>4. /\ done' = done /\ closed' = closed /\ promoted' = promoted
      /\ promoter' = promoter /\ injected' = injected
  BY DEF Start
<1>5. /\ \A i \in Jobs : jobs[i].token < t /\ jobs[i].token \in 0..MaxStarts
      /\ \A g \in fibers : g.token < t /\ g.token \in Nat
      /\ Unused(t)
  <2>1. starts \in Nat /\ t > starts
    BY <1>0 DEF TypeOK
  <2>2. \A i \in Jobs : jobs[i].token \in 0..MaxStarts /\ jobs[i].token <= starts
    BY <1>0 DEF IInv, TokensUsed, TypeOK, Entry
  <2>3. \A g \in fibers : g.token \in Nat /\ g.token <= starts
    BY <1>0 DEF IInv, TokensUsed, TypeOK, WorkState, Tokens
  <2>4. Unused(t)
    BY <1>0, <2>1 DEF IInv, TokensUsed
  <2> QED BY <2>1, <2>2, <2>3, <2>4 DEF BackgroundJobAssumption
<1>10. TokensOnce'
  <2> SUFFICES ASSUME NEW i \in Jobs, NEW k \in Jobs, jobs'[i].token = jobs'[k].token,
                      jobs'[k].token # 0
               PROVE  i = k
    BY DEF TokensOnce
  <2>1. CASE i # j /\ k # j
    BY <1>3, <2>1 DEF IInv, TokensOnce
  <2>2. CASE i = j \/ k = j
    BY <1>3, <1>5, <2>2
  <2> QED BY <2>1, <2>2
<1>11. TokensUsed'
  <2>1. \A i \in Jobs : jobs'[i].token <= t
    BY <1>0, <1>3, <1>5 DEF Tokens
  <2>2. \A g \in fibers' : g.token <= t
    BY <1>0, <1>1, <1>2, <1>5 DEF Tokens
  <2>3. \A u \in Tokens : u > t => Unused(u)
    BY <1>0 DEF IInv, TokensUsed, Tokens, TypeOK, BackgroundJobAssumption
  <2> QED BY <1>0, <1>4, <2>1, <2>2, <2>3 DEF TokensUsed, Unused
<1>12. FibersFit'
  <2>1. \A g \in fibers, i \in Jobs : g.token = jobs'[i].token => g.id = i
    BY <1>3, <1>5 DEF IInv, FibersFit
  <2>2. \A i \in Jobs : f.token = jobs'[i].token => i = j
    BY <1>2, <1>3, <1>5
  <2>3. \A g \in fibers : g.token # f.token
    BY <1>2, <1>5
  <2> QED BY <1>1, <1>2, <2>1, <2>2, <2>3 DEF IInv, FibersFit
<1>13. ASSUME NEW i \in Jobs PROVE Told(i)'
  <2>1. CASE i # j
    BY <1>3, <1>4, <2>1, SameTold
  <2>2. CASE i = j
    BY <1>0, <1>3, <1>4, <1>5, <2>2 DEF Told, Running, Unused, Tokens
  <2> QED BY <2>1, <2>2
<1>14. ASSUME NEW i \in Jobs, Running(i)' PROVE Queue(i)'
  <2>1. CASE i # j
    <3>1. Queue(i) /\ jobs[i].next \in Nat
      BY <1>0, <1>3, <1>14, <2>1 DEF IInv, Running, TypeOK, Entry
    <3>2. WorkOf(i)' = WorkOf(i)
      BY <1>1, <1>2, <1>3, <1>5, <2>1 DEF WorkOf
    <3> QED BY <1>0, <1>1, <1>3, <2>1, <3>1, <3>2, SameQueue DEF TypeOK
  <2>2. CASE i = j
    <3>1. WorkOf(j)' = {f}
      BY <1>1, <1>2, <1>3, <1>5 DEF WorkOf
    <3>2. Cardinality({f}) = 1
      BY FS_Singleton
    <3>3. BehindIsQueued(j)' /\ GoneHasSettled(j)'
      BY <1>2, <1>3, <3>1 DEF BehindIsQueued, GoneHasSettled
    <3> QED BY <1>2, <1>3, <2>2, <3>1, <3>2, <3>3 DEF Queue
  <2> QED BY <2>1, <2>2
<1>15. CompletesWithLatest'
  BY <1>3 DEF IInv, CompletesWithLatest
<1>16. ASSUME NEW i \in Jobs PROVE PromotionTold(i)'
  <2>1. CASE i # j
    <3>1. PromotionTold(i) BY DEF IInv
    <3>2. jobs[i].token \in promoted => jobs[i].token \in Tokens /\ jobs[i].token # t
      BY <1>0, <1>5 DEF TypeOK
    <3>3. \A u \in Tokens : u # t => notifiers'[u] = notifiers[u]
      BY <1>0 DEF Start, TypeOK
    <3> QED BY <1>3, <1>4, <2>1, <3>1, <3>2, <3>3 DEF PromotionTold, WillBeNotified
  <2>2. CASE i = j
    BY <1>3, <1>4, <1>5, <2>2 DEF PromotionTold, Unused
  <2> QED BY <2>1, <2>2
<1> QED BY <1>10, <1>11, <1>12, <1>13, <1>14, <1>15, <1>16, StartTypes DEF IInv

-----------------------------------------------------------------------------
(* Work begins and ends.                                                    *)

\* A piece of work that has not ended goes on to work, or ends: nothing before
\* it in its job is still to end.
LEMMA MovedKeeps ==
  ASSUME BackgroundJobAssumption, IInv, NEW f \in fibers, NEW g \in WorkState,
         Move(f, g), f.phase # "ended", g.phase # "queued",
         g.phase = "ended" => g.result # "none",
         g.token = f.token, g.seq = f.seq, g.id = f.id,
         \A j \in Jobs : Running(j) =>
           \A h \in WorkOf(j) : f \in WorkOf(j) /\ h.seq < f.seq => h.phase = "ended",
         UNCHANGED <<jobs, starts, closed, done, promoted, caller, promoter, notifiers, injected>>
  PROVE  IInv'
<1>0. TypeOK
  BY DEF IInv
<1>1. fibers' = (fibers \ {f}) \cup {g}
  BY DEF Move
<1>2. TypeOK'
  BY <1>0, <1>1 DEF TypeOK
<1>3. \A h \in fibers : h # f => h.token # f.token \/ h.seq # f.seq
  BY DEF IInv, FibersFit
<1>4. g \notin fibers \ {f}
  BY <1>3
<1>5. IsFiniteSet(fibers')
  <2>1. IsFiniteSet(fibers) BY DEF IInv
  <2>2. IsFiniteSet(fibers \ {f}) BY <2>1, FS_RemoveElement
  <2> QED BY <1>1, <2>2, FS_AddElement
<1>10. TokensOnce' /\ CompletesWithLatest'
  BY DEF IInv, TokensOnce, CompletesWithLatest
<1>11. TokensUsed'
  BY <1>1 DEF IInv, TokensUsed, Unused
<1>12. FibersFit'
  BY <1>1, <1>3 DEF IInv, FibersFit
<1>13. \A j \in Jobs : Told(j)'
  BY SameTold
<1>14. ASSUME NEW j \in Jobs, Running(j)' PROVE Queue(j)'
  <2>1. Running(j) /\ Queue(j) /\ jobs[j].next \in Nat
    BY <1>0, <1>14 DEF IInv, Running, TypeOK, Entry
  <2>2. CASE f.token # jobs[j].token
    <3>1. WorkOf(j)' = WorkOf(j)
      BY <1>1, <2>2 DEF WorkOf
    <3>2. \A n \in Int : Work(jobs[j].token, n, j, "queued") \in fibers =>
                            Work(jobs[j].token, n, j, "queued") \in fibers'
      BY <1>1, <2>2 DEF Work
    <3> QED BY <1>0, <2>1, <3>1, <3>2, SameQueue DEF TypeOK
  <2>3. CASE f.token = jobs[j].token
    <3>1. WorkOf(j)' = (WorkOf(j) \ {f}) \cup {g} /\ f \in WorkOf(j)
      BY <1>1, <2>3 DEF WorkOf
    <3>2. \A h \in WorkOf(j) : h.seq \in Nat
      BY <1>0 DEF WorkOf, TypeOK, WorkState
    <3>3. BehindIsQueued(j)'
      <4> SUFFICES ASSUME NEW h \in WorkOf(j)', h.phase # "ended",
                          NEW n \in (h.seq + 1)..(jobs[j].next - 1)
                   PROVE  Work(jobs[j].token, n, j, "queued") \in fibers'
        BY DEF BehindIsQueued
      <4>1. PICK k \in WorkOf(j) : k.seq = h.seq /\ k.phase # "ended"
        BY <3>1
      <4>2. Work(jobs[j].token, n, j, "queued") \in fibers
        BY <2>1, <4>1 DEF Queue, BehindIsQueued
      <4>3. ~(k.seq < f.seq)
        BY <2>1, <3>1, <4>1
      <4>4. n # f.seq
        BY <3>1, <3>2, <4>1, <4>3
      <4>5. Work(jobs[j].token, n, j, "queued") # f
        BY <4>4 DEF Work
      <4> QED BY <1>1, <4>2, <4>5
    <3>4. GoneHasSettled(j)'
      BY <2>1, <3>1 DEF Queue, GoneHasSettled
    <3>5. Cardinality(WorkOf(j)') = Cardinality(WorkOf(j))
      <4>1. IsFiniteSet(WorkOf(j))
        BY FS_Subset DEF IInv, WorkOf
      <4>2. IsFiniteSet(WorkOf(j) \ {f})
            /\ Cardinality(WorkOf(j) \ {f}) = Cardinality(WorkOf(j)) - 1
        BY <3>1, <4>1, FS_RemoveElement
      <4>3. g \notin WorkOf(j) \ {f}
        BY <1>4 DEF WorkOf
      <4>4. Cardinality((WorkOf(j) \ {f}) \cup {g}) = Cardinality(WorkOf(j) \ {f}) + 1
        BY <4>2, <4>3, FS_AddElement
      <4>5. Cardinality(WorkOf(j)) \in Nat
        BY <4>1, FS_CardinalityType
      <4> QED BY <3>1, <4>2, <4>4, <4>5
    <3>6. \A h \in WorkOf(j)' : h.seq < jobs[j].next
      BY <2>1, <3>1 DEF Queue
    <3> QED BY <2>1, <3>3, <3>4, <3>5, <3>6 DEF Queue
  <2> QED BY <2>2, <2>3
<1>15. \A j \in Jobs : PromotionTold(j)'
  BY SamePromotion
<1> QED BY <1>2, <1>5, <1>10, <1>11, <1>12, <1>13, <1>14, <1>15 DEF IInv

LEMMA BeginKeeps ==
  ASSUME BackgroundJobAssumption, IInv, NEW f \in fibers, Begin(f)
  PROVE  IInv'
<1> DEFINE g == [f EXCEPT !.phase = "working"]
<1>0. TypeOK /\ f \in WorkState
  BY DEF IInv, TypeOK
<1>1. g \in WorkState
  BY <1>0, MovedType DEF Results
<1>2. g.phase = "working" /\ g.token = f.token /\ g.seq = f.seq /\ g.id = f.id
  BY <1>0 DEF WorkState
<1>3. ASSUME NEW j \in Jobs, Running(j), f \in WorkOf(j), NEW h \in WorkOf(j),
             h.seq < f.seq, h.phase # "ended"
      PROVE  FALSE
  <2>1. f.seq \in Nat /\ h.seq \in Nat /\ f.seq < jobs[j].next /\ jobs[j].next \in Nat
    BY <1>0, <1>3 DEF IInv, Queue, WorkOf, TypeOK, WorkState, Entry
  <2>2. f.seq - 1 # h.seq
    BY <1>3 DEF Begin, WorkOf
  <2>3. f.seq - 1 \in (h.seq + 1)..(jobs[j].next - 1)
    BY <1>3, <2>1, <2>2
  <2>4. Work(jobs[j].token, f.seq - 1, j, "queued") \in fibers
    BY <1>3, <2>3 DEF IInv, Queue, BehindIsQueued
  <2> QED BY <1>3, <2>4 DEF Begin, Work, WorkOf
<1> QED BY <1>1, <1>2, <1>3, MovedKeeps DEF Begin

LEMMA FinishKeeps ==
  ASSUME BackgroundJobAssumption, IInv, NEW f \in fibers, NEW result \in Results, Finish(f, result)
  PROVE  IInv'
<1> DEFINE g == [f EXCEPT !.phase = "ended", !.result = result]
<1>0. TypeOK /\ f \in WorkState
  BY DEF IInv, TypeOK
<1>1. g \in WorkState
  BY <1>0, MovedType
<1>2. /\ g.phase = "ended" /\ g.token = f.token /\ g.seq = f.seq /\ g.id = f.id
      /\ g.result # "none"
  BY <1>0 DEF WorkState, Results
<1>3. ASSUME NEW j \in Jobs, Running(j), f \in WorkOf(j), NEW h \in WorkOf(j),
             h.seq < f.seq, h.phase # "ended"
      PROVE  FALSE
  <2>1. f.phase = "working"
    BY <1>3, RunningToken DEF Finish, WorkOf
  <2>2. f.seq \in Nat /\ h.seq \in Nat /\ f.seq < jobs[j].next /\ jobs[j].next \in Nat
    BY <1>0, <1>3 DEF IInv, Queue, WorkOf, TypeOK, WorkState, Entry
  <2>3. f.seq \in (h.seq + 1)..(jobs[j].next - 1)
    BY <1>3, <2>2
  <2>4. Work(jobs[j].token, f.seq, j, "queued") \in fibers
    BY <1>3, <2>3 DEF IInv, Queue, BehindIsQueued
  <2>5. Work(jobs[j].token, f.seq, j, "queued") = f
    BY <1>3, <2>4 DEF IInv, FibersFit, Work, WorkOf
  <2> QED BY <2>1, <2>5 DEF Work
<1>4. f.phase # "ended"
  BY DEF Finish
<1> QED BY <1>1, <1>2, <1>3, <1>4, MovedKeeps DEF Finish

\* What is left of a job's queue when work of others settles.
LEMMA OthersQueue ==
  ASSUME BackgroundJobAssumption, IInv, NEW j \in Jobs, Running(j)',
         jobs'[j] = jobs[j], fibers' \subseteq fibers,
         \A f \in fibers \ fibers' : f.phase = "ended" /\ f.token # jobs[j].token
  PROVE  Queue(j)'
<1>1. Running(j) /\ Queue(j) /\ jobs[j].next \in Nat /\ fibers \subseteq WorkState
  BY DEF IInv, Running, TypeOK, Entry
<1>2. WorkOf(j)' = WorkOf(j)
  BY DEF WorkOf
<1>3. \A n \in Int : Work(jobs[j].token, n, j, "queued") \in fibers =>
                        Work(jobs[j].token, n, j, "queued") \in fibers'
  BY DEF Work
<1> QED BY <1>1, <1>2, <1>3, SameQueue

\* A running job becomes final, with an output that fits what it accepted.
LEMMA FinalKeeps ==
  ASSUME BackgroundJobAssumption, IInv, NEW j \in Jobs, Running(j),
         NEW entry \in Entry, Final(j, entry),
         entry.token = jobs[j].token, entry.status \in Endings,
         entry.background = jobs[j].background,
         entry.status = "completed" => entry.output = entry.next - 1,
         fibers' \subseteq fibers,
         \A f \in fibers \ fibers' : f.phase = "ended" /\ f.id = j,
         caller' \in [Callers -> [pc : {"idle", "waiting", "told", "answered"},
                                  token : 0..MaxStarts, id : Jobs \cup {NoJob}]],
         UNCHANGED <<starts, promoted, promoter, notifiers, injected>>
  PROVE  IInv'
<1> DEFINE t == jobs[j].token
<1>0. TypeOK /\ t \in Tokens /\ t # 0
  BY RunningToken DEF IInv, Tokens
<1>1. /\ \A i \in Jobs : i # j => jobs'[i] = jobs[i]
      /\ jobs'[j] = entry
  BY <1>0 DEF Final, TypeOK
<1>2. /\ \A u \in Tokens : u # t => done'[u] = done[u]
      /\ done'[t] = Info(entry)
      /\ closed' = closed \cup {t}
  BY <1>0 DEF Final, TypeOK
<1>3. TypeOK'
  <2>1. jobs' \in [Jobs -> Entry]
    BY <1>0 DEF Final, TypeOK
  <2>2. done' \in [Tokens -> [status : Endings \cup {"running"}, background : BOOLEAN]]
    BY <1>0, InfoType DEF Final, TypeOK
  <2> QED BY <1>0, <1>2, <2>1, <2>2 DEF TypeOK
<1>4. IsFiniteSet(fibers')
  BY FS_Subset DEF IInv
<1>5. \A i \in Jobs : i # j => jobs[i].token # t
  BY <1>0 DEF IInv, TokensOnce
<1>10. TokensOnce'
  <2>1. \A i \in Jobs : jobs'[i].token = jobs[i].token
    BY <1>1
  <2> QED BY <2>1 DEF IInv, TokensOnce
<1>11. TokensUsed'
  <2>1. t <= starts /\ starts \in Nat /\ t \in Nat
    BY <1>0 DEF IInv, TokensUsed, TypeOK, Tokens
  <2>2. \A u \in Tokens : u > starts => u # t
    BY <2>1 DEF Tokens
  <2> QED BY <1>1, <1>2, <2>2 DEF IInv, TokensUsed, Unused
<1>12. FibersFit'
  BY <1>1 DEF IInv, FibersFit
<1>13. ASSUME NEW i \in Jobs PROVE Told(i)'
  <2>1. CASE i # j
    <3>1. Told(i) BY DEF IInv
    <3>2. jobs[i].token # 0 => jobs[i].token \in Tokens
      BY <1>0 DEF TypeOK, Entry, Tokens, BackgroundJobAssumption
    <3> QED BY <1>1, <1>2, <1>5, <2>1, <3>1, <3>2 DEF Told, Running
  <2>2. CASE i = j
    BY <1>1, <1>2, <2>2 DEF Told, Running, Endings
  <2> QED BY <2>1, <2>2
<1>14. ASSUME NEW i \in Jobs, Running(i)' PROVE Queue(i)'
  <2>1. i # j
    BY <1>1, <1>14 DEF Running, Endings
  <2>2. \A f \in fibers \ fibers' : f.token # jobs[i].token
    BY <2>1 DEF IInv, FibersFit
  <2> QED BY <1>1, <1>14, <2>1, <2>2, OthersQueue
<1>15. CompletesWithLatest'
  BY <1>1 DEF IInv, CompletesWithLatest
<1>16. ASSUME NEW i \in Jobs PROVE PromotionTold(i)'
  BY <1>1, SamePromotion DEF Running
<1> QED BY <1>3, <1>4, <1>10, <1>11, <1>12, <1>13, <1>14, <1>15, <1>16 DEF IInv

\* The output of a job keeps to the latest work that succeeded.
LEMMA OutputFits ==
  ASSUME IInv, NEW f \in fibers, ~Stale(f)
  PROVE  /\ Output(f) \in {-1} \cup Nat
         /\ Output(f) < jobs[f.id].next
         /\ Output(f) >= jobs[f.id].output
         /\ f.result = "success" => Output(f) >= f.seq
<1>1. f.id \in Jobs /\ f.seq \in Nat
  BY DEF IInv, TypeOK, WorkState
<1>2. jobs[f.id].output \in {-1} \cup Nat /\ jobs[f.id].next \in Nat
  BY <1>1 DEF IInv, TypeOK, Entry
<1>3. Queue(f.id) /\ f \in WorkOf(f.id)
  BY <1>1 DEF IInv, Stale, Running, WorkOf
<1> QED BY <1>1, <1>2, <1>3 DEF Queue, Output

\* The settlement that completes a job finds all other work settled.
LEMMA LastSettles ==
  ASSUME IInv, NEW f \in fibers, ~Stale(f), jobs[f.id].pending = 1, f.result = "success"
  PROVE  Output(f) = jobs[f.id].next - 1
<1> DEFINE j == f.id
<1>1. j \in Jobs /\ f.seq \in Nat
  BY DEF IInv, TypeOK, WorkState
<1>2. jobs[j].output \in {-1} \cup Nat /\ jobs[j].next \in Nat
  BY <1>1 DEF IInv, TypeOK, Entry
<1>3. Queue(j) /\ f \in WorkOf(j)
  BY <1>1 DEF IInv, Stale, Running, WorkOf
<1>4. WorkOf(j) = {f}
  <2>1. IsFiniteSet(WorkOf(j))
    BY FS_Subset DEF IInv, WorkOf
  <2>2. \E x : WorkOf(j) = {x}
    BY <1>3, <2>1, FS_Singleton DEF Queue
  <2> QED BY <1>3, <2>2
<1>5. f.seq # jobs[j].next - 1 => jobs[j].next - 1 <= jobs[j].output
  <2>1. f.seq < jobs[j].next
    BY <1>3 DEF Queue
  <2> QED BY <1>1, <1>2, <1>3, <1>4, <2>1 DEF Queue, GoneHasSettled
<1>6. Output(f) < jobs[j].next /\ Output(f) >= jobs[j].output /\ Output(f) >= f.seq
      /\ Output(f) \in {-1} \cup Nat
  BY OutputFits
<1> QED BY <1>1, <1>2, <1>5, <1>6

LEMMA SettleStale ==
  ASSUME BackgroundJobAssumption, IInv, NEW f \in fibers, Settle(f), Stale(f)
  PROVE  IInv'
<1>1. /\ fibers' = fibers \ {f} /\ f.phase = "ended"
      /\ UNCHANGED <<jobs, starts, closed, done, promoted, caller, promoter, notifiers, injected>>
  BY DEF Settle
<1>2. TypeOK'
  BY <1>1 DEF IInv, TypeOK
<1>3. IsFiniteSet(fibers')
  BY <1>1, FS_RemoveElement DEF IInv
<1>4. TokensOnce' /\ CompletesWithLatest'
  BY <1>1 DEF IInv, TokensOnce, CompletesWithLatest
<1>5. TokensUsed' /\ FibersFit'
  BY <1>1 DEF IInv, TokensUsed, Unused, FibersFit
<1>6. \A j \in Jobs : Told(j)'
  BY <1>1, SameTold
<1>7. ASSUME NEW j \in Jobs, Running(j)' PROVE Queue(j)'
  <2>1. Running(j)
    BY <1>1, <1>7 DEF Running
  <2>2. f.token # jobs[j].token
    BY <2>1 DEF IInv, FibersFit, Stale, Running
  <2> QED BY <1>1, <1>7, <2>2, OthersQueue
<1>8. \A j \in Jobs : PromotionTold(j)'
  BY <1>1, SamePromotion
<1> QED BY <1>2, <1>3, <1>4, <1>5, <1>6, <1>7, <1>8 DEF IInv

LEMMA SettleLast ==
  ASSUME BackgroundJobAssumption, IInv, NEW f \in fibers, Settle(f), ~Stale(f), Completes(f),
         f.result # "none"
  PROVE  IInv'
<1> DEFINE j == f.id
           entry == [jobs[j] EXCEPT !.status = Ending(f.result), !.pending = 0,
                                    !.output = Output(f)]
<1>0. TypeOK /\ f \in WorkState /\ j \in Jobs
  BY DEF IInv, TypeOK, WorkState
<1>1. jobs[j] \in Entry /\ Running(j)
  BY <1>0 DEF TypeOK, Stale, Running
<1>2. Ending(f.result) \in Endings
  BY <1>0 DEF Ending, Endings, WorkState, Results
<1>3. entry \in Entry
  <2>1. Output(f) \in {-1} \cup Nat BY OutputFits
  <2> QED BY <1>1, <1>2, <2>1, EntryTypes
<1>4. /\ entry.token = jobs[j].token /\ entry.status = Ending(f.result)
      /\ entry.background = jobs[j].background
      /\ entry.output = Output(f) /\ entry.next = jobs[j].next
  BY <1>1 DEF Entry
<1>5. entry.status = "completed" => entry.output = entry.next - 1
  <2>1. Ending(f.result) = "completed" => f.result = "success"
    BY <1>0 DEF Ending, WorkState, Results
  <2> QED BY <1>4, <2>1, LastSettles DEF Completes
<1>6. Final(j, entry) /\ fibers' = fibers \ {f} /\ f.phase = "ended"
      /\ UNCHANGED <<starts, promoted, caller, promoter, notifiers, injected>>
  BY DEF Settle
<1>7. caller' \in [Callers -> [pc : {"idle", "waiting", "told", "answered"},
                               token : 0..MaxStarts, id : Jobs \cup {NoJob}]]
  BY <1>0, <1>6 DEF TypeOK
<1>8. \A g \in fibers \ fibers' : g.phase = "ended" /\ g.id = j
  BY <1>6
<1> HIDE DEF entry
<1> QED BY <1>0, <1>1, <1>2, <1>3, <1>4, <1>5, <1>6, <1>7, <1>8, FinalKeeps

LEMMA SettlePart ==
  ASSUME BackgroundJobAssumption, IInv, NEW f \in fibers, Settle(f), ~Stale(f), ~Completes(f)
  PROVE  IInv'
<1> DEFINE j == f.id
<1>0. TypeOK /\ f \in WorkState /\ j \in Jobs /\ f.seq \in Nat
  BY DEF IInv, TypeOK, WorkState
<1>1. jobs[j] \in Entry /\ Running(j) /\ f \in WorkOf(j) /\ Queue(j)
  BY <1>0 DEF IInv, TypeOK, Stale, Running, WorkOf
<1>2. jobs[j].next \in Nat /\ jobs[j].pending \in Nat /\ jobs[j].output \in {-1} \cup Nat
  BY <1>1 DEF Entry
<1>3. /\ Output(f) \in {-1} \cup Nat /\ Output(f) < jobs[j].next
      /\ Output(f) >= jobs[j].output /\ Output(f) >= f.seq
  BY OutputFits DEF Completes
<1>4. IsFiniteSet(WorkOf(j))
  BY FS_Subset DEF IInv, WorkOf
<1>5. jobs[j].pending - 1 \in Nat
  <2>1. Cardinality(WorkOf(j)) \in Nat /\ Cardinality(WorkOf(j)) # 0
    BY <1>1, <1>4, FS_CardinalityType, FS_EmptySet
  <2> QED BY <1>1, <1>2, <2>1 DEF Queue
<1>6. /\ fibers' = fibers \ {f} /\ f.phase = "ended"
      /\ UNCHANGED <<starts, closed, done, promoted, caller, promoter, notifiers, injected>>
  BY DEF Settle
<1>7. jobs' = [jobs EXCEPT ![j] =
        [jobs[j] EXCEPT !.pending = jobs[j].pending - 1, !.output = Output(f)]]
  BY <1>0, <1>1 DEF Settle, TypeOK, Entry
<1>8. [jobs[j] EXCEPT !.pending = jobs[j].pending - 1, !.output = Output(f)] \in Entry
  BY <1>1, <1>3, <1>5, EntryTypes DEF Endings
<1>9. /\ \A i \in Jobs : i # j => jobs'[i] = jobs[i]
      /\ jobs'[j].token = jobs[j].token /\ jobs'[j].status = "running"
      /\ jobs'[j].background = jobs[j].background /\ jobs'[j].next = jobs[j].next
      /\ jobs'[j].pending = jobs[j].pending - 1 /\ jobs'[j].output = Output(f)
  BY <1>0, <1>1, <1>7 DEF TypeOK, Entry, Running
<1>10. \A i \in Jobs : jobs'[i].token = jobs[i].token /\ jobs'[i].status = jobs[i].status
                       /\ jobs'[i].background = jobs[i].background
  BY <1>1, <1>9 DEF Running
<1>11. TypeOK'
  BY <1>0, <1>6, <1>7, <1>8 DEF TypeOK
<1>12. IsFiniteSet(fibers')
  BY <1>6, FS_RemoveElement DEF IInv
<1>13. TokensOnce'
  BY <1>10 DEF IInv, TokensOnce
<1>14. TokensUsed' /\ FibersFit'
  BY <1>6, <1>10 DEF IInv, TokensUsed, Unused, FibersFit
<1>15. \A i \in Jobs : Told(i)'
  BY <1>6, <1>10, SameTold
<1>16. ASSUME NEW i \in Jobs, Running(i)' PROVE Queue(i)'
  <2>1. CASE i # j
    <3>1. \A g \in fibers \ fibers' : g.phase = "ended" /\ g.token # jobs[i].token
      BY <1>6, <2>1 DEF IInv, FibersFit
    <3> QED BY <1>6, <1>9, <1>16, <2>1, <3>1, OthersQueue
  <2>2. CASE i = j
    <3>1. WorkOf(j)' = WorkOf(j) \ {f}
      BY <1>6, <1>9 DEF WorkOf
    <3>2. BehindIsQueued(j)'
      <4>1. \A n \in Int : Work(jobs[j].token, n, j, "queued") # f
        BY <1>6 DEF Work
      <4>2. \A g \in WorkOf(j) : g.seq \in Nat
        BY <1>0 DEF TypeOK, WorkState, WorkOf
      <4> QED BY <1>1, <1>2, <1>6, <1>9, <3>1, <4>1, <4>2 DEF Queue, BehindIsQueued
    <3>3. GoneHasSettled(j)'
      <4> SUFFICES ASSUME NEW n \in 0..(jobs[j].next - 1), \A g \in WorkOf(j)' : g.seq # n
                   PROVE  n <= Output(f)
        BY <1>9 DEF GoneHasSettled
      <4>1. CASE n = f.seq
        BY <1>0, <1>3, <4>1
      <4>2. CASE n # f.seq
        <5>1. \A g \in WorkOf(j) : g.seq # n
          BY <3>1, <4>2
        <5>2. n <= jobs[j].output
          BY <1>1, <5>1 DEF Queue, GoneHasSettled
        <5> QED BY <1>2, <1>3, <5>2
      <4> QED BY <4>1, <4>2
    <3>4. jobs'[j].pending = Cardinality(WorkOf(j)')
      <4>1. Cardinality(WorkOf(j) \ {f}) = Cardinality(WorkOf(j)) - 1
        BY <1>1, <1>4, FS_RemoveElement
      <4> QED BY <1>1, <1>9, <3>1, <4>1 DEF Queue
    <3>5. (\A g \in WorkOf(j)' : g.seq < jobs'[j].next) /\ jobs'[j].output < jobs'[j].next
      BY <1>1, <1>3, <1>9, <3>1 DEF Queue
    <3> QED BY <2>2, <3>2, <3>3, <3>4, <3>5 DEF Queue
  <2> QED BY <2>1, <2>2
<1>17. CompletesWithLatest'
  BY <1>9 DEF IInv, CompletesWithLatest
<1>18. \A i \in Jobs : PromotionTold(i)'
  BY <1>6, <1>10, SamePromotion
<1> QED BY <1>11, <1>12, <1>13, <1>14, <1>15, <1>16, <1>17, <1>18 DEF IInv

-----------------------------------------------------------------------------
(* Cancelling, promoting and notifying.                                     *)

LEMMA CancelKeeps ==
  ASSUME BackgroundJobAssumption, IInv, NEW j \in Jobs, CancelJob(j), fibers' = fibers,
         caller' \in [Callers -> [pc : {"idle", "waiting", "told", "answered"},
                                  token : 0..MaxStarts, id : Jobs \cup {NoJob}]],
         UNCHANGED <<starts, promoted, promoter, notifiers, injected>>
  PROVE  IInv'
<1> DEFINE entry == [jobs[j] EXCEPT !.status = "cancelled", !.pending = 0]
<1>1. jobs[j] \in Entry
  BY DEF IInv, TypeOK
<1>2. entry \in Entry
  BY <1>1, EntryTypes DEF Endings
<1>3. /\ entry.token = jobs[j].token /\ entry.status = "cancelled"
      /\ entry.background = jobs[j].background
  BY <1>1 DEF Entry
<1>4. Running(j) /\ Final(j, entry)
  BY DEF CancelJob
<1>5. "cancelled" \in Endings
  BY DEF Endings
<1> HIDE DEF entry
<1> QED BY <1>2, <1>3, <1>4, <1>5, FinalKeeps

\* What leaves the registry and its fibers alone.
LEMMA ClientKeeps ==
  ASSUME IInv, TypeOK', UNCHANGED registryVars, \A j \in Jobs : PromotionTold(j)'
  PROVE  IInv'
<1> USE DEF registryVars
<1>1. TokensOnce' /\ CompletesWithLatest' /\ IsFiniteSet(fibers)'
  BY DEF IInv, TokensOnce, CompletesWithLatest
<1>2. TokensUsed' /\ FibersFit'
  BY DEF IInv, TokensUsed, Unused, FibersFit
<1>3. \A j \in Jobs : Told(j)'
  BY SameTold
<1>4. ASSUME NEW j \in Jobs, Running(j)' PROVE Queue(j)'
  <2>1. Running(j) BY <1>4 DEF Running
  <2>2. Queue(j) /\ jobs[j].next \in Nat /\ fibers \subseteq WorkState
    BY <2>1 DEF IInv, TypeOK, Entry
  <2>3. WorkOf(j)' = WorkOf(j) BY DEF WorkOf
  <2> QED BY <2>2, <2>3, SameQueue
<1> QED BY <1>1, <1>2, <1>3, <1>4 DEF IInv

LEMMA AnsweredKeeps ==
  ASSUME BackgroundJobAssumption, IInv, NEW c \in Callers, Answered(c) \/ Return(c)
  PROVE  IInv'
<1>0. TypeOK BY DEF IInv
<1>1. UNCHANGED <<registryVars, promoter, notifiers, injected>>
  BY DEF Answered, Return
<1>2. TypeOK'
  <2>1. IdleCaller \in [pc : {"idle", "waiting", "told", "answered"}, token : 0..MaxStarts,
                        id : Jobs \cup {NoJob}]
    BY DEF IdleCaller, BackgroundJobAssumption
  <2>2. caller' \in [Callers -> [pc : {"idle", "waiting", "told", "answered"},
                                 token : 0..MaxStarts, id : Jobs \cup {NoJob}]]
    BY <1>0, <2>1 DEF TypeOK, Answered, Return, Busy
  <2> QED BY <1>0, <1>1, <2>2 DEF TypeOK, registryVars
<1>3. \A j \in Jobs : PromotionTold(j)'
  BY <1>1, SamePromotion DEF registryVars
<1> QED BY <1>1, <1>2, <1>3, ClientKeeps

LEMMA AbortKeeps ==
  ASSUME BackgroundJobAssumption, IInv, NEW c \in Callers, Abort(c), caller[c].id \in Jobs
  PROVE  IInv'
<1>0. TypeOK BY DEF IInv
<1>1. caller' \in [Callers -> [pc : {"idle", "waiting", "told", "answered"},
                               token : 0..MaxStarts, id : Jobs \cup {NoJob}]]
  <2>1. IdleCaller \in [pc : {"idle", "waiting", "told", "answered"}, token : 0..MaxStarts,
                        id : Jobs \cup {NoJob}]
    BY DEF IdleCaller, BackgroundJobAssumption
  <2> QED BY <1>0, <2>1 DEF TypeOK, Abort
<1>2. CASE CancelJob(caller[c].id)
  BY <1>1, <1>2, CancelKeeps DEF Abort
<1>3. CASE UNCHANGED <<jobs, done, closed>>
  <2>1. UNCHANGED <<registryVars, promoter, notifiers, injected>>
    BY <1>3 DEF Abort, registryVars
  <2>2. TypeOK'
    BY <1>0, <1>1, <2>1 DEF TypeOK, registryVars
  <2>3. \A j \in Jobs : PromotionTold(j)'
    BY <2>1, SamePromotion DEF registryVars
  <2> QED BY <2>1, <2>2, <2>3, ClientKeeps
<1> QED BY <1>2, <1>3 DEF Abort

LEMMA PromoteKeeps ==
  ASSUME BackgroundJobAssumption, IInv, NEW p \in Promoters, NEW j \in Jobs, Promote(p, j)
  PROVE  IInv'
<1>0. TypeOK /\ jobs[j] \in Entry /\ Running(j)
  BY DEF IInv, TypeOK, Promote
<1>1. [jobs[j] EXCEPT !.background = TRUE] \in Entry
  BY <1>0, EntryTypes DEF Endings
<1>2. jobs' = [jobs EXCEPT ![j] = [jobs[j] EXCEPT !.background = TRUE]]
  BY <1>0 DEF Promote, TypeOK, Entry
<1>3. /\ \A i \in Jobs : i # j => jobs'[i] = jobs[i]
      /\ \A i \in Jobs : jobs'[i].token = jobs[i].token /\ jobs'[i].status = jobs[i].status
                         /\ jobs'[i].pending = jobs[i].pending /\ jobs'[i].next = jobs[i].next
                         /\ jobs'[i].output = jobs[i].output
  BY <1>0, <1>2 DEF TypeOK, Entry
<1>4. jobs[j].token \in Tokens /\ jobs[j].token <= starts /\ done[jobs[j].token] = NoInfo
  BY <1>0, RunningToken DEF IInv, TokensUsed
<1>5. /\ UNCHANGED <<starts, fibers, closed, done, caller, notifiers, injected>>
      /\ promoted' = promoted \cup {jobs[j].token}
      /\ promoter[p] = NoJob /\ promoter' = [promoter EXCEPT ![p] = j]
  BY DEF Promote
<1>6. TypeOK'
  BY <1>0, <1>1, <1>2, <1>4, <1>5 DEF TypeOK
<1>7. TokensOnce' /\ CompletesWithLatest' /\ IsFiniteSet(fibers)'
  BY <1>3, <1>5 DEF IInv, TokensOnce, CompletesWithLatest
<1>8. TokensUsed'
  <2>1. starts \in Nat /\ jobs[j].token \in Nat
    BY <1>0, <1>4 DEF TypeOK, Tokens
  <2>2. \A u \in Tokens : u > starts => u # jobs[j].token
    BY <1>4, <2>1 DEF Tokens
  <2> QED BY <1>3, <1>5, <2>2 DEF IInv, TokensUsed, Unused
<1>9. FibersFit'
  BY <1>3, <1>5 DEF IInv, FibersFit
<1>10. ASSUME NEW i \in Jobs PROVE Told(i)'
  <2>1. CASE i = j
    <3>1. Told(j) BY DEF IInv
    <3> QED BY <1>0, <1>3, <1>4, <1>5, <2>1, <3>1 DEF Told, Running
  <2>2. CASE i # j
    BY <1>3, <1>5, <2>2, SameTold
  <2> QED BY <2>1, <2>2
<1>11. ASSUME NEW i \in Jobs, Running(i)' PROVE Queue(i)'
  <2>1. Running(i)
    BY <1>3, <1>11 DEF Running
  <2>2. Queue(i) /\ jobs[i].next \in Nat /\ fibers \subseteq WorkState
    BY <2>1 DEF IInv, TypeOK, Entry
  <2>3. WorkOf(i)' = WorkOf(i)
    BY <1>3, <1>5 DEF WorkOf
  <2> QED BY <1>3, <1>5, <2>2, <2>3, SameQueue
<1>12. ASSUME NEW i \in Jobs PROVE PromotionTold(i)'
  <2>0. PromotionTold(i) BY DEF IInv
  <2>1. CASE i = j
    BY <1>0, <1>5, <2>1 DEF PromotionTold, WillBeNotified, TypeOK
  <2>2. CASE i # j
    <3>1. jobs[i].token # jobs[j].token
      BY <1>4, <2>2 DEF IInv, TokensOnce, Tokens
    <3>2. \A q \in Promoters : promoter[q] = i => promoter'[q] = i
      BY <1>0, <1>5 DEF TypeOK, BackgroundJobAssumption
    <3> QED BY <1>3, <1>5, <2>0, <3>1, <3>2 DEF PromotionTold, WillBeNotified
  <2> QED BY <2>1, <2>2
<1> QED BY <1>6, <1>7, <1>8, <1>9, <1>10, <1>11, <1>12 DEF IInv

LEMMA NotifyKeeps ==
  ASSUME BackgroundJobAssumption, IInv, NEW p \in Promoters, Notify(p)
  PROVE  IInv'
<1>0. TypeOK /\ UNCHANGED <<registryVars, caller, injected>>
  BY DEF IInv, Notify
<1> DEFINE j == promoter[p]
<1>1. j \in Jobs
  BY <1>0 DEF Notify, TypeOK
<1>2. notifiers' \in [Tokens -> Nat]
  <2>1. notifiers' = [notifiers EXCEPT ![jobs[j].token] = @ + 1]
    BY DEF Notify
  <2>2. ASSUME NEW t \in Tokens PROVE notifiers'[t] \in Nat
    BY <1>0, <2>1 DEF TypeOK
  <2>3. DOMAIN notifiers' = Tokens
    BY <1>0, <2>1 DEF TypeOK
  <2> QED BY <1>0, <2>1, <2>2, <2>3 DEF TypeOK
<1>3. TypeOK'
  BY <1>0, <1>2 DEF Notify, TypeOK, registryVars
<1>4. ASSUME NEW i \in Jobs PROVE PromotionTold(i)'
  <2>0. PromotionTold(i) BY DEF IInv
  <2>1. jobs[i].token \in promoted => jobs[i].token \in Tokens
    BY <1>0 DEF TypeOK
  <2>2. \A t \in Tokens : notifiers[t] > 0 => notifiers'[t] > 0
    BY <1>0 DEF Notify, TypeOK
  <2>3. jobs[j].token \in Tokens => notifiers'[jobs[j].token] > 0
    BY <1>0 DEF Notify, TypeOK
  <2>4. \A q \in Promoters : q # p => promoter'[q] = promoter[q]
    BY <1>0 DEF Notify, TypeOK
  <2>5. CASE i = j
    BY <1>0, <2>1, <2>3, <2>5 DEF PromotionTold, WillBeNotified, registryVars
  <2>6. CASE i # j
    BY <1>0, <2>0, <2>1, <2>2, <2>4, <2>6 DEF PromotionTold, WillBeNotified, registryVars
  <2> QED BY <2>5, <2>6
<1> QED BY <1>0, <1>3, <1>4, ClientKeeps

LEMMA InjectKeeps ==
  ASSUME BackgroundJobAssumption, IInv, NEW t \in Tokens, Inject(t)
  PROVE  IInv'
<1>0. TypeOK /\ UNCHANGED <<registryVars, caller, promoter>>
  BY DEF IInv, Inject
<1>1. notifiers' \in [Tokens -> Nat] /\ injected' \in [Tokens -> Nat]
  <2>1. notifiers[t] \in Nat /\ notifiers[t] > 0
    BY <1>0 DEF Inject, TypeOK
  <2>2. notifiers[t] - 1 \in Nat
    BY <2>1
  <2> QED BY <1>0, <2>2 DEF Inject, TypeOK
<1>2. TypeOK'
  BY <1>0, <1>1 DEF TypeOK, registryVars
<1>3. ASSUME NEW i \in Jobs PROVE PromotionTold(i)'
  <2>0. PromotionTold(i) /\ Told(i) BY DEF IInv
  <2>1. \A u \in Tokens : u # t => notifiers'[u] = notifiers[u] /\ injected'[u] = injected[u]
    BY <1>0 DEF Inject, TypeOK
  <2>2. CASE jobs[i].token \notin promoted
    BY <1>0, <2>2 DEF PromotionTold, registryVars
  <2>3. CASE jobs[i].token \in promoted /\ jobs[i].token # t
    <3>1. jobs[i].token \in Tokens BY <1>0, <2>3 DEF TypeOK
    <3> QED BY <1>0, <2>0, <2>1, <2>3, <3>1 DEF PromotionTold, WillBeNotified, registryVars
  <2>4. CASE jobs[i].token = t /\ done[t].status # "cancelled"
    <3>1. injected'[t] > 0
      BY <1>0, <2>4 DEF Inject, TypeOK
    <3> QED BY <1>0, <2>4, <3>1 DEF PromotionTold, WillBeNotified, registryVars
  <2>5. CASE jobs[i].token = t /\ done[t].status = "cancelled"
    <3>1. t # 0 BY DEF Tokens
    <3>2. jobs[i].status = "cancelled"
      BY <2>0, <2>5, <3>1 DEF Told, Info, NoInfo
    <3> QED BY <1>0, <3>2 DEF PromotionTold, registryVars
  <2> QED BY <2>2, <2>3, <2>4, <2>5
<1> QED BY <1>0, <1>2, <1>3, ClientKeeps

-----------------------------------------------------------------------------
(* The invariant, and what follows from it.                                 *)

LEMMA InitKeeps ==
  ASSUME BackgroundJobAssumption, Init
  PROVE  IInv /\ CallersName
<1>1. jobs \in [Jobs -> Entry] /\ 0 \in 0..MaxStarts
  BY NoEntryType DEF Init, BackgroundJobAssumption
<1>2. IdleCaller \in [pc : {"idle", "waiting", "told", "answered"}, token : 0..MaxStarts,
                      id : Jobs \cup {NoJob}]
  BY DEF IdleCaller, BackgroundJobAssumption
<1>3. done \in [Tokens -> [status : Endings \cup {"running"}, background : BOOLEAN]]
  BY DEF Init, NoInfo
<1>4. TypeOK
  BY <1>1, <1>2, <1>3 DEF Init, TypeOK
<1>5. IsFiniteSet(fibers)
  BY FS_EmptySet DEF Init
<1>6. \A j \in Jobs : jobs[j].token = 0 /\ jobs[j].status = "none"
  BY DEF Init, NoEntry
<1>7. TokensOnce /\ TokensUsed /\ FibersFit /\ CompletesWithLatest /\ CallersName
  BY <1>6 DEF Init, TokensOnce, TokensUsed, Unused, FibersFit, CompletesWithLatest, CallersName,
              IdleCaller
<1>8. \A j \in Jobs : Told(j) /\ ~Running(j) /\ PromotionTold(j)
  BY <1>6 DEF Init, Told, Running, PromotionTold
<1> QED BY <1>4, <1>5, <1>7, <1>8 DEF IInv

LEMMA SettleKeeps ==
  ASSUME BackgroundJobAssumption, IInv, NEW f \in fibers, Settle(f)
  PROVE  IInv'
<1>1. f.result # "none"
  BY DEF Settle, IInv, FibersFit
<1> QED BY <1>1, SettleStale, SettleLast, SettlePart

LEMMA CallersKeep ==
  ASSUME IInv, CallersName, [Next]_vars
  PROVE  CallersName'
<1>1. ASSUME NEW c \in Callers, caller' = [caller EXCEPT ![c] = IdleCaller]
      PROVE  CallersName'
  BY <1>1 DEF CallersName, IdleCaller, IInv, TypeOK
<1>2. ASSUME NEW c \in Callers, NEW j \in Jobs, Extend(c, j) PROVE CallersName'
  BY <1>2 DEF Extend, Busy, CallersName, IInv, TypeOK
<1>3. ASSUME NEW c \in Callers, NEW j \in Jobs, NEW background \in BOOLEAN,
             Start(c, j, background)
      PROVE  CallersName'
  BY <1>3 DEF Start, Busy, CallersName, IInv, TypeOK
<1>4. ASSUME NEW c \in Callers, Answered(c) PROVE CallersName'
  BY <1>4 DEF Answered, Busy, CallersName, IInv, TypeOK
<1>5. ASSUME NEW c \in Callers, Return(c) \/ Abort(c) PROVE CallersName'
  BY <1>1, <1>5 DEF Return, Abort
<1>6. caller' = caller => CallersName'
  BY DEF CallersName
<1>7. ASSUME NEW f \in fibers, Working(f) PROVE caller' = caller
  BY <1>7 DEF Working, Begin, Finish, Settle
<1>8. ASSUME NEW j \in Jobs, Cancel(j) \/ \E p \in Promoters : Promote(p, j) PROVE caller' = caller
  BY <1>8 DEF Cancel, Promote
<1>9. ASSUME (\E p \in Promoters : Notify(p)) \/ \E t \in Tokens : Inject(t) PROVE caller' = caller
  BY <1>9 DEF Notify, Inject
<1>10. UNCHANGED vars => caller' = caller
  BY DEF vars
<1> QED BY <1>2, <1>3, <1>4, <1>5, <1>6, <1>7, <1>8, <1>9, <1>10 DEF Next, Calling

LEMMA NextKeeps ==
  ASSUME BackgroundJobAssumption, IInv, CallersName, [Next]_vars
  PROVE  IInv'
<1>1. ASSUME NEW c \in Callers, Calling(c) PROVE IInv'
  <2>1. ASSUME Abort(c) PROVE IInv'
    BY <2>1, AbortKeeps DEF CallersName, Abort
  <2> QED BY <1>1, <2>1, ExtendKeeps, StartKeeps, AnsweredKeeps DEF Calling
<1>2. ASSUME NEW f \in fibers, Working(f) PROVE IInv'
  BY <1>2, BeginKeeps, FinishKeeps, SettleKeeps DEF Working
<1>3. ASSUME NEW j \in Jobs, Cancel(j) PROVE IInv'
  <2>1. TypeOK BY DEF IInv
  <2> QED BY <1>3, <2>1, CancelKeeps DEF Cancel, TypeOK
<1>4. ASSUME UNCHANGED vars PROVE IInv'
  <2>1. UNCHANGED <<registryVars, caller, promoter, notifiers, injected>>
    BY <1>4 DEF vars, registryVars
  <2>2. TypeOK'
    BY <2>1 DEF IInv, TypeOK, registryVars
  <2>3. \A j \in Jobs : PromotionTold(j)'
    BY <2>1, SamePromotion DEF registryVars
  <2> QED BY <2>1, <2>2, <2>3, ClientKeeps
<1> QED BY <1>1, <1>2, <1>3, <1>4, PromoteKeeps, NotifyKeeps, InjectKeeps DEF Next

\* The invariant holds in every reachable state.
THEOREM Inductive == Spec => [](IInv /\ CallersName)
<1>1. Init => IInv /\ CallersName
  BY BackgroundJobAssumption, InitKeeps
<1>2. (IInv /\ CallersName) /\ [Next]_vars => (IInv /\ CallersName)'
  BY BackgroundJobAssumption, NextKeeps, CallersKeep
<1> QED
  BY <1>1, <1>2, PTL DEF Spec

\* Types: the registry and its clients are in the ranges background-job.ts
\* declares.
THEOREM TypeCorrect == Spec => []TypeOK
<1>1. IInv => TypeOK
  BY DEF IInv
<1> QED
  BY <1>1, Inductive, PTL

\* However often a job is extended and however its work ends, one piece of work
\* of a running job is under way at a time.
THEOREM WorkSerialized == Spec => []WorkIsSerialized
<1>1. ASSUME IInv, NEW j \in Jobs, NEW f \in WorkOf(j), NEW g \in WorkOf(j), Running(j),
             f.phase = "working", g.phase = "working", f.seq < g.seq
      PROVE  FALSE
  <2>1. f.seq \in Nat /\ g.seq \in Nat /\ g.seq < jobs[j].next /\ jobs[j].next \in Nat
    BY <1>1 DEF IInv, Queue, WorkOf, TypeOK, WorkState, Entry
  <2>2. g.seq \in (f.seq + 1)..(jobs[j].next - 1)
    BY <1>1, <2>1
  <2>3. Work(jobs[j].token, g.seq, j, "queued") \in fibers
    BY <1>1, <2>2 DEF IInv, Queue, BehindIsQueued
  <2>4. Work(jobs[j].token, g.seq, j, "queued") = g
    BY <1>1, <2>3 DEF IInv, FibersFit, Work, WorkOf
  <2> QED BY <1>1, <2>4 DEF Work
<1>2. IInv => WorkIsSerialized
  <2> SUFFICES ASSUME IInv, NEW j \in Jobs, NEW f \in fibers, NEW g \in fibers, Running(j),
                      f.token = jobs[j].token, g.token = jobs[j].token,
                      f.phase = "working", g.phase = "working"
               PROVE  f = g
    BY DEF WorkIsSerialized
  <2>1. f \in WorkOf(j) /\ g \in WorkOf(j)
    BY DEF WorkOf
  <2>2. f.seq \in Nat /\ g.seq \in Nat
    BY DEF IInv, TypeOK, WorkState
  <2>3. f.seq = g.seq
    BY <1>1, <2>1, <2>2
  <2> QED BY <2>3 DEF IInv, FibersFit
<1> QED
  BY <1>2, Inductive, PTL

\* A job completes with the output of the last work it accepted.
THEOREM CompletesLatest == Spec => []CompletesWithLatest
<1>1. IInv => CompletesWithLatest
  BY DEF IInv
<1> QED
  BY <1>1, Inductive, PTL

\* A promoted job that ended has been reported, or will be.
THEOREM PromotedIsInjected == Spec => []PromotedEndIsInjected
<1>1. IInv => PromotedEndIsInjected
  BY DEF IInv, PromotionTold, PromotedEndIsInjected
<1> QED
  BY <1>1, Inductive, PTL

\* Only the deferred of a running job's start is resolved.
LEMMA FinalResolves ==
  ASSUME BackgroundJobAssumption, IInv, NEW j \in Jobs, Running(j), NEW entry,
         Final(j, entry), entry.token = jobs[j].token, NEW t \in Tokens, done[t].status \in Endings
  PROVE  done'[t] = done[t]
<1>1. done[jobs[j].token] = NoInfo
  BY RunningToken
<1>2. t # jobs[j].token
  BY <1>1 DEF NoInfo, Endings
<1> QED BY <1>2 DEF Final, IInv, TypeOK

LEMMA NextResolves ==
  ASSUME BackgroundJobAssumption, IInv, CallersName, [Next]_vars, NEW t \in Tokens,
         done[t].status \in Endings
  PROVE  done'[t] = done[t]
<1>1. ASSUME NEW j \in Jobs, CancelJob(j) PROVE done'[t] = done[t]
  <2> DEFINE entry == [jobs[j] EXCEPT !.status = "cancelled", !.pending = 0]
  <2>1. Running(j) /\ Final(j, entry)
    BY <1>1 DEF CancelJob
  <2>2. entry.token = jobs[j].token
    BY DEF IInv, TypeOK, Entry
  <2> HIDE DEF entry
  <2> QED BY <2>1, <2>2, FinalResolves
<1>2. ASSUME NEW f \in fibers, Settle(f) PROVE done'[t] = done[t]
  <2> DEFINE j == f.id
             entry == [jobs[j] EXCEPT !.status = Ending(f.result), !.pending = 0,
                                      !.output = Output(f)]
  <2>1. j \in Jobs
    BY DEF IInv, TypeOK, WorkState
  <2>2. entry.token = jobs[j].token
    BY <2>1 DEF IInv, TypeOK, Entry
  <2>3. CASE ~Stale(f) /\ Completes(f)
    <3>1. Running(j) /\ Final(j, entry)
      BY <1>2, <2>3 DEF Settle, Stale, Running
    <3> HIDE DEF entry
    <3> QED BY <2>1, <2>2, <3>1, FinalResolves
  <2>4. CASE Stale(f) \/ ~Completes(f)
    BY <1>2, <2>4 DEF Settle
  <2> QED BY <2>3, <2>4
<1>3. ASSUME NEW c \in Callers, Calling(c) PROVE done'[t] = done[t]
  <2>1. ASSUME Abort(c) PROVE done'[t] = done[t]
    BY <1>1, <2>1 DEF Abort, CallersName
  <2>2. ASSUME NEW j \in Jobs, Extend(c, j) PROVE done' = done
    BY <2>2 DEF Extend
  <2>3. ASSUME NEW j \in Jobs, NEW background \in BOOLEAN, Start(c, j, background)
        PROVE  done' = done
    BY <2>3 DEF Start
  <2>4. ASSUME Answered(c) \/ Return(c) PROVE done' = done
    BY <2>4 DEF Answered, Return, registryVars
  <2> QED BY <1>3, <2>1, <2>2, <2>3, <2>4 DEF Calling
<1>4. ASSUME NEW f \in fibers, Working(f) PROVE done'[t] = done[t]
  BY <1>2, <1>4 DEF Working, Begin, Finish
<1>5. ASSUME NEW j \in Jobs, Cancel(j) PROVE done'[t] = done[t]
  BY <1>1, <1>5 DEF Cancel
<1>6. ASSUME NEW p \in Promoters, NEW j \in Jobs, Promote(p, j) PROVE done' = done
  BY <1>6 DEF Promote
<1>7. ASSUME (\E p \in Promoters : Notify(p)) \/ \E u \in Tokens : Inject(u) PROVE done' = done
  BY <1>7 DEF Notify, Inject, registryVars
<1>8. UNCHANGED vars => done' = done
  BY DEF vars
<1> QED BY <1>3, <1>4, <1>5, <1>6, <1>7, <1>8 DEF Next

\* What was told of a start is never taken back, and agrees with the registry.
THEOREM EndIsFinal == Spec => EndsOnce
<1>1. ASSUME BackgroundJobAssumption, IInv, CallersName, IInv', [Next]_vars
      PROVE  /\ \A t \in Tokens : done[t].status \in Endings => done'[t] = done[t]
             /\ \A j \in Jobs : jobs'[j].token # 0 => done'[jobs'[j].token] =
                  IF jobs'[j].status = "running" THEN NoInfo ELSE Info(jobs'[j])
  <2>1. \A t \in Tokens : done[t].status \in Endings => done'[t] = done[t]
    BY <1>1, NextResolves
  <2>2. \A j \in Jobs : Told(j)'
    BY <1>1 DEF IInv
  <2> QED BY <2>1, <2>2 DEF Told, Running, Info
<1> QED
  BY <1>1, BackgroundJobAssumption, Inductive, PTL DEF EndsOnce, Spec

=============================================================================
