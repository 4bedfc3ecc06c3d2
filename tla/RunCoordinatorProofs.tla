------------------------ MODULE RunCoordinatorProofs ------------------------
(***************************************************************************)
(* Proofs about RunCoordinator.tla, for any sets of sessions and callers   *)
(* and any bounds.  The inductive invariant is the conjunction of the      *)
(* checked invariants in the form a step needs them: a session's entry and *)
(* its single drain fiber name each other.                                 *)
(***************************************************************************)
EXTENDS RunCoordinator, TLAPS

\* The entry of a session and its drain fiber: neither, or both and alike.
EntryMatches(k) ==
  \/ ~entry[k].live /\ fibers[k] = {}
  \/ entry[k].live /\ \E f \in Fiber : fibers[k] = {f} /\ f.num = entry[k].owner

EntriesMatch == \A k \in Keys : EntryMatches(k)

\* Only an idle caller is busy with no session.
CallersHaveKeys == \A c \in Callers : caller[c].pc # "idle" => caller[c].key \in Keys

IInv ==
  /\ TypeOK
  /\ EntriesMatch
  /\ CallersHaveKeys
  /\ FollowUpKept
  /\ NobodyWaitsForNothing

-----------------------------------------------------------------------------
LEMMA EntryTypes ==
  /\ NoEntry \in Entry
  /\ \A n \in Nat : NewEntry(n) \in Entry
  /\ ~NoEntry.live
  /\ \A n \in Nat : NewEntry(n).live /\ NewEntry(n).owner = n
BY DEF NoEntry, NewEntry, Entry

LEMMA NewFiberType ==
  ASSUME NEW n \in Nat, NEW force \in BOOLEAN, NEW successor \in BOOLEAN
  PROVE  NewFiber(n, force, successor) \in Fiber /\ NewFiber(n, force, successor).num = n
BY DEF NewFiber, Fiber, Phases

LEMMA BusyType ==
  ASSUME NEW c \in Callers, NEW k \in Keys, NEW n \in Nat,
         NEW pc \in {"recorded", "joined", "stopwait", "interrupting"}
  PROVE  Busy(c, pc, k, n) \in CallerState
BY DEF Busy, CallerState

LEMMA IdleCallerType == IdleCaller \in CallerState
BY DEF IdleCaller, CallerState

LEMMA SettledType ==
  ASSUME NEW cl \in CallerState, NEW success \in BOOLEAN
  PROVE  /\ Settled(cl, success) \in CallerState
         /\ Settled(cl, success).key = cl.key
         /\ Settled(cl, success).pc \notin {"joined", "stopwait"}
         /\ Settled(cl, success).pc = "idle" <=> cl.pc = "idle"
BY DEF Settled, CallerState

-----------------------------------------------------------------------------
(* The steps of a fiber exit, shared by its three causes.                   *)

LEMMA SettleType ==
  ASSUME TypeOK, NEW k \in Keys, NEW f \in fibers[k], NEW success \in BOOLEAN,
         Settle(k, f, success)
  PROVE  /\ entry' \in [Keys -> Entry]
         /\ fibers' \in [Keys -> SUBSET Fiber]
         /\ starts' \in [Keys -> Nat]
         /\ work' \in [Keys -> Nat]
         /\ caller' \in [Callers -> CallerState]
         /\ calls' \in Nat
         /\ owed' \in [Keys -> BOOLEAN]
<1> DEFINE n == starts[k] + 1
           rest == fibers[k] \ {f}
           again == success /\ ~entry[k].stopping /\ entry[k].pendingWake
<1>1. n \in Nat /\ rest \in SUBSET Fiber
  BY DEF TypeOK
<1>2. NewFiber(n, FALSE, TRUE) \in Fiber /\ NewEntry(n) \in Entry /\ NoEntry \in Entry
  BY <1>1, NewFiberType, EntryTypes
<1>3. /\ entry' \in [Keys -> Entry]
      /\ fibers' \in [Keys -> SUBSET Fiber]
      /\ starts' \in [Keys -> Nat]
      /\ owed' \in [Keys -> BOOLEAN]
  <2>1. CASE entry[k].pendingWake
    <3>1. /\ starts' = [starts EXCEPT ![k] = n]
          /\ fibers' = [fibers EXCEPT ![k] = rest \cup {NewFiber(n, FALSE, TRUE)}]
          /\ entry' = [entry EXCEPT ![k] = NewEntry(n)]
          /\ owed' = [owed EXCEPT ![k] = FALSE]
      BY <2>1 DEF Settle
    <3>2. rest \cup {NewFiber(n, FALSE, TRUE)} \in SUBSET Fiber
      BY <1>1, <1>2
    <3> HIDE DEF n, rest
    <3> QED BY <1>1, <1>2, <3>1, <3>2 DEF TypeOK
  <2>2. CASE ~entry[k].pendingWake
    <3>1. /\ fibers' = [fibers EXCEPT ![k] = rest]
          /\ entry' = [entry EXCEPT ![k] = NoEntry]
          /\ UNCHANGED <<starts, owed>>
      BY <2>2 DEF Settle
    <3> HIDE DEF n, rest
    <3> QED BY <1>1, <1>2, <3>1 DEF TypeOK
  <2> QED BY <2>1, <2>2
<1>4. caller' \in [Callers -> CallerState]
  <2>1. \A c \in Callers : caller[c] \in CallerState /\ Settled(caller[c], success) \in CallerState
    BY SettledType DEF TypeOK
  <2>2. caller' = [c \in Callers |->
          IF caller[c].key = k /\ ~again THEN Settled(caller[c], success) ELSE caller[c]]
    BY DEF Settle
  <2> QED BY <2>1, <2>2
<1> QED BY <1>3, <1>4 DEF TypeOK, Settle

LEMMA StartIdleType ==
  ASSUME TypeOK, NEW k \in Keys, NEW force \in BOOLEAN, StartIdle(k, force)
  PROVE  /\ entry' \in [Keys -> Entry]
         /\ fibers' \in [Keys -> SUBSET Fiber]
         /\ starts' \in [Keys -> Nat]
<1>1. starts[k] + 1 \in Nat
  BY DEF TypeOK
<1>2. /\ NewFiber(starts[k] + 1, force, FALSE) \in Fiber
      /\ NewEntry(starts[k] + 1) \in Entry
  BY <1>1, NewFiberType, EntryTypes
<1> QED BY <1>1, <1>2 DEF TypeOK, StartIdle

LEMMA MoveType ==
  ASSUME TypeOK, NEW k \in Keys, NEW f \in fibers[k], NEW phase \in Phases,
         NEW force \in BOOLEAN,
         Move(k, f, [f EXCEPT !.phase = phase, !.force = force])
  PROVE  fibers' \in [Keys -> SUBSET Fiber]
<1>1. f \in Fiber
  BY DEF TypeOK
<1>2. [f EXCEPT !.phase = phase, !.force = force] \in Fiber
  BY <1>1 DEF Fiber
<1> QED BY <1>2 DEF TypeOK, Move

LEMMA TypeOKInvariant == TypeOK /\ CallersHaveKeys /\ [Next]_vars => TypeOK'
<1> SUFFICES ASSUME TypeOK, CallersHaveKeys, [Next]_vars PROVE TypeOK'
  OBVIOUS
<1>1. ASSUME NEW c \in Callers, NEW k \in Keys, NEW resume \in BOOLEAN,
             Record(c, k, resume)
      PROVE  TypeOK'
  <2>1. Busy(c, "recorded", k, 0) \in CallerState
    BY BusyType
  <2> QED BY <1>1, <2>1 DEF TypeOK, Record, Call, execVars
<1>2. ASSUME NEW c \in Callers, Wake(c) PROVE TypeOK'
  <2> DEFINE k == caller[c].key
  <2>1. k \in Keys
    BY <1>2 DEF Wake, CallersHaveKeys
  <2>2. CASE WakeActive(k)
    <3>1. [entry EXCEPT ![k].pendingWake = TRUE] \in [Keys -> Entry]
      BY <2>1 DEF TypeOK, Entry
    <3> QED BY <1>2, <2>1, <2>2, <3>1, IdleCallerType DEF TypeOK, Wake, WakeActive
  <2>3. CASE WakeIdle(k)
    BY <1>2, <2>1, <2>3, StartIdleType, IdleCallerType DEF TypeOK, Wake, WakeIdle
  <2> QED BY <1>2, <2>2, <2>3 DEF Wake
<1>3. ASSUME NEW c \in Callers, NEW k \in Keys, RunJoin(c, k) \/ RunIdle(c, k)
      PROVE  /\ entry' \in [Keys -> Entry]
             /\ fibers' \in [Keys -> SUBSET Fiber]
             /\ starts' \in [Keys -> Nat]
             /\ caller' \in [Callers -> CallerState]
             /\ owed' \in [Keys -> BOOLEAN]
  <2>1. CASE RunJoin(c, k)
    BY <2>1, BusyType DEF TypeOK, RunJoin, execVars
  <2>2. CASE RunIdle(c, k)
    BY <2>2, StartIdleType, BusyType DEF TypeOK, RunIdle
  <2> QED BY <1>3, <2>1, <2>2
<1>4. ASSUME NEW c \in Callers, NEW k \in Keys, Run(c, k) PROVE TypeOK'
  <2>1. calls' \in Nat /\ work' = work /\ excused' = excused
    BY <1>4 DEF TypeOK, Run, Call
  <2> QED BY <1>3, <1>4, <2>1 DEF TypeOK, Run
<1>5. ASSUME NEW c \in Callers, Rerun(c) PROVE TypeOK'
  <2>1. caller[c].key \in Keys
    BY <1>5 DEF Rerun, CallersHaveKeys
  <2> QED BY <1>3, <1>5, <2>1 DEF TypeOK, Rerun
<1>6. ASSUME NEW c \in Callers, NEW k \in Keys, Interrupt(c, k) PROVE TypeOK'
  <2>1. entry' \in [Keys -> Entry]
    BY <1>6 DEF TypeOK, Interrupt, Entry
  <2>2. \A f \in fibers[k] : f \in Fiber /\ [f EXCEPT !.interrupted = TRUE] \in Fiber
    <3>1. \A f \in Fiber : [f EXCEPT !.interrupted = TRUE] \in Fiber
      BY DEF Fiber
    <3> QED BY <3>1 DEF TypeOK
  <2>3. {IF f.num = entry[k].owner THEN [f EXCEPT !.interrupted = TRUE] ELSE f : f \in fibers[k]}
          \in SUBSET Fiber
    BY <2>2
  <2>4. fibers' \in [Keys -> SUBSET Fiber]
    BY <1>6, <2>3 DEF TypeOK, Interrupt
  <2>5. entry[k].owner \in Nat
    BY DEF TypeOK, Entry
  <2>6. caller' \in [Callers -> CallerState]
    BY <1>6, <2>5, BusyType DEF TypeOK, Interrupt
  <2> QED BY <1>6, <2>1, <2>4, <2>6 DEF TypeOK, Interrupt, Call
<1>7. ASSUME NEW c \in Callers, Interrupted(c) \/ Return(c) PROVE TypeOK'
  BY <1>7, IdleCallerType DEF TypeOK, Interrupted, Return, execVars
<1>8. ASSUME NEW k \in Keys, NEW f \in fibers[k], DrainStep(k, f) PROVE TypeOK'
  <2>1. f \in Fiber
    BY DEF TypeOK
  <2>2. CASE Begin(k, f) \/ TurnEnds(k, f) \/ FindNothing(k, f)
    <3>1. \A g \in {"looking", "drained"} : [f EXCEPT !.phase = g] \in Fiber
      BY <2>1 DEF Fiber, Phases
    <3> QED BY <2>2, <3>1 DEF TypeOK, Begin, TurnEnds, FindNothing, Move
  <2>3. CASE Look(k, f)
    <3>1. [f EXCEPT !.phase = "turn", !.force = FALSE] \in Fiber
      BY <2>1 DEF Fiber, Phases
    <3>2. fibers' \in [Keys -> SUBSET Fiber]
      BY <2>3, <3>1 DEF TypeOK, Look, Move
    <3>3. work' \in [Keys -> Nat] /\ excused' \in [Keys -> BOOLEAN]
      BY <2>3 DEF TypeOK, Look
    <3> QED BY <2>3, <3>2, <3>3 DEF TypeOK, Look
  <2>4. CASE Succeed(k, f) \/ Fail(k, f) \/ ExitInterrupted(k, f)
    BY <2>4, SettleType DEF TypeOK, Succeed, Fail, ExitInterrupted
  <2> QED BY <1>8, <2>2, <2>3, <2>4 DEF DrainStep
<1>9. CASE Crash
  BY <1>9, EntryTypes, IdleCallerType DEF TypeOK, Crash
<1>10. CASE UNCHANGED vars
  BY <1>10 DEF TypeOK, vars
<1> QED BY <1>1, <1>2, <1>4, <1>5, <1>6, <1>7, <1>8, <1>9, <1>10
        DEF Next, Operations, Drains

-----------------------------------------------------------------------------
(* What each step does to the entries and fibers.                           *)

\* A session nobody touches keeps its entry and its fiber.
LEMMA EntryUnchanged ==
  ASSUME NEW k \in Keys, EntryMatches(k), entry'[k] = entry[k], fibers'[k] = fibers[k]
  PROVE  EntryMatches(k)'
BY DEF EntryMatches

\* Only the entry and the fiber of session k have changed.
LEMMA OthersUnchanged ==
  ASSUME EntriesMatch, NEW k \in Keys, EntryMatches(k)',
         \A j \in Keys : j # k => entry'[j] = entry[j] /\ fibers'[j] = fibers[j]
  PROVE  EntriesMatch'
<1> SUFFICES ASSUME NEW j \in Keys, j # k PROVE EntryMatches(j)'
  BY DEF EntriesMatch
<1> QED BY EntryUnchanged DEF EntriesMatch

LEMMA EntryHasFiber ==
  ASSUME NEW k \in Keys, NEW g \in Fiber,
         entry'[k].live, fibers'[k] = {g}, g.num = entry'[k].owner
  PROVE  EntryMatches(k)'
BY DEF EntryMatches

\* A drain that is alive is the one its entry names.
LEMMA TheFiber ==
  ASSUME TypeOK, EntriesMatch, NEW k \in Keys, NEW f \in fibers[k]
  PROVE  /\ entry[k].live
         /\ f \in Fiber
         /\ fibers[k] = {f}
         /\ f.num = entry[k].owner
BY DEF EntriesMatch, EntryMatches

LEMMA StartIdleMatches ==
  ASSUME TypeOK, EntriesMatch, NEW k \in Keys, NEW force \in BOOLEAN,
         ~entry[k].live, StartIdle(k, force)
  PROVE  EntriesMatch' /\ entry'[k].live
<1> DEFINE n == starts[k] + 1
           g == NewFiber(n, force, FALSE)
<1>1. n \in Nat
  BY DEF TypeOK
<1>2. fibers[k] = {}
  BY DEF EntriesMatch, EntryMatches
<1>3. entry'[k] = NewEntry(n) /\ fibers'[k] = {g}
  BY <1>2 DEF StartIdle, TypeOK
<1>4. EntryMatches(k)' /\ entry'[k].live
  <2>1. g \in Fiber /\ g.num = n
    BY <1>1, NewFiberType
  <2>2. entry'[k].live /\ entry'[k].owner = n
    BY <1>1, <1>3, EntryTypes
  <2> HIDE DEF n, g
  <2> QED BY <1>3, <2>1, <2>2, EntryHasFiber
<1>5. \A j \in Keys : j # k => entry'[j] = entry[j] /\ fibers'[j] = fibers[j]
  BY DEF StartIdle, TypeOK
<1> QED BY <1>4, <1>5, OthersUnchanged

LEMMA SettleMatches ==
  ASSUME TypeOK, EntriesMatch, NEW k \in Keys, NEW f \in fibers[k],
         NEW success \in BOOLEAN, Settle(k, f, success)
  PROVE  /\ EntriesMatch'
         /\ entry'[k].live <=> entry[k].pendingWake
<1> DEFINE n == starts[k] + 1
           g == NewFiber(n, FALSE, TRUE)
<1>1. n \in Nat
  BY DEF TypeOK
<1>2. fibers[k] \ {f} = {}
  BY TheFiber
<1>3. CASE entry[k].pendingWake
  <2>1. entry'[k] = NewEntry(n) /\ fibers'[k] = {g}
    <3>1. /\ fibers' = [fibers EXCEPT ![k] = (fibers[k] \ {f}) \cup {g}]
          /\ entry' = [entry EXCEPT ![k] = NewEntry(n)]
      BY <1>3 DEF Settle
    <3>2. (fibers[k] \ {f}) \cup {g} = {g}
      BY <1>2
    <3> HIDE DEF n, g
    <3> QED BY <3>1, <3>2 DEF TypeOK
  <2>2. EntryMatches(k)' /\ entry'[k].live
    <3>1. g \in Fiber /\ g.num = n
      BY <1>1, NewFiberType
    <3>2. entry'[k].live /\ entry'[k].owner = n
      BY <1>1, <2>1, EntryTypes
    <3> HIDE DEF n, g
    <3> QED BY <2>1, <3>1, <3>2, EntryHasFiber
  <2>3. \A j \in Keys : j # k => entry'[j] = entry[j] /\ fibers'[j] = fibers[j]
    BY <1>3 DEF Settle, TypeOK
  <2> QED BY <1>3, <2>2, <2>3, OthersUnchanged
<1>4. CASE ~entry[k].pendingWake
  <2>1. entry'[k] = NoEntry /\ fibers'[k] = {}
    BY <1>2, <1>4 DEF Settle, TypeOK
  <2>2. EntryMatches(k)' /\ ~entry'[k].live
    BY <2>1, EntryTypes DEF EntryMatches
  <2>3. \A j \in Keys : j # k => entry'[j] = entry[j] /\ fibers'[j] = fibers[j]
    BY <1>4 DEF Settle, TypeOK
  <2> QED BY <1>4, <2>2, <2>3, OthersUnchanged
<1> QED BY <1>3, <1>4

\* A step of a fiber that does not end it.
LEMMA MoveMatches ==
  ASSUME TypeOK, EntriesMatch, NEW k \in Keys, NEW f \in fibers[k], NEW g \in Fiber,
         g.num = f.num, Move(k, f, g), entry' = entry
  PROVE  EntriesMatch'
<1>1. entry[k].live /\ fibers[k] = {f} /\ f.num = entry[k].owner
  BY TheFiber
<1>2. fibers'[k] = {g}
  BY <1>1 DEF Move, TypeOK
<1>3. EntryMatches(k)'
  BY <1>1, <1>2 DEF EntryMatches
<1>4. \A j \in Keys : j # k => entry'[j] = entry[j] /\ fibers'[j] = fibers[j]
  BY DEF Move, TypeOK
<1> QED BY <1>3, <1>4, OthersUnchanged

LEMMA EntriesMatchInvariant ==
  TypeOK /\ EntriesMatch /\ CallersHaveKeys /\ [Next]_vars => EntriesMatch'
<1> SUFFICES ASSUME TypeOK, EntriesMatch, CallersHaveKeys, [Next]_vars
             PROVE  EntriesMatch'
  OBVIOUS
<1>1. ASSUME entry' = entry, fibers' = fibers PROVE EntriesMatch'
  BY <1>1 DEF EntriesMatch, EntryMatches
<1>2. ASSUME NEW k \in Keys, WakeActive(k) PROVE EntriesMatch'
  <2>1. PICK f \in Fiber : fibers[k] = {f} /\ f.num = entry[k].owner
    BY <1>2 DEF WakeActive, EntriesMatch, EntryMatches
  <2>2. entry[k] \in Entry
    BY DEF TypeOK
  <2>3. entry'[k] = [entry[k] EXCEPT !.pendingWake = TRUE]
    BY <1>2 DEF WakeActive, TypeOK
  <2>4. entry'[k].live /\ entry'[k].owner = entry[k].owner
    BY <1>2, <2>2, <2>3 DEF WakeActive, Entry
  <2>5. EntryMatches(k)'
    BY <1>2, <2>1, <2>4, EntryHasFiber DEF WakeActive
  <2>6. \A j \in Keys : j # k => entry'[j] = entry[j] /\ fibers'[j] = fibers[j]
    BY <1>2 DEF WakeActive, TypeOK
  <2> QED BY <2>5, <2>6, OthersUnchanged
<1>3. ASSUME NEW c \in Callers, Wake(c) PROVE EntriesMatch'
  BY <1>2, <1>3, StartIdleMatches DEF Wake, CallersHaveKeys, WakeIdle
<1>4. ASSUME NEW c \in Callers, NEW k \in Keys, RunJoin(c, k) \/ RunIdle(c, k)
      PROVE  EntriesMatch'
  BY <1>1, <1>4, StartIdleMatches DEF RunJoin, RunIdle, execVars
<1>5. ASSUME NEW c \in Callers, Rerun(c) PROVE EntriesMatch'
  BY <1>4, <1>5 DEF Rerun, CallersHaveKeys
<1>6. ASSUME NEW c \in Callers, NEW k \in Keys, Interrupt(c, k) PROVE EntriesMatch'
  <2>1. PICK f \in Fiber : fibers[k] = {f} /\ f.num = entry[k].owner
    BY <1>6 DEF Interrupt, EntriesMatch, EntryMatches
  <2>2. entry[k] \in Entry
    BY DEF TypeOK
  <2>3. entry'[k] = [entry[k] EXCEPT !.stopping = TRUE, !.pendingWake = FALSE]
    BY <1>6 DEF Interrupt, TypeOK
  <2>4. entry'[k].live /\ entry'[k].owner = entry[k].owner
    BY <1>6, <2>2, <2>3 DEF Interrupt, Entry
  <2> DEFINE g == [f EXCEPT !.interrupted = TRUE]
  <2>5. g \in Fiber /\ g.num = f.num
    BY DEF Fiber
  <2>6. fibers'[k] = {g}
    BY <1>6, <2>1 DEF Interrupt, TypeOK
  <2>7. EntryMatches(k)'
    <3> HIDE DEF g
    <3> QED BY <2>1, <2>4, <2>5, <2>6 DEF EntryMatches
  <2>8. \A j \in Keys : j # k => entry'[j] = entry[j] /\ fibers'[j] = fibers[j]
    BY <1>6 DEF Interrupt, TypeOK
  <2> QED BY <2>7, <2>8, OthersUnchanged
<1>7. ASSUME NEW k \in Keys, NEW f \in fibers[k], DrainStep(k, f) PROVE EntriesMatch'
  <2>1. f \in Fiber
    BY TheFiber
  <2>2. CASE Begin(k, f) \/ TurnEnds(k, f) \/ FindNothing(k, f)
    <3>1. \A p \in {"looking", "drained"} :
            [f EXCEPT !.phase = p] \in Fiber /\ [f EXCEPT !.phase = p].num = f.num
      BY <2>1 DEF Fiber, Phases
    <3> QED BY <2>2, <3>1, MoveMatches DEF Begin, TurnEnds, FindNothing
  <2>3. CASE Look(k, f)
    <3>1. /\ [f EXCEPT !.phase = "turn", !.force = FALSE] \in Fiber
          /\ [f EXCEPT !.phase = "turn", !.force = FALSE].num = f.num
      BY <2>1 DEF Fiber, Phases
    <3> QED BY <2>3, <3>1, MoveMatches DEF Look
  <2>4. CASE Succeed(k, f) \/ Fail(k, f) \/ ExitInterrupted(k, f)
    BY <2>4, SettleMatches DEF Succeed, Fail, ExitInterrupted
  <2> QED BY <1>7, <2>2, <2>3, <2>4 DEF DrainStep
<1>8. CASE Crash
  BY <1>8, EntryTypes DEF Crash, EntriesMatch, EntryMatches
<1> QED BY <1>1, <1>3, <1>4, <1>5, <1>6, <1>7, <1>8
        DEF Next, Operations, Drains, Record, Run, Interrupted, Return, vars, execVars

-----------------------------------------------------------------------------
(* Callers.                                                                 *)

LEMMA CallersHaveKeysInvariant ==
  TypeOK /\ CallersHaveKeys /\ [Next]_vars => CallersHaveKeys'
<1> SUFFICES ASSUME TypeOK, CallersHaveKeys, [Next]_vars PROVE CallersHaveKeys'
  OBVIOUS
<1>1. ASSUME NEW c \in Callers, NEW next \in CallerState,
             next.pc # "idle" => next.key \in Keys,
             caller' = [caller EXCEPT ![c] = next]
      PROVE  CallersHaveKeys'
  BY <1>1 DEF CallersHaveKeys, TypeOK
<1>2. ASSUME NEW c \in Callers, NEW k \in Keys, NEW n \in Nat,
             NEW pc \in {"recorded", "joined", "stopwait", "interrupting"},
             caller' = [caller EXCEPT ![c] = Busy(c, pc, k, n)]
      PROVE  CallersHaveKeys'
  <2>1. Busy(c, pc, k, n) \in CallerState /\ Busy(c, pc, k, n).key = k
    BY BusyType DEF Busy
  <2> QED BY <1>1, <1>2, <2>1
<1>3. ASSUME NEW c \in Callers, caller' = [caller EXCEPT ![c] = IdleCaller]
      PROVE  CallersHaveKeys'
  <2>1. IdleCaller \in CallerState /\ IdleCaller.pc = "idle"
    BY IdleCallerType DEF IdleCaller
  <2> QED BY <1>1, <1>3, <2>1
<1>4. ASSUME caller' = caller PROVE CallersHaveKeys'
  BY <1>4 DEF CallersHaveKeys
<1>5. ASSUME NEW c \in Callers, NEW k \in Keys, NEW resume \in BOOLEAN,
             Record(c, k, resume)
      PROVE  CallersHaveKeys'
  <2>1. CASE resume
    BY <1>2, <1>5, <2>1 DEF Record
  <2>2. CASE ~resume
    BY <1>4, <1>5, <2>2 DEF Record, TypeOK
  <2> QED BY <2>1, <2>2
<1>6. ASSUME NEW c \in Callers, NEW k \in Keys, RunJoin(c, k) \/ RunIdle(c, k)
      PROVE  CallersHaveKeys'
  <2>1. \E pc \in {"joined", "stopwait"} :
          caller' = [caller EXCEPT ![c] = Busy(c, pc, k, 0)]
    BY <1>6 DEF RunJoin, RunIdle
  <2> QED BY <1>2, <2>1
<1>7. ASSUME NEW c \in Callers, NEW k \in Keys, Interrupt(c, k) PROVE CallersHaveKeys'
  <2>1. entry[k].owner \in Nat
    BY DEF TypeOK, Entry
  <2> QED BY <1>2, <1>7, <2>1 DEF Interrupt
<1>8. ASSUME NEW k \in Keys, NEW f \in fibers[k], NEW success \in BOOLEAN,
             Settle(k, f, success)
      PROVE  CallersHaveKeys'
  <2>1. ASSUME NEW c \in Callers
        PROVE  caller'[c].key = caller[c].key /\ (caller'[c].pc = "idle" <=> caller[c].pc = "idle")
    <3>1. caller[c] \in CallerState
      BY DEF TypeOK
    <3>2. caller'[c] = caller[c] \/ caller'[c] = Settled(caller[c], success)
      BY <1>8 DEF Settle
    <3> QED BY <3>1, <3>2, SettledType
  <2> QED BY <2>1 DEF CallersHaveKeys
<1>9. ASSUME NEW k \in Keys, NEW f \in fibers[k], DrainStep(k, f) PROVE CallersHaveKeys'
  BY <1>4, <1>8, <1>9
     DEF DrainStep, Begin, Look, TurnEnds, FindNothing, Succeed, Fail, ExitInterrupted
<1>10. CASE Crash
  BY <1>10 DEF Crash, CallersHaveKeys, IdleCaller
<1> QED BY <1>3, <1>4, <1>5, <1>6, <1>7, <1>9, <1>10
        DEF Next, Operations, Drains, Wake, Run, Rerun, Interrupted, Return, CallersHaveKeys, vars

\* Whoever waits on a session with a live entry goes on waiting or is released.
LEMMA NobodyWaitsForNothingInvariant ==
  IInv /\ [Next]_vars => NobodyWaitsForNothing'
<1> SUFFICES ASSUME IInv, [Next]_vars PROVE NobodyWaitsForNothing'
  OBVIOUS
<1> USE DEF IInv
<1> DEFINE Waits(c) == caller[c].pc \in {"joined", "stopwait"}
           StillLive == \A j \in Keys : entry[j].live => entry'[j].live
           Frame == \A c \in Callers :
                      Waits(c)' => Waits(c) /\ caller'[c].key = caller[c].key
<1>1. ASSUME StillLive, Frame PROVE NobodyWaitsForNothing'
  BY <1>1 DEF NobodyWaitsForNothing, CallersHaveKeys
<1>2. ASSUME NEW c \in Callers, NEW k \in Keys, StillLive, entry'[k].live,
             NEW pc \in {"recorded", "joined", "stopwait", "interrupting"}, NEW n \in Nat,
             caller' = [caller EXCEPT ![c] = Busy(c, pc, k, n)]
      PROVE  NobodyWaitsForNothing'
  <2>1. Busy(c, pc, k, n).key = k
    BY DEF Busy
  <2>2. caller'[c].key = k
    BY <1>2, <2>1 DEF TypeOK
  <2>3. \A d \in Callers : d # c => caller'[d] = caller[d]
    BY <1>2 DEF TypeOK
  <2> QED BY <1>2, <2>2, <2>3 DEF NobodyWaitsForNothing, CallersHaveKeys
<1>3. ASSUME NEW c \in Callers, caller' = [caller EXCEPT ![c] = IdleCaller]
      PROVE  Frame
  BY <1>3 DEF TypeOK, IdleCaller
<1>4. ASSUME NEW k \in Keys, entry'[k].live,
             \A j \in Keys : j # k => entry'[j] = entry[j]
      PROVE  StillLive
  BY <1>4
<1>5. ASSUME NEW k \in Keys, NEW force \in BOOLEAN, ~entry[k].live, StartIdle(k, force)
      PROVE  StillLive /\ entry'[k].live
  <2>1. entry'[k].live
    BY <1>5, StartIdleMatches
  <2> QED BY <1>4, <1>5, <2>1 DEF StartIdle, TypeOK
<1>6. ASSUME NEW c \in Callers, NEW k \in Keys, NEW resume \in BOOLEAN,
             Record(c, k, resume)
      PROVE  NobodyWaitsForNothing'
  <2>1. StillLive
    BY <1>6 DEF Record, execVars
  <2>2. Frame
    <3>1. caller'[c] = caller[c] \/ caller'[c].pc = "recorded"
      BY <1>6 DEF Record, Busy, TypeOK
    <3>2. \A d \in Callers : d # c => caller'[d] = caller[d]
      BY <1>6 DEF Record, TypeOK
    <3> QED BY <3>1, <3>2
  <2> QED BY <1>1, <2>1, <2>2
<1>7. ASSUME NEW c \in Callers, Wake(c) PROVE NobodyWaitsForNothing'
  <2>1. ASSUME NEW k \in Keys, WakeActive(k) PROVE StillLive
    <3>1. entry'[k] = [entry[k] EXCEPT !.pendingWake = TRUE] /\ entry[k] \in Entry
      BY <2>1 DEF WakeActive, TypeOK
    <3>2. entry'[k].live
      BY <2>1, <3>1 DEF WakeActive, Entry
    <3> QED BY <1>4, <2>1, <3>2 DEF WakeActive, TypeOK
  <2>2. ASSUME NEW k \in Keys, WakeIdle(k) PROVE StillLive
    BY <1>5, <2>2 DEF WakeIdle
  <2>3. StillLive
    BY <1>7, <2>1, <2>2 DEF Wake, CallersHaveKeys
  <2> QED BY <1>1, <1>3, <1>7, <2>3 DEF Wake
<1>8. ASSUME NEW c \in Callers, NEW k \in Keys, RunJoin(c, k) \/ RunIdle(c, k)
      PROVE  NobodyWaitsForNothing'
  <2>1. StillLive /\ entry'[k].live
    BY <1>5, <1>8 DEF RunJoin, RunIdle, execVars
  <2>2. \E pc \in {"joined", "stopwait"} :
          caller' = [caller EXCEPT ![c] = Busy(c, pc, k, 0)]
    BY <1>8 DEF RunJoin, RunIdle
  <2> QED BY <1>2, <2>1, <2>2
<1>9. ASSUME NEW c \in Callers, NEW k \in Keys, Interrupt(c, k)
      PROVE  NobodyWaitsForNothing'
  <2>1. /\ entry'[k] = [entry[k] EXCEPT !.stopping = TRUE, !.pendingWake = FALSE]
        /\ entry[k] \in Entry
    BY <1>9 DEF Interrupt, TypeOK
  <2>2. entry'[k].live /\ entry[k].owner \in Nat
    BY <1>9, <2>1 DEF Interrupt, Entry
  <2>3. StillLive
    BY <1>4, <1>9, <2>2 DEF Interrupt, TypeOK
  <2> QED BY <1>2, <1>9, <2>2, <2>3 DEF Interrupt
<1>10. ASSUME NEW k \in Keys, NEW f \in fibers[k], NEW success \in BOOLEAN,
              Settle(k, f, success)
       PROVE  NobodyWaitsForNothing'
  <2>1. ASSUME NEW c \in Callers
        PROVE  \/ caller'[c] = caller[c]
               \/ caller[c].key = k /\ caller'[c] = Settled(caller[c], success)
    BY <1>10 DEF Settle
  <2>2. Frame
    BY <2>1, SettledType DEF TypeOK
  <2>3. \A j \in Keys : j # k => entry'[j] = entry[j]
    BY <1>10 DEF Settle, TypeOK
  <2>4. CASE entry[k].pendingWake
    <3>1. entry'[k].live
      BY <1>10, <2>4, SettleMatches
    <3> QED BY <1>1, <1>4, <2>2, <2>3, <3>1
  <2>5. CASE ~entry[k].pendingWake
    <3>1. ASSUME NEW c \in Callers, Waits(c)' PROVE entry'[caller'[c].key].live
      <4>1. Waits(c) /\ caller'[c].key = caller[c].key
        BY <2>2, <3>1
      <4>2. caller[c].key # k
        BY <1>10, <2>5, <3>1, SettledType DEF Settle, TypeOK
      <4>3. caller[c].key \in Keys /\ entry[caller[c].key].live
        BY <4>1 DEF CallersHaveKeys, NobodyWaitsForNothing
      <4> QED BY <2>3, <4>1, <4>2, <4>3
    <3> QED BY <3>1 DEF NobodyWaitsForNothing
  <2> QED BY <2>4, <2>5
<1>11. ASSUME NEW k \in Keys, NEW f \in fibers[k], DrainStep(k, f)
       PROVE  NobodyWaitsForNothing'
  <2>1. CASE entry' = entry /\ caller' = caller
    BY <2>1 DEF NobodyWaitsForNothing
  <2> QED BY <1>10, <1>11, <2>1
          DEF DrainStep, Begin, Look, TurnEnds, FindNothing, Succeed, Fail, ExitInterrupted
<1>12. CASE Crash
  BY <1>12 DEF Crash, NobodyWaitsForNothing, IdleCaller
<1>13. ASSUME NEW c \in Callers, Interrupted(c) \/ Return(c) PROVE NobodyWaitsForNothing'
  <2>1. StillLive
    BY <1>13 DEF Interrupted, Return, execVars
  <2> QED BY <1>1, <1>3, <1>13, <2>1 DEF Interrupted, Return
<1>14. CASE UNCHANGED vars
  BY <1>14 DEF vars, NobodyWaitsForNothing
<1> QED BY <1>6, <1>7, <1>8, <1>9, <1>11, <1>12, <1>13, <1>14
        DEF Next, Operations, Drains, Run, Rerun, CallersHaveKeys

LEMMA FollowUpKeptInvariant == IInv /\ [Next]_vars => FollowUpKept'
<1> SUFFICES ASSUME IInv, [Next]_vars PROVE FollowUpKept'
  OBVIOUS
<1> USE DEF IInv
<1>1. ASSUME NEW k \in Keys, owed'[k] => entry'[k].live /\ entry'[k].pendingWake,
             \A j \in Keys : j # k => entry'[j] = entry[j] /\ owed'[j] = owed[j]
      PROVE  FollowUpKept'
  BY <1>1 DEF FollowUpKept
<1>2. ASSUME entry' = entry, owed' = owed PROVE FollowUpKept'
  BY <1>2 DEF FollowUpKept
<1>3. ASSUME NEW k \in Keys, WakeActive(k) PROVE FollowUpKept'
  <2>1. /\ entry'[k] = [entry[k] EXCEPT !.pendingWake = TRUE]
        /\ entry[k] \in Entry
        /\ entry[k].live
    BY <1>3 DEF WakeActive, TypeOK
  <2>2. entry'[k].live /\ entry'[k].pendingWake
    BY <2>1 DEF Entry
  <2> QED BY <1>1, <1>3, <2>2 DEF WakeActive, TypeOK
<1>4. ASSUME NEW k \in Keys, NEW force \in BOOLEAN, ~entry[k].live,
             StartIdle(k, force), owed' = owed
      PROVE  FollowUpKept'
  <2>1. ~owed[k]
    BY <1>4 DEF FollowUpKept
  <2> QED BY <1>1, <1>4, <2>1 DEF StartIdle, TypeOK
<1>5. ASSUME NEW c \in Callers, Wake(c) PROVE FollowUpKept'
  BY <1>3, <1>4, <1>5 DEF Wake, WakeIdle, CallersHaveKeys
<1>6. ASSUME NEW c \in Callers, NEW k \in Keys, RunJoin(c, k) \/ RunIdle(c, k)
      PROVE  FollowUpKept'
  BY <1>2, <1>4, <1>6 DEF RunJoin, RunIdle, execVars
<1>7. ASSUME NEW c \in Callers, NEW k \in Keys, Interrupt(c, k) PROVE FollowUpKept'
  <2>1. ~owed'[k]
    BY <1>7 DEF Interrupt, TypeOK
  <2> QED BY <1>1, <1>7, <2>1 DEF Interrupt, TypeOK
<1>8. ASSUME NEW k \in Keys, NEW f \in fibers[k], NEW success \in BOOLEAN,
             Settle(k, f, success)
      PROVE  FollowUpKept'
  <2>1. CASE entry[k].pendingWake
    <3>1. /\ ~owed'[k]
          /\ \A j \in Keys : j # k => entry'[j] = entry[j] /\ owed'[j] = owed[j]
      BY <1>8, <2>1 DEF Settle, TypeOK
    <3> QED BY <1>1, <3>1
  <2>2. CASE ~entry[k].pendingWake
    <3>1. ~owed[k]
      BY <2>2 DEF FollowUpKept
    <3>2. owed' = owed /\ \A j \in Keys : j # k => entry'[j] = entry[j]
      BY <1>8, <2>2 DEF Settle, TypeOK
    <3> QED BY <1>1, <3>1, <3>2
  <2> QED BY <2>1, <2>2
<1>9. ASSUME NEW k \in Keys, NEW f \in fibers[k], DrainStep(k, f) PROVE FollowUpKept'
  BY <1>2, <1>8, <1>9
     DEF DrainStep, Begin, Look, TurnEnds, FindNothing, Succeed, Fail, ExitInterrupted
<1>10. CASE Crash
  BY <1>10 DEF Crash, FollowUpKept
<1> QED BY <1>2, <1>5, <1>6, <1>7, <1>9, <1>10
        DEF Next, Operations, Drains, Record, Run, Rerun, Interrupted, Return,
            CallersHaveKeys, execVars, vars

-----------------------------------------------------------------------------
(* Theorems.                                                                *)

LEMMA InitIInv == Init => IInv
BY EntryTypes, IdleCallerType
   DEF Init, IInv, TypeOK, EntriesMatch, EntryMatches, CallersHaveKeys, FollowUpKept,
       NobodyWaitsForNothing, IdleCaller

LEMMA NextIInv == IInv /\ [Next]_vars => IInv'
BY TypeOKInvariant, EntriesMatchInvariant, CallersHaveKeysInvariant,
   FollowUpKeptInvariant, NobodyWaitsForNothingInvariant DEF IInv

\* The inductive invariant of the coordinator.
THEOREM Inductive == Spec => []IInv
BY InitIInv, NextIInv, PTL DEF Spec

\* The coordinator's entries, fibers and callers keep their types.
THEOREM TypeCorrect == Spec => []TypeOK
<1>1. IInv => TypeOK
  BY DEF IInv
<1> QED BY <1>1, Inductive, PTL

\* Mutual exclusion: no two drain fibers of a session coexist, whatever wakes,
\* runs, interrupts, failures and restarts are interleaved.
THEOREM MutualExclusion == Spec => []OneDrainPerKey
<1>1. IInv => OneDrainPerKey
  BY DEF IInv, EntriesMatch, EntryMatches, OneDrainPerKey
<1> QED BY <1>1, Inductive, PTL

\* The active map names exactly the sessions with a drain, and its fiber.
THEOREM ActiveMapExact == Spec => []ActiveIsExact
<1>1. IInv => ActiveIsExact
  BY DEF IInv, EntriesMatch, EntryMatches, ActiveIsExact
<1> QED BY <1>1, Inductive, PTL

\* A wake that found a drain active is never lost: not to its failure, nor to
\* the cleanup of an interrupt that came before it.
THEOREM WakesAreKept == Spec => []FollowUpKept
<1>1. IInv => FollowUpKept
  BY DEF IInv
<1> QED BY <1>1, Inductive, PTL

\* Whoever waits for an execution waits for one that exists.
THEOREM WaitersHaveDrains == Spec => []NobodyWaitsForNothing
<1>1. IInv => NobodyWaitsForNothing
  BY DEF IInv
<1> QED BY <1>1, Inductive, PTL
=============================================================================
