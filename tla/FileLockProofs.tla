--------------------------- MODULE FileLockProofs ---------------------------
(***************************************************************************)
(* Proofs about FileLock.tla, for any number of processes and crashes,     *)
(* with no condition but the named assumption of FileLock.                 *)
(*                                                                         *)
(* The inductive invariant has three layers.  The shape of the state holds *)
(* always.  Who has the breaker holds until a live process's breaker is    *)
(* taken, which takes a breaker somebody left behind.  Whose the lock is,  *)
(* how old its files can be while its maker lives, and what a look at them *)
(* is still worth later, hold until one of the two races of the code.      *)
(***************************************************************************)
EXTENDS FileLock, TLAPS

\* The places of who has made the lock directory and not yet removed it.
Holding == {"held", "readMeta"}
Owning == {"writeHeartbeat", "writeMeta", "held", "readMeta", "rmRelease"}

Owner(p) == proc[p].pc \in Owning \/ (proc[p].pc = "rmBreaker" /\ proc[p].made)

\* The places the owner of the breaker gets to.
Cleaning == {"rmLock", "remake", "rmBreaker"}
Looking == {"statHeartbeat", "statMeta", "statDir"}

\* Where the owner of the breaker is.
Attempts ==
  \A p \in Procs :
    /\ proc[p].pc \in {"rmLock", "remake"} => proc[p].breaking
    /\ proc[p].breaking => proc[p].pc \in Cleaning \cup Looking

\* Who has the breaker; while it lives its breaker does not grow old.
BreakerIsOwned ==
  /\ \A p \in Procs : proc[p].breaking <=> maker["breaker"] = p
  /\ maker["breaker"] # None => files["breaker"] = "fresh"

\* Nobody left a breaker behind, or finds one that was.
BreakerIsLive ==
  /\ Exists("breaker") => maker["breaker"] # None
  /\ \A p \in Procs : proc[p].pc = "rmBreaker" => proc[p].breaking

\* What an owner has written.
FilesFit(p) ==
  /\ proc[p].pc \in {"rmBreaker", "writeHeartbeat"} => ~Exists("heartbeat") /\ ~Exists("meta")
  /\ proc[p].pc = "writeMeta" => Exists("heartbeat") /\ ~Exists("meta")
  /\ proc[p].pc \in Holding => Exists("heartbeat") /\ Exists("meta") /\ token = p

\* Whose the lock directory is, and what is in it.
LockIsOwned ==
  /\ \A p \in Procs : maker["dir"] = p <=> Owner(p)
  /\ \A p \in Procs : proc[p].made <=> Owner(p)
  /\ maker["dir"] # None => Exists("dir")
  /\ \A p \in Procs : Owner(p) => FilesFit(p)
  /\ \A p \in Procs : proc[p].pc # "rmCompromised"

\* How old the files are while who made the directory lives: the directory and
\* meta.json grow old in a long hold, beside the heartbeat, which its holder
\* removes at the end.
AgesUnderMaker ==
  maker["dir"] # None =>
    /\ files["heartbeat"] # "old"
    /\ files["dir"] = "old" => Exists("heartbeat")
    /\ files["meta"] = "old" => Exists("heartbeat") \/ BeingReleased

\* What was old at a look is not fresh since.
SnapshotIsStale ==
  \A p \in Procs : \A n \in old[p] \ {"breaker"} : files[n] # "fresh"

\* Who found no heartbeat and finds the lock old has found a dead process's, or
\* one that is being released.
LooksAtDead ==
  \A p \in Procs : proc[p].pc \in {"statMeta", "statDir"} =>
    /\ "meta" \in old[p] /\ Exists("meta") => maker["dir"] = None \/ BeingReleased
    /\ "dir" \in old[p] /\ Exists("dir") => maker["dir"] = None

\* What is about to be broken is nobody's.
BreaksDead == \A p \in Procs : proc[p].pc = "rmLock" => maker["dir"] = None /\ Exists("dir")

LockInv ==
  /\ LockIsOwned
  /\ AgesUnderMaker
  /\ SnapshotIsStale
  /\ LooksAtDead
  /\ BreaksDead

IInv ==
  /\ TypeOK
  /\ Attempts
  /\ "overtaken" \notin mishaps => BreakerIsOwned
  /\ "orphaned" \notin mishaps => "overtaken" \notin mishaps /\ BreakerIsLive
  /\ Unharmed => LockInv

-----------------------------------------------------------------------------
(* What steps change.                                                       *)

States == [pc : Places, breaking : BOOLEAN, made : BOOLEAN]

LEMMA IdleState == Idle \in States /\ Idle.pc = "idle" /\ ~Idle.breaking /\ ~Idle.made
BY DEF Idle, States, Places

\* A process goes to a place, and keeps what it knows.
LEMMA Went ==
  ASSUME TypeOK, NEW p \in Procs, NEW pc \in Places, Goto(p, pc)
  PROVE  /\ proc' \in [Procs -> States]
         /\ proc'[p].pc = pc
         /\ proc'[p].breaking = proc[p].breaking
         /\ proc'[p].made = proc[p].made
         /\ \A q \in Procs : q # p => proc'[q] = proc[q]
BY DEF Goto, TypeOK, States

LEMMA Became ==
  ASSUME TypeOK, NEW p \in Procs, NEW s \in States, proc' = [proc EXCEPT ![p] = s]
  PROVE  /\ proc' \in [Procs -> States]
         /\ proc'[p] = s
         /\ \A q \in Procs : q # p => proc'[q] = proc[q]
BY DEF TypeOK, States

\* A look at the clock takes a snapshot, another keeps to the one it has.
LEMMA Looked ==
  ASSUME TypeOK, NEW p \in Procs, Now(p) \/ UNCHANGED old \/ old' = [old EXCEPT ![p] = {}]
  PROVE  /\ old' \in [Procs -> SUBSET Names]
         /\ \A n \in old'[p] : files[n] = "old" \/ n \in old[p]
         /\ \A q \in Procs : q # p => old'[q] = old[q]
BY DEF Now, TypeOK

\* What is written or emptied is in no snapshot any more.
LEMMA Touch ==
  ASSUME TypeOK, NEW names, Touched(names)
  PROVE  /\ old' \in [Procs -> SUBSET Names]
         /\ \A q \in Procs : old'[q] = old[q] \ names
BY DEF Touched, TypeOK

\* A mishap is never forgotten.
LEMMA MishapsGrow ==
  ASSUME Next
  PROVE  mishaps \subseteq mishaps'
BY DEF Next, Step, Begin, Mkdir, StatHeartbeat, StatMeta, StatDir, Look, Claim, StatBreaker,
       RmBreaker, RmLock, Remake, WriteHeartbeat, WriteMeta, Retry, Timeout, Release, ReadMeta,
       RmRelease, Age, Crash, Happened

-----------------------------------------------------------------------------
(* The shape of the state.                                                  *)

\* What the steps change of a process.
LEMMA ProcKeeps ==
  ASSUME TypeOK, Attempts, NEW p \in Procs, NEW s \in States,
         proc' = [proc EXCEPT ![p] = s],
         s.pc \in {"rmLock", "remake"} => s.breaking,
         s.breaking => s.pc \in Cleaning \cup Looking
  PROVE  proc' \in [Procs -> States] /\ Attempts'
BY Became DEF Attempts

LEMMA GotoKeeps ==
  ASSUME TypeOK, Attempts, NEW p \in Procs, NEW pc \in Places, Goto(p, pc),
         pc \in {"rmLock", "remake"} => proc[p].breaking,
         proc[p].breaking => pc \in Cleaning \cup Looking
  PROVE  proc' \in [Procs -> States] /\ Attempts'
BY Went DEF Attempts

\* Files come and go by steps that leave no entry in a directory that is gone,
\* and no token in a meta.json that is.
LEMMA TypeKeeps ==
  ASSUME TypeOK,
         files' \in [Names -> {"gone", "fresh", "old"}],
         token' \in Procs \cup {None},
         maker' \in [{"dir", "breaker"} -> Procs \cup {None}],
         proc' \in [Procs -> States],
         old' \in [Procs -> SUBSET Names],
         mishaps' \subseteq Mishap,
         crashes' \in 0..MaxCrashes,
         files'["dir"] = "gone" => files'["heartbeat"] = "gone" /\ files'["meta"] = "gone",
         files'["meta"] = "gone" => token' = None
  PROVE  TypeOK'
BY DEF TypeOK, States, Exists

\* Only a process, its snapshot and the mishaps change.
LEMMA MoveKeeps ==
  ASSUME TypeOK, proc' \in [Procs -> States], old' \in [Procs -> SUBSET Names],
         mishaps' \subseteq Mishap, UNCHANGED <<files, token, maker, crashes>>
  PROVE  TypeOK'
BY DEF TypeOK, States, Exists

LEMMA WalkShape ==
  ASSUME TypeOK, Attempts, NEW p \in Procs,
         Begin(p) \/ Retry(p) \/ Timeout(p) \/ Release(p) \/ ReadMeta(p) \/ StatBreaker(p)
  PROVE  TypeOK' /\ Attempts'
<1>1. ~proc[p].breaking
  BY DEF Attempts, Cleaning, Looking, Begin, Retry, Timeout, Release, ReadMeta, StatBreaker
<1>2. UNCHANGED <<files, token, maker, old, mishaps, crashes>>
  BY DEF Begin, Retry, Timeout, Release, ReadMeta, StatBreaker
<1>3. \/ \E pc \in {"mkdir", "readMeta", "wait", "rmBreaker", "rmRelease"} : Goto(p, pc)
      \/ proc' = [proc EXCEPT ![p] = Idle]
  BY DEF Begin, Retry, Timeout, Release, ReadMeta, StatBreaker, Goto
<1>4. proc' \in [Procs -> States] /\ Attempts'
  BY <1>1, <1>3, GotoKeeps, ProcKeeps, IdleState DEF Places
<1>5. old' \in [Procs -> SUBSET Names] /\ mishaps' \subseteq Mishap
  BY <1>2 DEF TypeOK
<1> QED BY <1>2, <1>4, <1>5, MoveKeeps

LEMMA LookShape ==
  ASSUME TypeOK, Attempts, NEW p \in Procs, StatHeartbeat(p) \/ StatMeta(p) \/ StatDir(p)
  PROVE  TypeOK' /\ Attempts'
<1>1. PICK n \in Names, next \in {"statMeta", "statDir", "wait"} :
        Look(p, n, next) /\ (next = "wait" => n = "dir")
  BY DEF StatHeartbeat, StatMeta, StatDir, Names
<1>2. UNCHANGED <<files, token, maker, crashes>>
  BY DEF StatHeartbeat, StatMeta, StatDir
<1>3. PICK pc \in {"statMeta", "statDir", "claim", "wait", "rmLock", "rmBreaker"} :
        /\ Goto(p, pc)
        /\ pc \in {"claim", "wait"} => ~proc[p].breaking
        /\ pc \in {"rmLock", "rmBreaker"} => proc[p].breaking
  BY <1>1 DEF Look, Judged
<1>4. proc' \in [Procs -> States] /\ Attempts'
  BY <1>3, GotoKeeps DEF Places, Cleaning, Looking
<1>5. old' \in [Procs -> SUBSET Names]
  BY <1>1, Looked DEF Look
<1>6. mishaps' \subseteq Mishap
  BY <1>1 DEF Look, Happened, TypeOK, Mishap
<1> QED BY <1>2, <1>4, <1>5, <1>6, MoveKeeps

LEMMA MakeShape ==
  ASSUME TypeOK, Attempts, NEW p \in Procs, Mkdir(p) \/ Remake(p)
  PROVE  TypeOK' /\ Attempts'
<1>0. UNCHANGED <<token, mishaps, crashes>>
  BY DEF Mkdir, Remake
<1>1. CASE Exists("dir")
  <2>1. PICK pc \in {"statHeartbeat", "rmBreaker"} : Goto(p, pc)
    BY <1>1 DEF Mkdir, Remake, MakeDir
  <2>2. UNCHANGED <<files, maker>> /\ (Now(p) \/ UNCHANGED old)
    BY <1>1 DEF Mkdir, Remake, MakeDir
  <2>3. proc' \in [Procs -> States] /\ Attempts'
    BY <2>1, GotoKeeps DEF Places, Cleaning, Looking
  <2>4. old' \in [Procs -> SUBSET Names] /\ mishaps' \subseteq Mishap
    BY <1>0, <2>2, Looked DEF TypeOK
  <2> QED BY <1>0, <2>2, <2>3, <2>4, MoveKeeps
<1>2. CASE ~Exists("dir")
  <2>1. PICK pc \in {"writeHeartbeat", "rmBreaker"} :
          /\ proc' = [proc EXCEPT ![p].pc = pc, ![p].made = TRUE]
          /\ proc[p].breaking => pc = "rmBreaker"
    BY <1>2 DEF Mkdir, Remake, MakeDir, Attempts, Cleaning, Looking
  <2>2. /\ files' = [files EXCEPT !["dir"] = "fresh"] /\ Touched({"dir"})
        /\ maker' = [maker EXCEPT !["dir"] = p]
    BY <1>2 DEF Mkdir, Remake, MakeDir
  <2>3. proc' \in [Procs -> States] /\ Attempts'
    <3>1. /\ proc' \in [Procs -> States]
          /\ proc'[p].pc = pc /\ proc'[p].breaking = proc[p].breaking
          /\ \A q \in Procs : q # p => proc'[q] = proc[q]
      <4>1. pc \in Places
        BY DEF Places
      <4> QED BY <2>1, <4>1 DEF TypeOK, States
    <3> QED BY <2>1, <3>1 DEF Attempts, Cleaning
  <2>4. old' \in [Procs -> SUBSET Names]
    BY <2>2, Touch
  <2>5. /\ files' \in [Names -> {"gone", "fresh", "old"}] /\ files'["dir"] = "fresh"
        /\ files'["meta"] = files["meta"]
    BY <2>2 DEF TypeOK, Names
  <2>6. maker' \in [{"dir", "breaker"} -> Procs \cup {None}]
    BY <2>2 DEF TypeOK
  <2>7. /\ token' \in Procs \cup {None} /\ mishaps' \subseteq Mishap /\ crashes' \in 0..MaxCrashes
        /\ files'["meta"] = "gone" => token' = None
    BY <1>0, <2>5 DEF TypeOK, Exists
  <2> QED BY <2>3, <2>4, <2>5, <2>6, <2>7, TypeKeeps
<1> QED BY <1>1, <1>2

LEMMA BreakerShape ==
  ASSUME TypeOK, Attempts, NEW p \in Procs, Claim(p) \/ RmBreaker(p)
  PROVE  TypeOK' /\ Attempts'
<1>1. UNCHANGED <<token, crashes>>
  BY DEF Claim, RmBreaker
<1>2. proc' \in [Procs -> States] /\ Attempts'
  <2>1. CASE Claim(p)
    <3>1. /\ proc' \in [Procs -> States]
          /\ \/ proc'[p].pc = "statBreaker" /\ proc'[p].breaking = proc[p].breaking
             \/ proc'[p].pc = "statHeartbeat" /\ proc'[p].breaking
          /\ \A q \in Procs : q # p => proc'[q] = proc[q]
      BY <2>1 DEF Claim, Goto, TypeOK, States, Places
    <3>2. ~proc[p].breaking
      BY <2>1 DEF Claim, Attempts, Cleaning, Looking
    <3> QED BY <3>1, <3>2 DEF Attempts, Looking
  <2>2. CASE RmBreaker(p)
    <3>1. /\ proc' \in [Procs -> States]
          /\ proc'[p].pc \in {"writeHeartbeat", "wait"} /\ ~proc'[p].breaking
          /\ \A q \in Procs : q # p => proc'[q] = proc[q]
      <4>1. PICK pc \in {"writeHeartbeat", "wait"} :
              proc' = [proc EXCEPT ![p].pc = pc, ![p].breaking = FALSE]
        BY <2>2 DEF RmBreaker
      <4>2. pc \in Places
        BY DEF Places
      <4> QED BY <4>1, <4>2 DEF TypeOK, States
    <3> QED BY <3>1 DEF Attempts
  <2> QED BY <2>1, <2>2
<1>3. old' \in [Procs -> SUBSET Names]
  BY Looked DEF Claim, RmBreaker
<1>4. /\ files' \in [Names -> {"gone", "fresh", "old"}]
      /\ \A n \in Names : n # "breaker" => files'[n] = files[n]
      /\ maker' \in [{"dir", "breaker"} -> Procs \cup {None}]
  BY DEF Claim, RmBreaker, TypeOK, Names
<1>5. mishaps' \subseteq Mishap
  BY DEF Claim, RmBreaker, Happened, Mishap, TypeOK
<1>6. /\ token' \in Procs \cup {None} /\ crashes' \in 0..MaxCrashes
      /\ files'["dir"] = "gone" => files'["heartbeat"] = "gone" /\ files'["meta"] = "gone"
      /\ files'["meta"] = "gone" => token' = None
  BY <1>1, <1>4 DEF TypeOK, Exists, Names
<1> QED BY <1>2, <1>3, <1>4, <1>5, <1>6, TypeKeeps

LEMMA RemoveShape ==
  ASSUME TypeOK, Attempts, NEW p \in Procs, RmLock(p) \/ RmRelease(p)
  PROVE  TypeOK' /\ Attempts'
<1>1. PICK s \in States :
        /\ Remove(p, s)
        /\ s.pc \in {"rmLock", "remake"} => s.breaking
        /\ s.breaking => s.pc \in Cleaning \cup Looking
  <2>1. CASE RmLock(p)
    <3>1. proc[p] \in States /\ proc[p].breaking
      BY <2>1 DEF RmLock, TypeOK, States, Attempts
    <3> QED BY <2>1, <3>1 DEF RmLock, States, Places, Cleaning
  <2>2. CASE RmRelease(p)
    BY <2>2, IdleState DEF RmRelease
  <2> QED BY <2>1, <2>2
<1>2. UNCHANGED <<mishaps, crashes>>
  BY DEF RmLock, RmRelease
<1>3. CASE Entries = {} /\ files' = [files EXCEPT !["dir"] = "gone"]
           /\ maker' = [maker EXCEPT !["dir"] = None] /\ proc' = [proc EXCEPT ![p] = s]
           /\ UNCHANGED <<token, old>>
  <2>1. proc' \in [Procs -> States] /\ Attempts'
    BY <1>1, <1>3, ProcKeeps
  <2>2. ~Exists("heartbeat") /\ ~Exists("meta")
    BY <1>3 DEF Entries
  <2>3. TypeOK'
    BY <1>2, <1>3, <2>1, <2>2 DEF TypeOK, States, Exists, Names
  <2> QED BY <2>1, <2>3
<1>4. CASE \E n \in Entries :
             /\ files' = [files EXCEPT ![n] = "gone", !["dir"] = "fresh"]
             /\ token' = IF n = "meta" THEN None ELSE token
             /\ Touched({"dir"}) /\ UNCHANGED <<maker, proc>>
  <2>1. PICK n \in {"heartbeat", "meta"} :
             /\ files' = [files EXCEPT ![n] = "gone", !["dir"] = "fresh"]
             /\ token' = IF n = "meta" THEN None ELSE token
             /\ Touched({"dir"}) /\ UNCHANGED <<maker, proc>>
    BY <1>4 DEF Entries
  <2>2. old' \in [Procs -> SUBSET Names]
    BY <2>1, Touch
  <2>3. Attempts'
    BY <2>1 DEF Attempts
  <2>4. TypeOK'
    BY <1>2, <2>1, <2>2 DEF TypeOK, Exists, Names
  <2> QED BY <2>3, <2>4
<1> QED BY <1>1, <1>3, <1>4 DEF Remove

LEMMA WriteShape ==
  ASSUME TypeOK, Attempts, NEW p \in Procs, WriteHeartbeat(p) \/ WriteMeta(p)
  PROVE  TypeOK' /\ Attempts'
<1>1. PICK n \in {"heartbeat", "meta"}, then \in {"writeMeta", "held"} :
        Write(p, n, then) /\ token' = IF n = "meta" /\ Writable("meta") THEN p ELSE token
  BY DEF WriteHeartbeat, WriteMeta
<1>2. UNCHANGED <<maker, mishaps, crashes>> /\ ~proc[p].breaking
  BY DEF WriteHeartbeat, WriteMeta, Attempts, Cleaning, Looking
<1>3. PICK pc \in {"writeMeta", "held", "rmCompromised"} : Goto(p, pc)
  BY <1>1 DEF Write
<1>4. proc' \in [Procs -> States] /\ Attempts'
  BY <1>2, <1>3, GotoKeeps DEF Places
<1>5. CASE Writable(n)
  <2>1. files' = [files EXCEPT ![n] = "fresh", !["dir"] = "fresh"] /\ Touched({n, "dir"})
    BY <1>1, <1>5 DEF Write
  <2>2. old' \in [Procs -> SUBSET Names]
    BY <2>1, Touch
  <2> QED BY <1>1, <1>2, <1>4, <1>5, <2>1, <2>2 DEF TypeOK, States, Exists, Names
<1>6. CASE ~Writable(n)
  <2>1. UNCHANGED <<files, old, token>>
    BY <1>1, <1>6 DEF Write
  <2>2. old' \in [Procs -> SUBSET Names] /\ mishaps' \subseteq Mishap
    BY <1>2, <2>1 DEF TypeOK
  <2> QED BY <1>2, <1>4, <2>1, <2>2, MoveKeeps
<1> QED BY <1>5, <1>6

LEMMA AgeShape ==
  ASSUME TypeOK, Attempts, NEW n \in Names, Age(n)
  PROVE  TypeOK' /\ Attempts'
<1>1. TypeOK'
  BY DEF Age, TypeOK, Exists, Names
<1>2. Attempts'
  BY DEF Age, Attempts
<1> QED BY <1>1, <1>2

LEMMA CrashShape ==
  ASSUME FileLockAssumption, TypeOK, Attempts, NEW p \in Procs, Crash(p)
  PROVE  TypeOK' /\ Attempts'
<1>1. proc' \in [Procs -> States] /\ Attempts'
  BY IdleState, ProcKeeps DEF Crash
<1>2. /\ maker' \in [{"dir", "breaker"} -> Procs \cup {None}]
      /\ old' \in [Procs -> SUBSET Names]
      /\ crashes' \in 0..MaxCrashes
      /\ mishaps' \subseteq Mishap
  BY DEF Crash, TypeOK, FileLockAssumption, Happened, Mishap
<1>3. TypeOK'
  BY <1>1, <1>2 DEF Crash, TypeOK, States, Exists
<1> QED BY <1>1, <1>3

LEMMA Shape ==
  ASSUME FileLockAssumption, TypeOK, Attempts, Next
  PROVE  TypeOK' /\ Attempts'
BY WalkShape, LookShape, MakeShape, BreakerShape, RemoveShape, WriteShape, AgeShape, CrashShape
   DEF Next, Step

-----------------------------------------------------------------------------
(* Who has the breaker.                                                     *)

BreakerInv ==
  /\ "overtaken" \notin mishaps => BreakerIsOwned
  /\ "orphaned" \notin mishaps => "overtaken" \notin mishaps /\ BreakerIsLive

\* A step that leaves the breaker, its owner and what became of them alone.
Aside ==
  /\ files'["breaker"] = files["breaker"]
  /\ maker'["breaker"] = maker["breaker"]
  /\ "overtaken" \in mishaps' <=> "overtaken" \in mishaps
  /\ "orphaned" \in mishaps' <=> "orphaned" \in mishaps
  /\ \A p \in Procs :
       /\ proc'[p].breaking <=> proc[p].breaking
       /\ proc'[p].pc = "rmBreaker" =>
            proc'[p].breaking \/ proc[p].pc = "rmBreaker" \/ files["breaker"] = "old"

\* While nobody died with it, a breaker is its live owner's, and fresh.
LEMMA AsideKeeps ==
  ASSUME FileLockAssumption, TypeOK, BreakerInv, Aside
  PROVE  BreakerInv'
<1>1. ASSUME "overtaken" \notin mishaps' PROVE BreakerIsOwned'
  BY <1>1 DEF Aside, BreakerInv, BreakerIsOwned
<1>2. ASSUME "orphaned" \notin mishaps' PROVE "overtaken" \notin mishaps' /\ BreakerIsLive'
  <2>1. "overtaken" \notin mishaps /\ BreakerIsOwned /\ BreakerIsLive
    BY <1>2 DEF Aside, BreakerInv
  <2>2. files["breaker"] # "old"
    BY <2>1 DEF BreakerIsOwned, BreakerIsLive, Exists
  <2> QED BY <2>1, <2>2 DEF Aside, BreakerIsLive, Exists
<1> QED BY <1>1, <1>2 DEF BreakerInv

LEMMA WalkAside ==
  ASSUME TypeOK, Attempts, NEW p \in Procs,
         Begin(p) \/ Retry(p) \/ Timeout(p) \/ Release(p) \/ ReadMeta(p) \/ StatBreaker(p)
  PROVE  Aside
<1>1. ~proc[p].breaking
  BY DEF Attempts, Cleaning, Looking, Begin, Retry, Timeout, Release, ReadMeta, StatBreaker
<1>2. UNCHANGED <<files, token, maker, old, mishaps, crashes>>
  BY DEF Begin, Retry, Timeout, Release, ReadMeta, StatBreaker
<1>3. \/ \E pc \in {"mkdir", "readMeta", "wait", "rmRelease"} : Goto(p, pc)
      \/ Goto(p, "rmBreaker") /\ files["breaker"] = "old"
      \/ proc' = [proc EXCEPT ![p] = Idle]
  BY DEF Begin, Retry, Timeout, Release, ReadMeta, StatBreaker, Goto
<1>4. CASE \E pc \in {"mkdir", "readMeta", "wait", "rmRelease"} : Goto(p, pc)
  BY <1>1, <1>2, <1>4, Went DEF Aside, Places
<1>5. CASE Goto(p, "rmBreaker") /\ files["breaker"] = "old"
  BY <1>1, <1>2, <1>5, Went DEF Aside, Places
<1>6. CASE proc' = [proc EXCEPT ![p] = Idle]
  BY <1>1, <1>2, <1>6, IdleState, Became DEF Aside
<1> QED BY <1>3, <1>4, <1>5, <1>6

LEMMA LookAside ==
  ASSUME TypeOK, NEW p \in Procs, StatHeartbeat(p) \/ StatMeta(p) \/ StatDir(p)
  PROVE  Aside
<1>1. PICK n \in Names, next \in {"statMeta", "statDir", "wait"} : Look(p, n, next)
  BY DEF StatHeartbeat, StatMeta, StatDir, Names
<1>2. PICK pc \in {"statMeta", "statDir", "claim", "wait", "rmLock", "rmBreaker"} :
        Goto(p, pc) /\ (pc = "rmBreaker" => proc[p].breaking)
  BY <1>1 DEF Look, Judged
<1>3. UNCHANGED <<files, maker>>
  BY DEF StatHeartbeat, StatMeta, StatDir
<1>4. /\ "overtaken" \in mishaps' <=> "overtaken" \in mishaps
      /\ "orphaned" \in mishaps' <=> "orphaned" \in mishaps
  BY <1>1 DEF Look, Happened
<1> QED BY <1>2, <1>3, <1>4, Went DEF Aside, Places

LEMMA MakeAside ==
  ASSUME TypeOK, Attempts, NEW p \in Procs, Mkdir(p) \/ Remake(p)
  PROVE  Aside
<1>1. PICK pc \in {"statHeartbeat", "writeHeartbeat", "rmBreaker"} :
        /\ Goto(p, pc) \/ proc' = [proc EXCEPT ![p].pc = pc, ![p].made = TRUE]
        /\ pc = "rmBreaker" => proc[p].breaking
  BY DEF Mkdir, Remake, MakeDir, Attempts
<1>2. /\ proc'[p].pc = pc /\ proc'[p].breaking = proc[p].breaking
      /\ \A q \in Procs : q # p => proc'[q] = proc[q]
  BY <1>1 DEF Goto, TypeOK
<1>3. files'["breaker"] = files["breaker"] /\ maker'["breaker"] = maker["breaker"]
      /\ UNCHANGED mishaps
  BY DEF Mkdir, Remake, MakeDir, TypeOK, Names
<1> QED BY <1>1, <1>2, <1>3 DEF Aside

LEMMA RemoveAside ==
  ASSUME TypeOK, Attempts, NEW p \in Procs, RmLock(p) \/ RmRelease(p)
  PROVE  Aside
<1>1. PICK s \in States : Remove(p, s) /\ s.breaking = proc[p].breaking /\ s.pc # "rmBreaker"
  <2>1. CASE RmLock(p)
    <3>1. proc[p] \in States
      BY DEF TypeOK, States
    <3> QED BY <2>1, <3>1 DEF RmLock, States, Places
  <2>2. CASE RmRelease(p)
    <3>1. ~proc[p].breaking /\ proc[p] \in States
      BY <2>2 DEF RmRelease, Attempts, Cleaning, Looking, TypeOK, States
    <3>2. Idle.breaking = proc[p].breaking
      BY <3>1 DEF Idle, States
    <3> QED BY <2>2, <3>2, IdleState DEF RmRelease
  <2> QED BY <2>1, <2>2
<1>2. UNCHANGED mishaps
  BY DEF RmLock, RmRelease
<1>3. files'["breaker"] = files["breaker"] /\ maker'["breaker"] = maker["breaker"]
  BY <1>1 DEF Remove, Entries, TypeOK, Names
<1>4. proc' = [proc EXCEPT ![p] = s] \/ UNCHANGED proc
  BY <1>1 DEF Remove
<1> QED BY <1>1, <1>2, <1>3, <1>4, Became DEF Aside

LEMMA WriteAside ==
  ASSUME TypeOK, NEW p \in Procs, WriteHeartbeat(p) \/ WriteMeta(p)
  PROVE  Aside
<1>1. PICK n \in {"heartbeat", "meta"}, then \in {"writeMeta", "held"} : Write(p, n, then)
  BY DEF WriteHeartbeat, WriteMeta
<1>2. PICK pc \in {"writeMeta", "held", "rmCompromised"} : Goto(p, pc)
  BY <1>1 DEF Write
<1>3. files'["breaker"] = files["breaker"]
  BY <1>1 DEF Write, TypeOK, Names
<1>4. UNCHANGED <<maker, mishaps>>
  BY DEF WriteHeartbeat, WriteMeta
<1> QED BY <1>2, <1>3, <1>4, Went DEF Aside, Places

\* Who makes the breaker has it alone: nobody else's is there.
LEMMA ClaimBreaker ==
  ASSUME FileLockAssumption, TypeOK, BreakerInv, Attempts, NEW p \in Procs, Claim(p)
  PROVE  BreakerInv'
<1>1. UNCHANGED mishaps /\ proc[p].pc = "claim" /\ ~proc[p].breaking
  BY DEF Claim, Attempts, Cleaning, Looking
<1>2. CASE Exists("breaker")
  <2>1. Goto(p, "statBreaker") /\ UNCHANGED <<files, maker>>
    BY <1>2 DEF Claim
  <2>2. Aside
    BY <1>1, <2>1, Went DEF Aside, Places
  <2> QED BY <2>2, AsideKeeps
<1>3. CASE ~Exists("breaker")
  <2>1. /\ proc'[p].pc = "statHeartbeat" /\ proc'[p].breaking
        /\ \A q \in Procs : q # p => proc'[q] = proc[q]
    BY <1>3 DEF Claim, TypeOK
  <2>2. files'["breaker"] = "fresh" /\ maker'["breaker"] = p
    BY <1>3 DEF Claim, TypeOK, Names
  <2>3. "overtaken" \notin mishaps => BreakerIsOwned /\ maker["breaker"] = None
    BY <1>3 DEF BreakerInv, BreakerIsOwned, Exists
  <2>4. ASSUME "overtaken" \notin mishaps' PROVE BreakerIsOwned'
    BY <1>1, <2>1, <2>2, <2>3, <2>4 DEF BreakerIsOwned, FileLockAssumption
  <2>5. ASSUME "orphaned" \notin mishaps' PROVE "overtaken" \notin mishaps' /\ BreakerIsLive'
    BY <1>1, <2>1, <2>2, <2>5 DEF BreakerInv, BreakerIsLive, FileLockAssumption
  <2> QED BY <2>4, <2>5 DEF BreakerInv
<1> QED BY <1>2, <1>3

\* One's own breaker is removed, or a dead process's; a live one's is a mishap,
\* and takes one who found a breaker that was left behind.
LEMMA RmBreakerBreaker ==
  ASSUME FileLockAssumption, TypeOK, BreakerInv, NEW p \in Procs, RmBreaker(p)
  PROVE  BreakerInv'
<1>1. /\ proc'[p].pc \in {"writeHeartbeat", "wait"} /\ ~proc'[p].breaking
      /\ \A q \in Procs : q # p => proc'[q] = proc[q]
  BY DEF RmBreaker, TypeOK
<1>2. files'["breaker"] = "gone" /\ maker'["breaker"] = None
  BY DEF RmBreaker, TypeOK, Names
<1>3. /\ "overtaken" \in mishaps' <=> "overtaken" \in mishaps \/ maker["breaker"] \notin {p, None}
      /\ "orphaned" \in mishaps' <=> "orphaned" \in mishaps
  BY DEF RmBreaker, Happened
<1>4. ASSUME "overtaken" \notin mishaps' PROVE BreakerIsOwned'
  BY <1>1, <1>2, <1>3, <1>4 DEF BreakerInv, BreakerIsOwned, FileLockAssumption
<1>5. ASSUME "orphaned" \notin mishaps' PROVE "overtaken" \notin mishaps' /\ BreakerIsLive'
  <2>1. "overtaken" \notin mishaps /\ BreakerIsOwned /\ BreakerIsLive
    BY <1>3, <1>5 DEF BreakerInv
  <2>2. maker["breaker"] = p
    BY <2>1 DEF RmBreaker, BreakerIsOwned, BreakerIsLive
  <2> QED BY <1>1, <1>2, <1>3, <2>1, <2>2 DEF BreakerIsLive, Exists
<1> QED BY <1>4, <1>5 DEF BreakerInv

\* A breaker grows old when its owner is dead.
LEMMA AgeBreaker ==
  ASSUME FileLockAssumption, TypeOK, BreakerInv, NEW n \in Names, Age(n)
  PROVE  BreakerInv'
<1>1. CASE n # "breaker"
  <2>1. Aside
    BY <1>1 DEF Age, Aside, TypeOK
  <2> QED BY <2>1, AsideKeeps
<1>2. CASE n = "breaker"
  <2>1. /\ maker["breaker"] = None /\ Exists("breaker")
        /\ UNCHANGED <<maker, proc, mishaps>>
    BY <1>2 DEF Age, MayAge, Exists
  <2> QED BY <2>1 DEF BreakerInv, BreakerIsOwned, BreakerIsLive
<1> QED BY <1>1, <1>2

LEMMA CrashBreaker ==
  ASSUME FileLockAssumption, TypeOK, BreakerInv, NEW p \in Procs, Crash(p)
  PROVE  BreakerInv'
<1>1. /\ proc'[p] = Idle /\ \A q \in Procs : q # p => proc'[q] = proc[q]
  BY IdleState, Became DEF Crash
<1>2. /\ maker'["breaker"] = IF maker["breaker"] = p THEN None ELSE maker["breaker"]
      /\ files' = files
  BY DEF Crash, TypeOK
<1>3. /\ "overtaken" \in mishaps' <=> "overtaken" \in mishaps
      /\ "orphaned" \in mishaps' <=> "orphaned" \in mishaps \/ proc[p].breaking
  BY DEF Crash, Happened
<1>4. ASSUME "overtaken" \notin mishaps' PROVE BreakerIsOwned'
  BY <1>1, <1>2, <1>3, <1>4, IdleState DEF BreakerInv, BreakerIsOwned, FileLockAssumption
<1>5. ASSUME "orphaned" \notin mishaps' PROVE "overtaken" \notin mishaps' /\ BreakerIsLive'
  <2>1. "overtaken" \notin mishaps /\ BreakerIsOwned /\ BreakerIsLive /\ ~proc[p].breaking
    BY <1>3, <1>5 DEF BreakerInv
  <2>2. maker["breaker"] # p
    BY <2>1 DEF BreakerIsOwned
  <2> QED BY <1>1, <1>2, <1>3, <2>1, <2>2, IdleState DEF BreakerIsLive, Exists
<1> QED BY <1>4, <1>5 DEF BreakerInv

LEMMA BreakerKeeps ==
  ASSUME FileLockAssumption, TypeOK, Attempts, BreakerInv, Next
  PROVE  BreakerInv'
BY AsideKeeps, WalkAside, LookAside, MakeAside, RemoveAside, WriteAside, ClaimBreaker,
   RmBreakerBreaker, AgeBreaker, CrashBreaker DEF Next, Step

-----------------------------------------------------------------------------
(* Whose the lock is.                                                       *)

\* What the lemmas below start from: no mishap yet.
Sound == TypeOK /\ Attempts /\ BreakerIsOwned /\ LockInv

\* The release of the lock, as it goes on, and as others go by.
LEMMA Releasing ==
  ASSUME NEW p \in Procs, \A q \in Procs : q # p => proc'[q] = proc[q],
         UNCHANGED maker, proc[p].pc # "rmRelease" \/ maker["dir"] # p
  PROVE  BeingReleased => BeingReleased'
BY DEF BeingReleased

\* A process goes on to a place where it does not own the lock, as before; the
\* files, their makers and their tokens stay.
LEMMA WalkKeeps ==
  ASSUME FileLockAssumption, Sound, NEW p \in Procs,
         NEW pc \in {"idle", "mkdir", "statHeartbeat", "claim", "statBreaker", "wait", "rmBreaker"},
         \/ Goto(p, pc)
         \/ pc = "idle" /\ proc' = [proc EXCEPT ![p] = Idle],
         proc[p].pc \notin Owning \cup {"rmBreaker"},
         Now(p) \/ UNCHANGED old \/ old' = [old EXCEPT ![p] = {}],
         UNCHANGED <<files, token, maker>>
  PROVE  LockInv'
<1>0. TypeOK /\ LockIsOwned /\ AgesUnderMaker /\ SnapshotIsStale /\ LooksAtDead /\ BreaksDead
  BY DEF Sound, LockInv
<1>1. /\ proc'[p].pc = pc
      /\ proc'[p].made => proc[p].made
      /\ \A q \in Procs : q # p => proc'[q] = proc[q]
  <2>1. CASE Goto(p, pc)
    BY <1>0, <2>1, Went DEF Places
  <2>2. CASE pc = "idle" /\ proc' = [proc EXCEPT ![p] = Idle]
    BY <1>0, <2>2, Became, IdleState
  <2> QED BY <2>1, <2>2
<1>2. /\ \A n \in old'[p] : files[n] = "old" \/ n \in old[p]
      /\ \A q \in Procs : q # p => old'[q] = old[q]
  BY <1>0, Looked
<1>3. ~Owner(p) /\ ~proc[p].made /\ ~Owner(p)'
  BY <1>0, <1>1 DEF Owner, Owning, LockIsOwned
<1>4. \A q \in Procs : Owner(q)' <=> Owner(q)
  BY <1>1, <1>3 DEF Owner
<1>5. BeingReleased => BeingReleased'
  BY <1>1, Releasing DEF Owning
<1>6. LockIsOwned'
  BY <1>0, <1>1, <1>3, <1>4 DEF LockIsOwned, FilesFit, Exists
<1>7. AgesUnderMaker'
  BY <1>0, <1>5 DEF AgesUnderMaker, Exists
<1>8. SnapshotIsStale'
  BY <1>0, <1>2 DEF SnapshotIsStale
<1>9. LooksAtDead'
  BY <1>0, <1>1, <1>2, <1>5 DEF LooksAtDead, Exists
<1>10. BreaksDead'
  BY <1>0, <1>1 DEF BreaksDead, Exists
<1> QED BY <1>6, <1>7, <1>8, <1>9, <1>10 DEF LockInv

\* A look at one of the files decides, or leaves it to the next; what it finds
\* old has no live maker, or one that is releasing it.
LEMMA LookKeeps ==
  ASSUME FileLockAssumption, Sound, Unharmed', NEW p \in Procs, NEW n \in Names, NEW next \in Places,
         \/ n = "heartbeat" /\ next = "statMeta" /\ proc[p].pc = "statHeartbeat"
         \/ n = "meta" /\ next = "statDir" /\ proc[p].pc = "statMeta"
         \/ n = "dir" /\ proc[p].pc = "statDir",
         Look(p, n, next),
         UNCHANGED <<files, token, maker>>
  PROVE  LockInv'
<1>0. TypeOK /\ LockIsOwned /\ AgesUnderMaker /\ SnapshotIsStale /\ LooksAtDead /\ BreaksDead
  BY DEF Sound, LockInv
<1>1. ~Owner(p) /\ ~proc[p].made
  BY <1>0 DEF Owner, Owning, LockIsOwned
<1>2. PICK pc \in {"statMeta", "statDir", "claim", "wait", "rmLock", "rmBreaker"} :
        /\ Goto(p, pc)
        /\ pc \in {"statMeta", "statDir"} => pc = next /\ n # "dir" /\ ~Exists(n) /\ UNCHANGED old
        /\ pc = "rmLock" => Exists(n) /\ n \in old[p] /\ ~BeingReleased
  <2>1. "halfRemoved" \notin mishaps'
    BY DEF Unharmed
  <2> QED BY <2>1 DEF Look, Judged, Happened
<1>3. /\ proc'[p].pc = pc /\ proc'[p].made = proc[p].made
      /\ \A q \in Procs : q # p => proc'[q] = proc[q]
  BY <1>0, <1>2, Went DEF Places
<1>4. /\ \A m \in old'[p] : files[m] = "old" \/ m \in old[p]
      /\ \A q \in Procs : q # p => old'[q] = old[q]
  BY <1>0, Looked DEF Look
<1>5. ~Owner(p)'
  BY <1>1, <1>2, <1>3 DEF Owner, Owning
<1>6. \A q \in Procs : Owner(q)' <=> Owner(q)
  BY <1>1, <1>3, <1>5 DEF Owner
<1>7. BeingReleased => BeingReleased'
  BY <1>3, Releasing
<1>8. \A m \in {"heartbeat", "meta", "dir"} : m \in old[p] /\ Exists(m) => files[m] = "old"
  BY <1>0 DEF SnapshotIsStale, TypeOK, Exists, Names
<1>10. LockIsOwned'
  BY <1>0, <1>2, <1>3, <1>5, <1>6 DEF LockIsOwned, FilesFit, Exists
<1>11. AgesUnderMaker' /\ SnapshotIsStale'
  BY <1>0, <1>4, <1>7 DEF AgesUnderMaker, SnapshotIsStale, Exists
<1>12. LooksAtDead'
  <2>1. ASSUME pc \in {"statMeta", "statDir"}
        PROVE  /\ "meta" \in old[p] /\ Exists("meta") => maker["dir"] = None \/ BeingReleased
               /\ "dir" \in old[p] /\ Exists("dir") => maker["dir"] = None
    <3>1. CASE n = "heartbeat"
      BY <1>0, <1>2, <1>8, <2>1, <3>1 DEF AgesUnderMaker
    <3>2. CASE n = "meta"
      BY <1>0, <3>2 DEF LooksAtDead
    <3> QED BY <1>2, <2>1, <3>1, <3>2
  <2>2. ASSUME NEW q \in Procs, q # p, proc'[q].pc \in {"statMeta", "statDir"}
        PROVE  /\ "meta" \in old'[q] /\ Exists("meta") => maker["dir"] = None \/ BeingReleased
               /\ "dir" \in old'[q] /\ Exists("dir") => maker["dir"] = None
    BY <1>0, <1>3, <1>4, <2>2 DEF LooksAtDead
  <2> QED BY <1>2, <1>3, <1>7, <2>1, <2>2 DEF LooksAtDead, Exists
<1>13. BreaksDead'
  <2>1. ASSUME pc = "rmLock" PROVE maker["dir"] = None /\ Exists("dir")
    <3>1. Exists(n) /\ n \in old[p] /\ ~BeingReleased
      BY <1>2, <2>1
    <3>2. Exists("dir")
      BY <1>0, <3>1 DEF TypeOK, Names
    <3>3. CASE n = "heartbeat"
      BY <1>0, <1>8, <3>1, <3>2, <3>3 DEF AgesUnderMaker
    <3>4. CASE n \in {"meta", "dir"}
      BY <1>0, <3>1, <3>2, <3>4 DEF LooksAtDead
    <3> QED BY <3>3, <3>4
  <2> QED BY <1>0, <1>2, <1>3, <2>1 DEF BreaksDead, Exists
<1> QED BY <1>10, <1>11, <1>12, <1>13 DEF LockInv

\* Whoever makes the directory, at first or anew, finds it gone and empty.
LEMMA MakeKeeps ==
  ASSUME FileLockAssumption, Sound, NEW p \in Procs, NEW then \in Places,
         \/ proc[p].pc = "mkdir" /\ then = "writeHeartbeat"
         \/ proc[p].pc = "remake" /\ then = "rmBreaker",
         ~Exists("dir"),
         files' = [files EXCEPT !["dir"] = "fresh"],
         Touched({"dir"}),
         maker' = [maker EXCEPT !["dir"] = p],
         proc' = [proc EXCEPT ![p].pc = then, ![p].made = TRUE],
         UNCHANGED token
  PROVE  LockInv'
<1>0. TypeOK /\ LockIsOwned /\ AgesUnderMaker /\ SnapshotIsStale /\ LooksAtDead /\ BreaksDead
  BY DEF Sound, LockInv
<1>1. /\ proc'[p].pc = then /\ proc'[p].made
      /\ \A q \in Procs : q # p => proc'[q] = proc[q]
  BY <1>0 DEF TypeOK, States
<1>2. /\ files'["dir"] = "fresh"
      /\ \A n \in Names : n # "dir" => files'[n] = files[n]
  BY <1>0 DEF TypeOK, Names
<1>3. maker'["dir"] = p
  BY <1>0 DEF TypeOK
<1>4. old' \in [Procs -> SUBSET Names] /\ \A q \in Procs : old'[q] = old[q] \ {"dir"}
  BY <1>0, Touch
<1>5. files'["heartbeat"] = "gone" /\ files'["meta"] = "gone"
  BY <1>0, <1>2 DEF TypeOK, Names, Exists
<1>6. maker["dir"] = None /\ \A q \in Procs : ~Owner(q)
  BY <1>0 DEF LockIsOwned, TypeOK, FileLockAssumption
<1>7. Owner(p)' /\ \A q \in Procs : q # p => ~Owner(q)'
  BY <1>1, <1>6 DEF Owner, Owning
<1>10. LockIsOwned'
  <2>1. proc'[p].pc \in {"rmBreaker", "writeHeartbeat"}
    BY <1>1
  <2>2. ~Exists("heartbeat")' /\ ~Exists("meta")' /\ Exists("dir")'
    BY <1>2, <1>5 DEF Exists
  <2>3. \A q \in Procs : proc'[q].made <=> Owner(q)'
    BY <1>0, <1>1, <1>6, <1>7 DEF LockIsOwned
  <2>4. \A q \in Procs : proc'[q].pc # "rmCompromised"
    BY <1>0, <1>1 DEF LockIsOwned
  <2> QED BY <1>3, <1>7, <2>1, <2>2, <2>3, <2>4 DEF LockIsOwned, FilesFit, Owning, Holding
<1>11. AgesUnderMaker'
  BY <1>2, <1>5 DEF AgesUnderMaker
<1>12. SnapshotIsStale'
  BY <1>0, <1>2, <1>4 DEF SnapshotIsStale, TypeOK
<1>13. LooksAtDead'
  BY <1>4, <1>5 DEF LooksAtDead, Exists
<1>14. BreaksDead'
  BY <1>0, <1>1 DEF BreaksDead
<1> QED BY <1>10, <1>11, <1>12, <1>13, <1>14 DEF LockInv

\* The breaker says nothing of the lock.
LEMMA ClaimKeeps ==
  ASSUME FileLockAssumption, Sound, NEW p \in Procs, Claim(p)
  PROVE  LockInv'
<1>0. TypeOK /\ LockIsOwned /\ AgesUnderMaker /\ SnapshotIsStale /\ LooksAtDead /\ BreaksDead
  BY DEF Sound, LockInv
<1>1. proc[p].pc = "claim" /\ ~Owner(p)
  BY DEF Claim, Owner, Owning
<1>2. CASE Exists("breaker")
  BY <1>1, <1>2, WalkKeeps DEF Claim, Owning
<1>3. CASE ~Exists("breaker")
  <2>1. /\ proc'[p].pc = "statHeartbeat" /\ proc'[p].made = proc[p].made
        /\ \A q \in Procs : q # p => proc'[q] = proc[q]
    BY <1>0, <1>3 DEF Claim, TypeOK, States, Places
  <2>2. /\ \A n \in Names : n # "breaker" => files'[n] = files[n]
        /\ maker'["dir"] = maker["dir"]
    BY <1>0, <1>3 DEF Claim, TypeOK, Names
  <2>3. /\ \A n \in old'[p] : files[n] = "old" \/ n \in old[p]
        /\ \A q \in Procs : q # p => old'[q] = old[q]
        /\ old' \in [Procs -> SUBSET Names]
    BY <1>0, <1>3, Looked DEF Claim
  <2>4. UNCHANGED token
    BY DEF Claim
  <2>5. \A q \in Procs : Owner(q)' <=> Owner(q)
    BY <1>1, <2>1 DEF Owner, Owning
  <2>6. BeingReleased => BeingReleased'
    BY <1>1, <2>1, <2>2 DEF BeingReleased
  <2>10. LockIsOwned'
    BY <1>0, <2>1, <2>2, <2>4, <2>5 DEF LockIsOwned, FilesFit, Exists, Names, Holding, Owning, Owner
  <2>11. AgesUnderMaker'
    BY <1>0, <2>2, <2>6 DEF AgesUnderMaker, Exists, Names
  <2>12. SnapshotIsStale'
    BY <1>0, <2>2, <2>3 DEF SnapshotIsStale
  <2>13. LooksAtDead'
    BY <1>0, <2>1, <2>2, <2>3, <2>6 DEF LooksAtDead, Exists, Names
  <2>14. BreaksDead'
    BY <1>0, <2>1, <2>2 DEF BreaksDead, Exists, Names
  <2> QED BY <2>10, <2>11, <2>12, <2>13, <2>14 DEF LockInv
<1> QED BY <1>2, <1>3

\* The breaker goes, and whoever made the lock goes on.
LEMMA RmBreakerKeeps ==
  ASSUME FileLockAssumption, Sound, NEW p \in Procs, RmBreaker(p)
  PROVE  LockInv'
<1>0. TypeOK /\ LockIsOwned /\ AgesUnderMaker /\ SnapshotIsStale /\ LooksAtDead /\ BreaksDead
  BY DEF Sound, LockInv
<1> DEFINE pc == IF proc[p].made THEN "writeHeartbeat" ELSE "wait"
<1>1. /\ proc'[p].pc = pc /\ proc'[p].made = proc[p].made
      /\ \A q \in Procs : q # p => proc'[q] = proc[q]
  BY <1>0 DEF RmBreaker, TypeOK
<1>2. /\ \A n \in Names : n # "breaker" => files'[n] = files[n]
      /\ maker'["dir"] = maker["dir"]
  BY <1>0 DEF RmBreaker, TypeOK, Names
<1>4. UNCHANGED <<token, old>> /\ proc[p].pc = "rmBreaker"
  BY DEF RmBreaker
<1>6. Owner(p)' <=> Owner(p)
  BY <1>1, <1>4 DEF Owner, Owning
<1>7. \A q \in Procs : Owner(q)' <=> Owner(q)
  BY <1>1, <1>6 DEF Owner
<1>8. BeingReleased => BeingReleased'
  BY <1>1, <1>2, <1>4 DEF BeingReleased
<1>10. LockIsOwned'
  <2>1. \A n \in {"dir", "heartbeat", "meta"} : Exists(n)' <=> Exists(n)
    BY <1>2 DEF Exists, Names
  <2>2. ASSUME NEW q \in Procs, Owner(q)'
        PROVE  FilesFit(q)'
    <3>1. CASE q = p
      BY <1>0, <1>1, <1>4, <1>7, <2>1, <2>2, <3>1 DEF LockIsOwned, FilesFit, Holding
    <3>2. CASE q # p
      BY <1>0, <1>1, <1>4, <1>7, <2>1, <2>2, <3>2 DEF LockIsOwned, FilesFit, Holding
    <3> QED BY <3>1, <3>2
  <2> QED BY <1>0, <1>1, <1>2, <1>7, <2>1, <2>2 DEF LockIsOwned
<1>11. AgesUnderMaker'
  BY <1>0, <1>2, <1>8 DEF AgesUnderMaker, Exists, Names
<1>12. SnapshotIsStale'
  BY <1>0, <1>2, <1>4 DEF SnapshotIsStale, TypeOK
<1>13. LooksAtDead'
  BY <1>0, <1>1, <1>2, <1>4, <1>8 DEF LooksAtDead, Exists, Names
<1>14. BreaksDead'
  BY <1>0, <1>1, <1>2 DEF BreaksDead, Exists, Names
<1> QED BY <1>10, <1>11, <1>12, <1>13, <1>14 DEF LockInv

-----------------------------------------------------------------------------
(* Removing.                                                                *)

\* One process at a time cleans up.
LEMMA OneBreaks ==
  ASSUME FileLockAssumption, Attempts, BreakerIsOwned, NEW p \in Procs, NEW q \in Procs,
         proc[p].pc \in {"rmLock", "remake"}, proc[q].pc \in {"rmLock", "remake"}
  PROVE  p = q
BY DEF Attempts, BreakerIsOwned

\* The directory is gone, and nobody owns it any more.
LEMMA RemovedKeeps ==
  ASSUME FileLockAssumption, Sound, NEW p \in Procs, NEW s \in States,
         \/ proc[p].pc = "rmLock" /\ s = [proc[p] EXCEPT !.pc = "remake"]
         \/ proc[p].pc = "rmRelease" /\ s = Idle,
         Entries = {},
         files' = [files EXCEPT !["dir"] = "gone"],
         maker' = [maker EXCEPT !["dir"] = None],
         proc' = [proc EXCEPT ![p] = s],
         UNCHANGED <<token, old>>
  PROVE  LockInv'
<1>0. TypeOK /\ LockIsOwned /\ SnapshotIsStale /\ BreaksDead
  BY DEF Sound, LockInv
<1>1. /\ proc'[p] = s
      /\ \A q \in Procs : q # p => proc'[q] = proc[q]
  BY <1>0, Became
<1>2. /\ files'["dir"] = "gone"
      /\ \A n \in Names : n # "dir" => files'[n] = files[n]
  BY <1>0 DEF TypeOK, Names
<1>3. maker'["dir"] = None
  BY <1>0 DEF TypeOK
<1>4. \A q \in Procs : q # p => ~Owner(q)
  BY <1>0 DEF LockIsOwned, BreaksDead, Owner, Owning, FileLockAssumption
<1>5. s.pc \in {"remake", "idle"} /\ ~s.made
  <2>1. CASE proc[p].pc = "rmLock"
    <3>1. ~Owner(p) /\ proc[p] \in States
      BY <1>0, <2>1 DEF Owner, Owning, TypeOK, States
    <3> QED BY <1>0, <2>1, <3>1 DEF LockIsOwned, States
  <2>2. CASE proc[p].pc = "rmRelease"
    BY <2>2, IdleState
  <2> QED BY <2>1, <2>2
<1>6. \A q \in Procs : ~Owner(q)'
  BY <1>1, <1>4, <1>5 DEF Owner, Owning
<1>10. LockIsOwned'
  <2>1. \A q \in Procs : ~proc'[q].made
    BY <1>0, <1>1, <1>4, <1>5 DEF LockIsOwned
  <2>2. \A q \in Procs : proc'[q].pc # "rmCompromised" /\ maker'["dir"] # q
    BY <1>0, <1>1, <1>3, <1>5 DEF LockIsOwned, FileLockAssumption
  <2> QED BY <1>3, <1>6, <2>1, <2>2 DEF LockIsOwned
<1>11. AgesUnderMaker'
  BY <1>3 DEF AgesUnderMaker
<1>12. SnapshotIsStale'
  BY <1>0, <1>2 DEF SnapshotIsStale, TypeOK
<1>13. LooksAtDead'
  BY <1>3 DEF LooksAtDead
<1>14. BreaksDead'
  <2>1. ASSUME NEW q \in Procs, q # p PROVE proc[q].pc # "rmLock"
    <3>1. CASE proc[p].pc = "rmLock"
      BY <2>1, <3>1, OneBreaks DEF Sound
    <3>2. CASE proc[p].pc = "rmRelease"
      BY <1>0, <3>2 DEF LockIsOwned, BreaksDead, Owner, Owning, FileLockAssumption
    <3> QED BY <3>1, <3>2
  <2> QED BY <1>1, <1>5, <2>1 DEF BreaksDead
<1> QED BY <1>10, <1>11, <1>12, <1>13, <1>14 DEF LockInv

\* An entry of the directory is gone, whose owner is about to remove it all.
LEMMA PieceKeeps ==
  ASSUME FileLockAssumption, Sound, NEW p \in Procs, NEW n \in {"heartbeat", "meta"},
         proc[p].pc \in {"rmLock", "rmRelease"}, Exists(n),
         files' = [files EXCEPT ![n] = "gone", !["dir"] = "fresh"],
         token' = IF n = "meta" THEN None ELSE token,
         Touched({"dir"}),
         UNCHANGED <<maker, proc>>
  PROVE  LockInv'
<1>0. TypeOK /\ LockIsOwned /\ AgesUnderMaker /\ SnapshotIsStale /\ LooksAtDead /\ BreaksDead
  BY DEF Sound, LockInv
<1>1. /\ files'["dir"] = "fresh" /\ files'[n] = "gone"
      /\ \A m \in Names : m # n /\ m # "dir" => files'[m] = files[m]
  BY <1>0 DEF TypeOK, Names
<1>2. old' \in [Procs -> SUBSET Names] /\ \A q \in Procs : old'[q] = old[q] \ {"dir"}
  BY <1>0, Touch
<1>3. \A q \in Procs : Owner(q)' <=> Owner(q)
  BY DEF Owner
<1>4. \A q \in Procs : Owner(q) => q = p /\ proc[p].pc = "rmRelease"
  BY <1>0 DEF LockIsOwned, BreaksDead, Owner, Owning, FileLockAssumption
<1>5. maker["dir"] # None => BeingReleased'
  <2>1. ASSUME maker["dir"] # None PROVE maker["dir"] = p /\ proc[p].pc = "rmRelease"
    BY <1>0, <1>4, <2>1 DEF LockIsOwned, TypeOK
  <2> QED BY <2>1 DEF BeingReleased
<1>10. LockIsOwned'
  <2>1. \A q \in Procs : Owner(q) => FilesFit(q)'
    BY <1>4 DEF FilesFit, Holding
  <2>2. Exists("dir")'
    BY <1>1 DEF Exists
  <2> QED BY <1>0, <1>3, <2>1, <2>2 DEF LockIsOwned
<1>11. AgesUnderMaker'
  BY <1>0, <1>1, <1>5 DEF AgesUnderMaker, Names
<1>12. SnapshotIsStale'
  BY <1>0, <1>1, <1>2 DEF SnapshotIsStale, TypeOK, Names
<1>13. LooksAtDead'
  BY <1>2, <1>5 DEF LooksAtDead
<1>14. BreaksDead'
  BY <1>0, <1>1 DEF BreaksDead, Exists
<1> QED BY <1>10, <1>11, <1>12, <1>13, <1>14 DEF LockInv

LEMMA RmLockKeeps ==
  ASSUME FileLockAssumption, Sound, NEW p \in Procs, RmLock(p)
  PROVE  LockInv'
<1>1. [proc[p] EXCEPT !.pc = "remake"] \in States
  BY DEF Sound, TypeOK, States, Places
<1> QED BY <1>1, RemovedKeeps, PieceKeeps DEF RmLock, Remove, Entries

LEMMA RmReleaseKeeps ==
  ASSUME FileLockAssumption, Sound, NEW p \in Procs, RmRelease(p)
  PROVE  LockInv'
<1>1. proc[p].pc = "rmRelease"
  BY DEF RmRelease, Sound, LockInv, LockIsOwned
<1> QED BY <1>1, IdleState, RemovedKeeps, PieceKeeps DEF RmRelease, Remove, Entries

-----------------------------------------------------------------------------
(* Holding.                                                                 *)

\* Whoever made the directory writes its entries, which are not there.
LEMMA WriteKeeps ==
  ASSUME FileLockAssumption, Sound, NEW p \in Procs, NEW n \in Names, NEW then \in Places,
         \/ proc[p].pc = "writeHeartbeat" /\ n = "heartbeat" /\ then = "writeMeta"
         \/ proc[p].pc = "writeMeta" /\ n = "meta" /\ then = "held",
         Write(p, n, then),
         token' = IF n = "meta" /\ Writable(n) THEN p ELSE token,
         UNCHANGED maker
  PROVE  LockInv'
<1>0. TypeOK /\ LockIsOwned /\ AgesUnderMaker /\ SnapshotIsStale /\ LooksAtDead /\ BreaksDead
  BY DEF Sound, LockInv
<1>1. Owner(p) /\ maker["dir"] = p /\ FilesFit(p)
  BY <1>0 DEF LockIsOwned, Owner, Owning
<1>2. Exists("dir") /\ ~Exists(n) /\ maker["dir"] # None
  <2>1. maker["dir"] # None
    BY <1>1 DEF FileLockAssumption
  <2>2. Exists("dir")
    BY <1>0, <2>1 DEF LockIsOwned
  <2>3. ~Exists(n)
    BY <1>1 DEF FilesFit
  <2> QED BY <2>1, <2>2, <2>3
<1>3. files' = [files EXCEPT ![n] = "fresh", !["dir"] = "fresh"] /\ Touched({n, "dir"})
      /\ Goto(p, then)
  BY <1>2 DEF Write, Writable
<1>4. /\ proc'[p].pc = then /\ proc'[p].made = proc[p].made
      /\ \A q \in Procs : q # p => proc'[q] = proc[q]
  BY <1>0, <1>3, Went
<1>5. /\ files'["dir"] = "fresh" /\ files'[n] = "fresh"
      /\ \A m \in Names : m # n /\ m # "dir" => files'[m] = files[m]
  BY <1>0, <1>3 DEF TypeOK, Names
<1>6. old' \in [Procs -> SUBSET Names] /\ \A q \in Procs : old'[q] = old[q] \ {n, "dir"}
  BY <1>0, <1>3, Touch
<1>7. \A q \in Procs : Owner(q) => q = p
  BY <1>0, <1>1 DEF LockIsOwned
<1>8. Owner(p)' /\ \A q \in Procs : q # p => ~Owner(q)'
  BY <1>4, <1>7 DEF Owner, Owning
<1>9. n \in {"heartbeat", "meta"}
  OBVIOUS
<1>10. LockIsOwned'
  <2>1. FilesFit(p)'
    BY <1>1, <1>2, <1>4, <1>5 DEF FilesFit, Holding, Exists, Names, Writable
  <2>2. Exists("dir")'
    BY <1>5 DEF Exists
  <2>3. \A q \in Procs : (proc'[q].made <=> Owner(q)') /\ proc'[q].pc # "rmCompromised"
    BY <1>0, <1>1, <1>4, <1>7, <1>8 DEF LockIsOwned
  <2> QED BY <1>1, <1>8, <2>1, <2>2, <2>3 DEF LockIsOwned
<1>11. AgesUnderMaker'
  <2>1. CASE n = "heartbeat"
    <3>1. files["meta"] = "gone"
      BY <1>1, <2>1 DEF FilesFit, Exists
    <3> QED BY <1>5, <2>1, <3>1 DEF AgesUnderMaker, Names
  <2>2. CASE n = "meta"
    <3>1. files["heartbeat"] # "old"
      BY <1>0, <1>2 DEF AgesUnderMaker
    <3> QED BY <1>5, <2>2, <3>1 DEF AgesUnderMaker, Names
  <2> QED BY <1>9, <2>1, <2>2
<1>12. SnapshotIsStale'
  BY <1>0, <1>5, <1>6 DEF SnapshotIsStale, TypeOK
<1>13. LooksAtDead'
  <2>1. \A q \in Procs, m \in Names : m \in old'[q] => m \in old[q] /\ files'[m] = files[m]
    BY <1>5, <1>6
  <2>2. ~BeingReleased
    BY <1>1 DEF BeingReleased
  <2>3. \A q \in Procs : q # p => proc'[q] = proc[q]
    BY <1>4
  <2> QED BY <1>0, <1>4, <2>1, <2>2, <2>3 DEF LooksAtDead, Exists, Names
<1>14. BreaksDead'
  BY <1>0, <1>1, <1>4 DEF BreaksDead, FileLockAssumption
<1> QED BY <1>10, <1>11, <1>12, <1>13, <1>14 DEF LockInv

\* A holder lets go: its lock is there, with its token.
LEMMA LetGoKeeps ==
  ASSUME FileLockAssumption, Sound, NEW p \in Procs, NEW pc \in Places,
         \/ proc[p].pc = "held" /\ pc = "readMeta"
         \/ proc[p].pc = "readMeta" /\ pc = "rmRelease",
         Goto(p, pc),
         UNCHANGED <<files, token, maker, old>>
  PROVE  LockInv'
<1>0. TypeOK /\ LockIsOwned /\ AgesUnderMaker /\ SnapshotIsStale /\ LooksAtDead /\ BreaksDead
  BY DEF Sound, LockInv
<1>1. /\ proc'[p].pc = pc /\ proc'[p].made = proc[p].made
      /\ \A q \in Procs : q # p => proc'[q] = proc[q]
  BY <1>0, Went
<1>2. \A q \in Procs : Owner(q)' <=> Owner(q)
  BY <1>1 DEF Owner, Owning
<1>3. BeingReleased => BeingReleased'
  BY <1>1, Releasing
<1>10. LockIsOwned'
  <2>1. ASSUME NEW q \in Procs, Owner(q) PROVE FilesFit(q)'
    <3>1. FilesFit(q)
      BY <1>0, <2>1 DEF LockIsOwned
    <3>2. CASE q = p
      BY <1>1, <3>1, <3>2 DEF FilesFit, Holding, Exists
    <3>3. CASE q # p
      BY <1>1, <3>1, <3>3 DEF FilesFit, Exists
    <3> QED BY <3>2, <3>3
  <2> QED BY <1>0, <1>1, <1>2, <2>1 DEF LockIsOwned, Exists
<1>11. AgesUnderMaker' /\ SnapshotIsStale' /\ LooksAtDead' /\ BreaksDead'
  BY <1>0, <1>1, <1>3 DEF AgesUnderMaker, SnapshotIsStale, LooksAtDead, BreaksDead, Exists
<1> QED BY <1>10, <1>11 DEF LockInv

LEMMA ReadMetaKeeps ==
  ASSUME FileLockAssumption, Sound, NEW p \in Procs, ReadMeta(p)
  PROVE  LockInv'
<1>1. proc[p].pc = "readMeta" /\ Exists("meta") /\ token = p
  BY DEF ReadMeta, Sound, LockInv, LockIsOwned, Owner, Owning, FilesFit, Holding
<1>2. Goto(p, "rmRelease")
  BY <1>1 DEF ReadMeta, Goto, Sound, TypeOK
<1> QED BY <1>1, <1>2, LetGoKeeps DEF ReadMeta, Places

-----------------------------------------------------------------------------
(* Time and crashes.                                                        *)

\* What grows old is a dead process's, or a long hold's beside its heartbeat.
LEMMA AgeKeeps ==
  ASSUME FileLockAssumption, Sound, NEW n \in Names, Age(n)
  PROVE  LockInv'
<1>0. TypeOK /\ LockIsOwned /\ AgesUnderMaker /\ SnapshotIsStale /\ LooksAtDead /\ BreaksDead
  BY DEF Sound, LockInv
<1>1. /\ files[n] = "fresh" /\ MayAge(n)
      /\ files' = [files EXCEPT ![n] = "old"]
      /\ UNCHANGED <<token, maker, proc, old>>
  BY DEF Age
<1>2. /\ files'[n] = "old"
      /\ \A m \in Names : m # n => files'[m] = files[m]
  BY <1>0, <1>1 DEF TypeOK
<1>3. \A m \in Names : files'[m] = "gone" <=> files[m] = "gone"
  BY <1>1, <1>2
<1>4. ASSUME maker["dir"] # None, n # "breaker"
      PROVE  n # "heartbeat" /\ Exists("heartbeat")
  <2> DEFINE p == maker["dir"]
  <2>1. p \in Procs /\ Owner(p) /\ FilesFit(p)
    BY <1>0, <1>4 DEF TypeOK, LockIsOwned
  <2>2. n # "heartbeat"
    BY <1>1, <2>1 DEF MayAge, Beat, Owner, Owning, FilesFit, Exists
  <2>3. proc[p].pc = "held"
    BY <1>1, <1>4, <2>1, <2>2 DEF MayAge
  <2> QED BY <2>1, <2>2, <2>3 DEF FilesFit, Holding
<1>5. BeingReleased => BeingReleased'
  BY <1>1 DEF BeingReleased
<1>10. LockIsOwned'
  BY <1>0, <1>1, <1>3 DEF LockIsOwned, Owner, FilesFit, Exists, Names
<1>11. AgesUnderMaker'
  BY <1>0, <1>1, <1>2, <1>3, <1>4, <1>5 DEF AgesUnderMaker, Exists, Names
<1>12. SnapshotIsStale'
  BY <1>0, <1>1, <1>2 DEF SnapshotIsStale, TypeOK
<1>13. LooksAtDead' /\ BreaksDead'
  BY <1>0, <1>1, <1>3, <1>5 DEF LooksAtDead, BreaksDead, Exists, Names
<1> QED BY <1>10, <1>11, <1>12, <1>13 DEF LockInv

\* What a dead process leaves is nobody's.
LEMMA CrashKeeps ==
  ASSUME FileLockAssumption, Sound, NEW p \in Procs, Crash(p)
  PROVE  LockInv'
<1>0. TypeOK /\ LockIsOwned /\ AgesUnderMaker /\ SnapshotIsStale /\ LooksAtDead /\ BreaksDead
  BY DEF Sound, LockInv
<1>1. /\ proc'[p] = Idle
      /\ \A q \in Procs : q # p => proc'[q] = proc[q]
  BY <1>0, IdleState, Became DEF Crash
<1>2. maker'["dir"] = IF maker["dir"] = p THEN None ELSE maker["dir"]
  BY <1>0 DEF Crash, TypeOK
<1>3. old'[p] = {} /\ \A q \in Procs : q # p => old'[q] = old[q]
  BY <1>0 DEF Crash, TypeOK
<1>4. files' = files /\ token' = IF token = p THEN None ELSE token
  BY DEF Crash
<1>5. ~Owner(p)' /\ \A q \in Procs : q # p => (Owner(q)' <=> Owner(q))
  BY <1>1, IdleState DEF Owner, Owning
<1>6. BeingReleased => BeingReleased' \/ maker'["dir"] = None
  BY <1>1, <1>2 DEF BeingReleased
<1>10. LockIsOwned'
  <2>1. ASSUME NEW q \in Procs, q # p, Owner(q) PROVE FilesFit(q)'
    <3>1. FilesFit(q)
      BY <1>0, <2>1 DEF LockIsOwned
    <3> QED BY <1>1, <1>4, <2>1, <3>1 DEF FilesFit, Exists
  <2>2. \A q \in Procs : maker'["dir"] = q <=> Owner(q)'
    BY <1>0, <1>2, <1>5 DEF LockIsOwned, FileLockAssumption
  <2>3. \A q \in Procs : (proc'[q].made <=> Owner(q)') /\ proc'[q].pc # "rmCompromised"
    BY <1>0, <1>1, <1>5, IdleState DEF LockIsOwned
  <2> QED BY <1>0, <1>2, <1>4, <1>5, <2>1, <2>2, <2>3 DEF LockIsOwned, Exists
<1>11. AgesUnderMaker' /\ SnapshotIsStale'
  BY <1>0, <1>2, <1>3, <1>4, <1>6 DEF AgesUnderMaker, SnapshotIsStale, Exists
<1>12. LooksAtDead' /\ BreaksDead'
  BY <1>0, <1>1, <1>2, <1>3, <1>4, <1>6, IdleState DEF LooksAtDead, BreaksDead, Exists
<1> QED BY <1>10, <1>11, <1>12 DEF LockInv

-----------------------------------------------------------------------------
(* The invariant, and what follows from it.                                 *)

LEMMA InitKeeps ==
  ASSUME FileLockAssumption, Init
  PROVE  IInv
<1>1. TypeOK
  BY IdleState DEF Init, TypeOK, States, FileLockAssumption, Exists, Names, Mishap
<1>2. Attempts /\ BreakerIsOwned /\ BreakerIsLive /\ "overtaken" \notin mishaps
  BY <1>1, IdleState DEF Init, Attempts, BreakerIsOwned, BreakerIsLive, Exists, Names, FileLockAssumption
<1>3. LockIsOwned
  BY IdleState DEF Init, LockIsOwned, Owner, Owning, FileLockAssumption
<1>4. AgesUnderMaker /\ SnapshotIsStale /\ LooksAtDead /\ BreaksDead
  BY IdleState DEF Init, AgesUnderMaker, SnapshotIsStale, LooksAtDead, BreaksDead
<1> QED BY <1>1, <1>2, <1>3, <1>4 DEF IInv, LockInv

LEMMA MakesKeep ==
  ASSUME FileLockAssumption, Sound, NEW p \in Procs, Mkdir(p) \/ Remake(p)
  PROVE  LockInv'
<1>1. CASE Exists("dir")
  <2>1. CASE Mkdir(p)
    <3>1. proc[p].pc = "mkdir" /\ Goto(p, "statHeartbeat") /\ Now(p)
          /\ UNCHANGED <<files, token, maker>>
      BY <1>1, <2>1 DEF Mkdir, MakeDir
    <3> QED BY <3>1, WalkKeeps DEF Owning
  <2>2. CASE Remake(p)
    <3>1. proc[p].pc = "remake" /\ Goto(p, "rmBreaker")
          /\ UNCHANGED <<files, token, maker, old>>
      BY <1>1, <2>2 DEF Remake, MakeDir
    <3> QED BY <3>1, WalkKeeps DEF Owning
  <2> QED BY <2>1, <2>2
<1>2. CASE ~Exists("dir")
  BY <1>2, MakeKeeps DEF Mkdir, Remake, MakeDir, Places
<1> QED BY <1>1, <1>2

LEMMA WalksKeep ==
  ASSUME FileLockAssumption, Sound, NEW p \in Procs,
         Begin(p) \/ Retry(p) \/ Timeout(p) \/ StatBreaker(p)
  PROVE  LockInv'
<1>1. /\ proc[p].pc \in {"idle", "wait", "statBreaker"}
      /\ UNCHANGED <<files, token, maker, old>>
  BY DEF Begin, Retry, Timeout, StatBreaker
<1>2. \/ \E pc \in {"mkdir", "wait", "rmBreaker"} : Goto(p, pc)
      \/ proc' = [proc EXCEPT ![p] = Idle]
  BY DEF Begin, Retry, Timeout, StatBreaker
<1> QED BY <1>1, <1>2, WalkKeeps DEF Owning

LEMMA LooksKeep ==
  ASSUME FileLockAssumption, Sound, Unharmed', NEW p \in Procs,
         StatHeartbeat(p) \/ StatMeta(p) \/ StatDir(p)
  PROVE  LockInv'
<1>1. {"statMeta", "statDir", "wait"} \subseteq Places /\ {"heartbeat", "meta", "dir"} \subseteq Names
  BY DEF Places, Names
<1> QED BY <1>1, LookKeeps DEF StatHeartbeat, StatMeta, StatDir

LEMMA WritesKeep ==
  ASSUME FileLockAssumption, Sound, NEW p \in Procs, WriteHeartbeat(p) \/ WriteMeta(p)
  PROVE  LockInv'
<1>1. {"writeMeta", "held"} \subseteq Places /\ {"heartbeat", "meta"} \subseteq Names
  BY DEF Places, Names
<1> QED BY <1>1, WriteKeeps DEF WriteHeartbeat, WriteMeta

LEMMA LetsGoKeep ==
  ASSUME FileLockAssumption, Sound, NEW p \in Procs, Release(p)
  PROVE  LockInv'
BY LetGoKeeps DEF Release, Places

\* While no mishap happens, a step of any process keeps the lock.
LEMMA LockKeeps ==
  ASSUME FileLockAssumption, Sound, Unharmed', Next
  PROVE  LockInv'
BY WalksKeep, LooksKeep, MakesKeep, ClaimKeeps, RmBreakerKeeps, RmLockKeeps, WritesKeep, LetsGoKeep,
   ReadMetaKeeps, RmReleaseKeeps, AgeKeeps, CrashKeeps DEF Next, Step

LEMMA NextKeeps ==
  ASSUME FileLockAssumption, IInv, [Next]_vars
  PROVE  IInv'
<1>1. CASE Next
  <2>1. TypeOK' /\ Attempts'
    BY <1>1, Shape DEF IInv
  <2>2. BreakerInv'
    BY <1>1, BreakerKeeps DEF IInv, BreakerInv
  <2>3. ASSUME Unharmed' PROVE LockInv'
    <3>1. Unharmed
      BY <1>1, <2>3, MishapsGrow DEF Unharmed
    <3>2. Sound
      BY <3>1 DEF IInv, Sound, Unharmed
    <3> QED BY <1>1, <2>3, <3>2, LockKeeps
  <2> QED BY <2>1, <2>2, <2>3 DEF IInv, BreakerInv
<1>2. CASE UNCHANGED vars
  <2>1. \A p \in Procs : (Owner(p)' <=> Owner(p)) /\ (FilesFit(p)' <=> FilesFit(p))
    BY <1>2 DEF vars, Owner, FilesFit, Exists
  <2>2. (BeingReleased' <=> BeingReleased) /\ (Unharmed' <=> Unharmed)
    BY <1>2 DEF vars, BeingReleased, Unharmed
  <2>3. TypeOK' /\ Attempts'
    BY <1>2 DEF vars, IInv, TypeOK, Attempts, Exists
  <2>4. (BreakerIsOwned' <=> BreakerIsOwned) /\ (BreakerIsLive' <=> BreakerIsLive)
    BY <1>2 DEF vars, BreakerIsOwned, BreakerIsLive, Exists
  <2>5. LockIsOwned' <=> LockIsOwned
    BY <1>2, <2>1 DEF vars, LockIsOwned, Exists
  <2>6. /\ AgesUnderMaker' <=> AgesUnderMaker
        /\ SnapshotIsStale' <=> SnapshotIsStale
        /\ LooksAtDead' <=> LooksAtDead
        /\ BreaksDead' <=> BreaksDead
    BY <1>2, <2>2 DEF vars, AgesUnderMaker, SnapshotIsStale, LooksAtDead, BreaksDead, Exists
  <2>7. UNCHANGED mishaps
    BY <1>2 DEF vars
  <2> QED BY <2>2, <2>3, <2>4, <2>5, <2>6, <2>7 DEF IInv, LockInv
<1> QED BY <1>1, <1>2

\* The invariant holds in every reachable state.
THEOREM Inductive == Spec => []IInv
<1>1. Init => IInv
  BY FileLockAssumption, InitKeeps
<1>2. IInv /\ [Next]_vars => IInv'
  BY FileLockAssumption, NextKeeps
<1> QED
  BY <1>1, <1>2, PTL DEF Spec

\* Types: an attempt, and the files it works on, are in the ranges
\* effect-flock.ts declares, and a directory that is gone has no entries,
\* whatever went wrong and whoever died.
THEOREM TypeCorrect == Spec => []TypeOK
<1>1. IInv => TypeOK
  BY DEF IInv
<1> QED
  BY <1>1, Inductive, PTL

\* However many processes contend, hold the lock for long, die anywhere and break
\* what others left behind, two hold the lock only after one of the two races:
\* a live process's breaker was taken, or its lock while it was releasing it.
THEOREM OneHolder == Spec => [](Unharmed => MutualExclusion)
<1>1. IInv => (Unharmed => MutualExclusion)
  BY DEF IInv, LockInv, MutualExclusion, LockIsOwned, Owner, Owning
<1> QED
  BY <1>1, Inductive, PTL

\* No cleanup and no release takes a live holder's lock away, but in those races.
THEOREM HoldersKeepLock == Spec => []HeldLockIsIntact
<1>1. IInv => HeldLockIsIntact
  BY DEF IInv, LockInv, HeldLockIsIntact, LockIsOwned, Owner, Owning, FilesFit, Holding
<1> QED
  BY <1>1, Inductive, PTL

\* A live process's breaker is taken only after some owner of a breaker died.
THEOREM BreakerKept == Spec => []LiveBreakerIsKept
<1>1. IInv => LiveBreakerIsKept
  BY DEF IInv, LiveBreakerIsKept
<1> QED
  BY <1>1, Inductive, PTL

\* Until a live process's breaker is taken, dead owners of it or not, one process
\* at a time cleans up.
THEOREM OneCleaner == Spec => []("overtaken" \notin mishaps => OneCleanup)
<1>1. IInv => ("overtaken" \notin mishaps => OneCleanup)
  <2>1. ASSUME Attempts, BreakerIsOwned PROVE OneCleanup
    BY <2>1 DEF Attempts, BreakerIsOwned, OneCleanup
  <2> QED BY <2>1 DEF IInv
<1> QED
  BY <1>1, Inductive, PTL

=============================================================================
