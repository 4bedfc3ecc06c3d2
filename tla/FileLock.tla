------------------------------ MODULE FileLock ------------------------------
(***************************************************************************)
(* The lock that processes take through the file system                    *)
(* (packages/core/src/util/effect-flock.ts, and flock.ts, which keeps the  *)
(* same files).  Who makes the lock directory has the lock; it writes a    *)
(* heartbeat, which it touches while it holds, and meta.json with its      *)
(* token.  A lock whose heartbeat (or, failing that, meta.json, or the     *)
(* directory) is older than STALE_MS was left by a process that died:      *)
(* whoever makes the breaker directory looks again, removes the lock and   *)
(* makes it anew.                                                          *)
(*                                                                         *)
(* Every call of the file system is a step, and rm -r one per entry.  Time *)
(* is the age of the files: an entry is fresh until it is older than       *)
(* STALE_MS.  A body may hold the lock for as long as it likes, but in its *)
(* own steps a live process is never that slow: what it has just written,  *)
(* beats or is about to remove does not age before its maker dies.         *)
(*                                                                         *)
(* The code loses a lock of a live process in two ways, which the model    *)
(* records as mishaps so that the properties can say there is no other.    *)
(***************************************************************************)
EXTENDS Integers, FiniteSets

CONSTANTS
  Procs,        (* processes, each with one attempt at a time              *)
  None,         (* nobody                                                  *)
  MaxCrashes    (* bound: crashes of processes                             *)

ASSUME FileLockAssumption ==
  /\ None \notin Procs
  /\ MaxCrashes \in Nat

VARIABLES
  files,        (* lock directory, its entries, the breaker: their ages    *)
  token,        (* whose token meta.json holds                             *)
  maker,        (* the live process that made the lock, or the breaker     *)
  proc,         (* what each process is doing                              *)
  old,          (* what was older than STALE_MS at each isStale's now      *)
  mishaps,      (* what went wrong so far, see Mishap                      *)
  crashes       (* crashes so far                                          *)

vars == <<files, token, maker, proc, old, mishaps, crashes>>

-----------------------------------------------------------------------------
Names == {"dir", "heartbeat", "meta", "breaker"}

Exists(n) == files[n] # "gone"

\* A process died that owned the breaker; a breaker was removed as stale that a
\* live process had made meanwhile; the owner of the breaker judged a lock stale
\* that its holder was removing, its heartbeat gone before its meta.json.
Mishap == {"orphaned", "overtaken", "halfRemoved"}

Unharmed == "overtaken" \notin mishaps /\ "halfRemoved" \notin mishaps

Happened(mishap, so) == mishaps' = IF so THEN mishaps \cup {mishap} ELSE mishaps

\* An idle process; breaking: it looks as the owner of the breaker; made: it
\* made the lock directory.
Idle == [pc |-> "idle", breaking |-> FALSE, made |-> FALSE]

Init ==
  /\ files = [n \in Names |-> "gone"]
  /\ token = None
  /\ maker = [n \in {"dir", "breaker"} |-> None]
  /\ proc = [p \in Procs |-> Idle]
  /\ old = [p \in Procs |-> {}]
  /\ mishaps = {}
  /\ crashes = 0

Goto(p, pc) == proc' = [proc EXCEPT ![p].pc = pc]

\* isStale begins: its now is before whatever is written from here on.
Now(p) == old' = [old EXCEPT ![p] = {n \in Names : files[n] = "old"}]

Touched(names) == old' = [p \in Procs |-> old[p] \ names]

-----------------------------------------------------------------------------
(* Acquiring.                                                               *)

Begin(p) ==
  /\ proc[p].pc = "idle"
  /\ Goto(p, "mkdir")
  /\ UNCHANGED <<files, token, maker, old, mishaps, crashes>>

\* atomicMkdir of the lock, at first or in place of a stale one; made tells
\* whether it is ours.
MakeDir(p, then, otherwise) ==
  IF Exists("dir")
    THEN /\ Goto(p, otherwise)
         /\ IF otherwise = "statHeartbeat" THEN Now(p) ELSE UNCHANGED old
         /\ UNCHANGED <<files, maker>>
    ELSE /\ files' = [files EXCEPT !["dir"] = "fresh"]
         /\ Touched({"dir"})
         /\ maker' = [maker EXCEPT !["dir"] = p]
         /\ proc' = [proc EXCEPT ![p].pc = then, ![p].made = TRUE]

Mkdir(p) ==
  /\ proc[p].pc = "mkdir"
  /\ MakeDir(p, "writeHeartbeat", "statHeartbeat")
  /\ UNCHANGED <<token, mishaps, crashes>>

\* Where isStale's verdict leads: to the breaker, or with the breaker to the
\* removal; a lock that is not stale is left alone.
Judged(p, stale) ==
  CASE proc[p].breaking -> IF stale THEN "rmLock" ELSE "rmBreaker"
    [] OTHER            -> IF stale THEN "claim" ELSE "wait"

\* Who made the lock directory lives, and is removing it.
BeingReleased == \E q \in Procs : maker["dir"] = q /\ proc[q].pc = "rmRelease"

\* The first of the files that exists decides.
Look(p, n, next) ==
  IF Exists(n) \/ n = "dir"
    THEN LET stale == Exists(n) /\ n \in old[p]
         IN /\ Goto(p, Judged(p, stale))
            /\ old' = [old EXCEPT ![p] = {}]
            /\ Happened("halfRemoved", proc[p].breaking /\ stale /\ BeingReleased)
    ELSE /\ Goto(p, next)
         /\ UNCHANGED <<old, mishaps>>

\* isStale: the heartbeat decides, else meta.json, else the directory.
StatHeartbeat(p) ==
  /\ proc[p].pc = "statHeartbeat"
  /\ Look(p, "heartbeat", "statMeta")
  /\ UNCHANGED <<files, token, maker, crashes>>

StatMeta(p) ==
  /\ proc[p].pc = "statMeta"
  /\ Look(p, "meta", "statDir")
  /\ UNCHANGED <<files, token, maker, crashes>>

StatDir(p) ==
  /\ proc[p].pc = "statDir"
  /\ Look(p, "dir", "wait")
  /\ UNCHANGED <<files, token, maker, crashes>>

\* Who makes the breaker directory looks at the lock again.
Claim(p) ==
  /\ proc[p].pc = "claim"
  /\ IF Exists("breaker")
       THEN /\ Goto(p, "statBreaker")
            /\ UNCHANGED <<files, maker, old>>
       ELSE /\ files' = [files EXCEPT !["breaker"] = "fresh"]
            /\ maker' = [maker EXCEPT !["breaker"] = p]
            /\ proc' = [proc EXCEPT ![p].pc = "statHeartbeat", ![p].breaking = TRUE]
            /\ Now(p)
  /\ UNCHANGED <<token, mishaps, crashes>>

\* Faulty variants of StatBreaker: a breaker stays, or goes, whatever its age.
StatBreakerKeeps(p) ==
  /\ proc[p].pc = "statBreaker"
  /\ Goto(p, "wait")
  /\ UNCHANGED <<files, token, maker, old, mishaps, crashes>>

StatBreakerTakes(p) ==
  /\ proc[p].pc = "statBreaker"
  /\ Goto(p, "rmBreaker")
  /\ UNCHANGED <<files, token, maker, old, mishaps, crashes>>

\* cleanStaleBreaker: a breaker that was left behind is removed; either way the
\* attempt is over.
StatBreaker(p) ==
  /\ proc[p].pc = "statBreaker"
  /\ Goto(p, IF files["breaker"] = "old" THEN "rmBreaker" ELSE "wait")
  /\ UNCHANGED <<files, token, maker, old, mishaps, crashes>>

\* The removal of the breaker, of a stale one (by then it may be another) or,
\* whatever came of it, of one's own: who made the lock goes on.
RmBreaker(p) ==
  /\ proc[p].pc = "rmBreaker"
  /\ files' = [files EXCEPT !["breaker"] = "gone"]
  /\ maker' = [maker EXCEPT !["breaker"] = None]
  /\ proc' = [proc EXCEPT ![p].pc = IF proc[p].made THEN "writeHeartbeat" ELSE "wait",
                          ![p].breaking = FALSE]
  /\ Happened("overtaken", maker["breaker"] \notin {p, None})
  /\ UNCHANGED <<token, old, crashes>>

-----------------------------------------------------------------------------
(* rm -r of the lock directory (external): its entries, then the directory. *)

Entries == {n \in {"heartbeat", "meta"} : Exists(n)}

Remove(p, then) ==
  \/ /\ Entries = {}
     /\ files' = [files EXCEPT !["dir"] = "gone"]
     /\ maker' = [maker EXCEPT !["dir"] = None]
     /\ proc' = [proc EXCEPT ![p] = then]
     /\ UNCHANGED <<token, old>>
  \/ /\ \E n \in Entries :
          /\ files' = [files EXCEPT ![n] = "gone", !["dir"] = "fresh"]
          /\ token' = IF n = "meta" THEN None ELSE token
     /\ Touched({"dir"})
     /\ UNCHANGED <<maker, proc>>

\* The owner of the breaker removes the lock and makes it anew.
RmLock(p) ==
  /\ proc[p].pc = "rmLock"
  /\ Remove(p, [proc[p] EXCEPT !.pc = "remake"])
  /\ UNCHANGED <<mishaps, crashes>>

Remake(p) ==
  /\ proc[p].pc = "remake"
  /\ MakeDir(p, "rmBreaker", "rmBreaker")
  /\ UNCHANGED <<token, mishaps, crashes>>

\* exclusiveWrite: the entry must not be there, the directory must.
Writable(n) == Exists("dir") /\ ~Exists(n)

Write(p, n, then) ==
  /\ files' = IF Writable(n) THEN [files EXCEPT ![n] = "fresh", !["dir"] = "fresh"] ELSE files
  /\ IF Writable(n) THEN Touched({n, "dir"}) ELSE UNCHANGED old
  /\ Goto(p, IF Writable(n) THEN then ELSE "rmCompromised")

WriteHeartbeat(p) ==
  /\ proc[p].pc = "writeHeartbeat"
  /\ Write(p, "heartbeat", "writeMeta")
  /\ UNCHANGED <<token, maker, mishaps, crashes>>

WriteMeta(p) ==
  /\ proc[p].pc = "writeMeta"
  /\ Write(p, "meta", "held")
  /\ token' = IF Writable("meta") THEN p ELSE token
  /\ UNCHANGED <<maker, mishaps, crashes>>

\* NotAcquired: another attempt, or LockTimeoutError.
Retry(p) ==
  /\ proc[p].pc = "wait"
  /\ Goto(p, "mkdir")
  /\ UNCHANGED <<files, token, maker, old, mishaps, crashes>>

Timeout(p) ==
  /\ proc[p].pc = "wait"
  /\ proc' = [proc EXCEPT ![p] = Idle]
  /\ UNCHANGED <<files, token, maker, old, mishaps, crashes>>

-----------------------------------------------------------------------------
(* Holding and releasing.                                                   *)

\* Faulty variant of Beat: nobody touches the heartbeat.
NoBeat(p) == FALSE

\* The heartbeat fiber; once the lock is being released it is interrupted.
Beat(p) == proc[p].pc \in {"writeMeta", "held", "readMeta", "rmRelease"}

\* The body is over.
Release(p) ==
  /\ proc[p].pc = "held"
  /\ Goto(p, "readMeta")
  /\ UNCHANGED <<files, token, maker, old, mishaps, crashes>>

\* The lock is removed if meta.json is there with our token; else release dies.
ReadMeta(p) ==
  /\ proc[p].pc = "readMeta"
  /\ proc' = [proc EXCEPT ![p] =
        IF Exists("meta") /\ token = p THEN [@ EXCEPT !.pc = "rmRelease"] ELSE Idle]
  /\ UNCHANGED <<files, token, maker, old, mishaps, crashes>>

\* The removal on release, or after a write that found an entry there already:
\* that attempt fails.
RmRelease(p) ==
  /\ proc[p].pc \in {"rmRelease", "rmCompromised"}
  /\ Remove(p, Idle)
  /\ UNCHANGED <<mishaps, crashes>>

-----------------------------------------------------------------------------
(* Time and crashes.                                                        *)

\* A heartbeat ages when nobody touches it, the rest when its maker is dead or,
\* the lock, held for long: nobody touches meta.json or the directory then.
MayAge(n) ==
  CASE n = "heartbeat" -> \A p \in Procs : ~Beat(p)
    [] n = "breaker"   -> maker["breaker"] = None
    [] OTHER           -> \A p \in Procs : maker["dir"] = p => proc[p].pc = "held"

Age(n) ==
  /\ files[n] = "fresh"
  /\ MayAge(n)
  /\ files' = [files EXCEPT ![n] = "old"]
  /\ UNCHANGED <<token, maker, proc, old, mishaps, crashes>>

\* A process dies, and may come back as another.
Crash(p) ==
  /\ proc[p].pc # "idle"
  /\ crashes < MaxCrashes
  /\ crashes' = crashes + 1
  /\ proc' = [proc EXCEPT ![p] = Idle]
  /\ token' = IF token = p THEN None ELSE token
  /\ old' = [old EXCEPT ![p] = {}]
  /\ maker' = [n \in DOMAIN maker |-> IF maker[n] = p THEN None ELSE maker[n]]
  /\ Happened("orphaned", proc[p].breaking)
  /\ UNCHANGED files

\* What a process does by itself, its body apart.
Step(p) ==
  \/ Mkdir(p)
  \/ StatHeartbeat(p)
  \/ StatMeta(p)
  \/ StatDir(p)
  \/ Claim(p)
  \/ StatBreaker(p)
  \/ RmBreaker(p)
  \/ RmLock(p)
  \/ Remake(p)
  \/ WriteHeartbeat(p)
  \/ WriteMeta(p)
  \/ Retry(p)
  \/ ReadMeta(p)
  \/ RmRelease(p)

Next ==
  \/ \E p \in Procs : Begin(p) \/ Step(p) \/ Timeout(p) \/ Release(p) \/ Crash(p)
  \/ \E n \in Names : Age(n)

Spec == Init /\ [][Next]_vars

\* Processes run and time passes; nobody has to take the lock or to let it go.
FairSpec ==
  /\ Spec
  /\ \A p \in Procs : WF_vars(Step(p))
  /\ \A n \in Names : WF_vars(Age(n))

-----------------------------------------------------------------------------
(* Properties.                                                              *)

Places == {"idle", "mkdir", "statHeartbeat", "statMeta", "statDir", "claim", "statBreaker",
           "rmBreaker", "rmLock", "remake", "writeHeartbeat", "writeMeta", "rmCompromised",
           "wait", "held", "readMeta", "rmRelease"}

\* Types; a directory that is gone has no entries.
TypeOK ==
  /\ files \in [Names -> {"gone", "fresh", "old"}]
  /\ token \in Procs \cup {None}
  /\ maker \in [{"dir", "breaker"} -> Procs \cup {None}]
  /\ proc \in [Procs -> [pc : Places, breaking : BOOLEAN, made : BOOLEAN]]
  /\ old \in [Procs -> SUBSET Names]
  /\ mishaps \subseteq Mishap
  /\ crashes \in 0..MaxCrashes
  /\ ~Exists("dir") => ~Exists("heartbeat") /\ ~Exists("meta")
  /\ ~Exists("meta") => token = None

\* "enforces mutual exclusion under process contention", also after an owner
\* crashed and several processes find its lock stale.
MutualExclusion ==
  \A p, q \in Procs : proc[p].pc = "held" /\ proc[q].pc = "held" => p = q

\* A holder has its lock, with its own token in it, until it releases it, however
\* long it stays and whoever dies where: no other's cleanup or release takes it
\* away, except in the two races of the code that Mishap names (the slow removal
\* of a stale breaker, and the look at a lock that is being released).
HeldLockIsIntact ==
  Unharmed =>
    \A p \in Procs :
      proc[p].pc \in {"held", "readMeta"} =>
        /\ token = p
        /\ Exists("heartbeat")

\* Nobody removes the breaker of a live process, unless some owner of a breaker
\* has died before: its stale breaker is what the others are slow to remove.
LiveBreakerIsKept == "overtaken" \in mishaps => "orphaned" \in mishaps

\* "Breaker ownership ensures only one contender performs stale cleanup."
OneCleanup ==
  \A p, q \in Procs :
    proc[p].pc \in {"rmLock", "remake"} /\ proc[q].pc \in {"rmLock", "remake"} => p = q

\* "recovers after a crashed lock owner", "recovers from stale breaker": what
\* dead processes left behind, a lock at any stage of its making or removal or a
\* breaker, is cleared away while somebody waits for it.  (After a race that
\* Mishap names, attempts that find their lock compromised remove the next one's
\* in turn, and may do so for ever.)
LockIsRecovered ==
  (\E p \in Procs : proc[p].pc = "wait") ~>
    \/ \E p \in Procs : proc[p].pc = "held"
    \/ \A p \in Procs : proc[p].pc = "idle"
    \/ ~Unharmed

=============================================================================
