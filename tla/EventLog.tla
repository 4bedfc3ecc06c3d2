------------------------------ MODULE EventLog ------------------------------
(***************************************************************************)
(* The durable event log of packages/core/src/event.ts: one SQLite         *)
(* database holding, per aggregate, a row of event_sequence (the latest    *)
(* sequence number and the owner) and the rows of event.  Fibers publish   *)
(* local events, replay batches that another site recorded, claim and      *)
(* remove aggregates; readers follow an aggregate through the durable      *)
(* stream (history first, then re-reads prompted by wakes).                *)
(*                                                                         *)
(* Database.transaction is immediate, so one transaction is one action.    *)
(* What runs between transactions is not: the wakes of a commit, the       *)
(* events of a batch, a reader's registration, reads and deliveries are    *)
(* steps of their own.  The live (typed, all) streams are not here.        *)
(***************************************************************************)
EXTENDS Integers, FiniteSets, Sequences

CONSTANTS
  Aggregates,   (* aggregate ids                                           *)
  Owners,       (* owner ids a replayer may present or an aggregate have   *)
  NoOwner,      (* owner_id is null, or the replay names no owner          *)
  Ids,          (* event ids: bounds the number of events stored at once   *)
  Data,         (* encoded event payloads, with their versioned type       *)
  Fibers,       (* fibers that publish or replay                           *)
  Readers,      (* consumers of durable streams                            *)
  Follows,      (* the aggregate each reader asks for                      *)
  MaxSeq,       (* bound: largest sequence number in a replayed batch      *)
  MaxBatch,     (* bound: length of a replayed batch                       *)
  MaxRemoves    (* bound: removals of one aggregate                        *)

ASSUME EventLogAssumption ==
  /\ NoOwner \notin Owners
  /\ Follows \in [Readers -> Aggregates]
  /\ MaxSeq \in Nat
  /\ MaxBatch \in Nat
  /\ MaxRemoves \in Nat

VARIABLES
  seqRow,       (* event_sequence.seq, -1 when the aggregate has no row    *)
  ownerRow,     (* event_sequence.owner_id                                 *)
  rows,         (* the rows of event                                       *)
  removals,     (* how often each aggregate was removed                    *)
  fiber,        (* what each publishing or replaying fiber is doing        *)
  reader,       (* server side of each durable stream                      *)
  received      (* what each consumer has been given, over all its streams *)

logVars    == <<seqRow, ownerRow, rows, removals>>
readerVars == <<reader, received>>
vars       == <<seqRow, ownerRow, rows, removals, fiber, reader, received>>

-----------------------------------------------------------------------------
Event == [id : Ids, agg : Aggregates, seq : Nat, data : Data]

OwnerOrNone == Owners \cup {NoOwner}

RowsOf(a) == {r \in rows : r.agg = a}

\* A fiber is idle, has a batch left to replay, or has committed an event of
\* agg whose wakes are still to be published.
IdleFiber == [pc |-> "idle", agg |-> NoOwner, rest |-> <<>>,
              owner |-> NoOwner, strict |-> FALSE]

\* A stream that does not exist: no subscription, no cursor, nothing read.
OffStream == [phase |-> "off", cursor |-> -1, wake |-> FALSE, batch |-> {}]

Init ==
  /\ seqRow = [a \in Aggregates |-> -1]
  /\ ownerRow = [a \in Aggregates |-> NoOwner]
  /\ rows = {}
  /\ removals = [a \in Aggregates |-> 0]
  /\ fiber = [f \in Fibers |-> IdleFiber]
  /\ reader = [r \in Readers |-> OffStream]
  /\ received = [r \in Readers |-> <<>>]

-----------------------------------------------------------------------------
(* The verdicts of commitDurableEvent on a replayed event e.                *)

\* The aggregate belongs to somebody else than the replayer.
Fenced(a, o) == ownerRow[a] # NoOwner /\ ownerRow[a] # o

IdTaken(i) == \E r \in rows : r.id = i

\* The transaction dies: a strict replayer is fenced, a stored position holds
\* another event, the position leaves a gap, or the id is used elsewhere.
Dies(e, o, strict) ==
  \/ strict /\ Fenced(e.agg, o)
  \/ e.seq <= seqRow[e.agg] /\ e \notin rows
  \/ /\ e.seq > seqRow[e.agg]
     /\ ~Fenced(e.agg, o)
     /\ e.seq # seqRow[e.agg] + 1 \/ IdTaken(e.id)

\* The very event is stored at its position: nothing is appended.
Duplicate(e, o, strict) ==
  /\ ~(strict /\ Fenced(e.agg, o))
  /\ e.seq <= seqRow[e.agg]
  /\ e \in rows

\* A new event of a replayer that no longer owns the aggregate is dropped
\* without an error.
Ignored(e, o, strict) ==
  /\ ~strict
  /\ Fenced(e.agg, o)
  /\ e.seq > seqRow[e.agg]

\* Faulty variants of Accepted: a gap is let through, the id is not looked up.
AcceptedWithGap(e, o) ==
  ~Fenced(e.agg, o) /\ e.seq > seqRow[e.agg] /\ ~IdTaken(e.id)

AcceptedWithAnyId(e, o) ==
  ~Fenced(e.agg, o) /\ e.seq = seqRow[e.agg] + 1

Accepted(e, o) ==
  /\ ~Fenced(e.agg, o)
  /\ e.seq = seqRow[e.agg] + 1
  /\ ~IdTaken(e.id)

\* Faulty variant of Adopt: a replayer takes an owned aggregate over.
AdoptOwned(a, o) == IF o = NoOwner THEN ownerRow[a] ELSE o

\* The owner after a transaction of a replayer o: it adopts an unowned
\* aggregate.
Adopt(a, o) == IF ownerRow[a] = NoOwner THEN o ELSE ownerRow[a]

-----------------------------------------------------------------------------
(* Writers.                                                                 *)

\* publish: the transaction appends a fresh event after the latest, whoever
\* owns the aggregate.
Publish(f, a, i, d) ==
  /\ fiber[f].pc = "idle"
  /\ ~IdTaken(i)
  /\ seqRow' = [seqRow EXCEPT ![a] = @ + 1]
  /\ rows' = rows \cup {[id |-> i, agg |-> a, seq |-> seqRow[a] + 1, data |-> d]}
  /\ fiber' = [fiber EXCEPT ![f].pc = "wake", ![f].agg = a]
  /\ UNCHANGED <<ownerRow, removals, reader, received>>

\* What replayAll accepts: one aggregate, consecutive positions.
WellFormed(b) ==
  \A k \in DOMAIN b : b[k].agg = b[1].agg /\ b[k].seq = b[1].seq + k - 1

ReplayAll(f, b, o, strict) ==
  /\ fiber[f].pc = "idle"
  /\ WellFormed(b)
  /\ fiber' = [fiber EXCEPT ![f] =
        [pc |-> "replay", agg |-> b[1].agg, rest |-> b, owner |-> o, strict |-> strict]]
  /\ UNCHANGED <<logVars, readerVars>>

\* What is left of a fiber once the head of its batch is dealt with.
Advance(fb) ==
  IF Len(fb.rest) > 1 THEN [fb EXCEPT !.pc = "replay", !.rest = Tail(@)] ELSE IdleFiber

\* The head of a batch is appended; the rest waits for its wakes.
ReplayAccepted(f) ==
  LET e == Head(fiber[f].rest)
      o == fiber[f].owner
  IN /\ fiber[f].pc = "replay"
     /\ Accepted(e, o)
     /\ seqRow' = [seqRow EXCEPT ![e.agg] = e.seq]
     /\ ownerRow' = [ownerRow EXCEPT ![e.agg] = Adopt(e.agg, o)]
     /\ rows' = rows \cup {e}
     /\ fiber' = [fiber EXCEPT ![f].pc = "wake"]
     /\ UNCHANGED <<removals, reader, received>>

ReplayDuplicate(f) ==
  LET e == Head(fiber[f].rest)
      o == fiber[f].owner
  IN /\ fiber[f].pc = "replay"
     /\ Duplicate(e, o, fiber[f].strict)
     /\ ownerRow' = [ownerRow EXCEPT ![e.agg] = Adopt(e.agg, o)]
     /\ fiber' = [fiber EXCEPT ![f] = Advance(@)]
     /\ UNCHANGED <<seqRow, rows, removals, reader, received>>

ReplayIgnored(f) ==
  /\ fiber[f].pc = "replay"
  /\ Ignored(Head(fiber[f].rest), fiber[f].owner, fiber[f].strict)
  /\ fiber' = [fiber EXCEPT ![f] = Advance(@)]
  /\ UNCHANGED <<logVars, readerVars>>

\* The transaction rolls back and the rest of the batch is abandoned: what the
\* batch appended before stays.
ReplayDies(f) ==
  /\ fiber[f].pc = "replay"
  /\ Dies(Head(fiber[f].rest), fiber[f].owner, fiber[f].strict)
  /\ fiber' = [fiber EXCEPT ![f] = IdleFiber]
  /\ UNCHANGED <<logVars, readerVars>>

\* A batch can be interrupted between two events, not between a commit and its
\* wakes: those are one uninterruptible region.
Interrupt(f) ==
  /\ fiber[f].pc = "replay"
  /\ fiber' = [fiber EXCEPT ![f] = IdleFiber]
  /\ UNCHANGED <<logVars, readerVars>>

\* The wakes of a commit: each subscription of the aggregate keeps at most one
\* (a sliding PubSub of capacity 1).
Wake(f) ==
  /\ fiber[f].pc = "wake"
  /\ reader' = [r \in Readers |->
        IF reader[r].phase # "off" /\ Follows[r] = fiber[f].agg
          THEN [reader[r] EXCEPT !.wake = TRUE]
          ELSE reader[r]]
  /\ fiber' = [fiber EXCEPT ![f] = Advance(@)]
  /\ UNCHANGED <<logVars, received>>

\* claim only updates an existing row.
Claim(a, o) ==
  /\ seqRow[a] # -1
  /\ ownerRow' = [ownerRow EXCEPT ![a] = o]
  /\ UNCHANGED <<seqRow, rows, removals, fiber, reader, received>>

\* remove forgets the aggregate, its owner and its numbering.
Remove(a) ==
  /\ seqRow[a] # -1
  /\ removals[a] < MaxRemoves
  /\ seqRow' = [seqRow EXCEPT ![a] = -1]
  /\ ownerRow' = [ownerRow EXCEPT ![a] = NoOwner]
  /\ rows' = rows \ RowsOf(a)
  /\ removals' = [removals EXCEPT ![a] = @ + 1]
  /\ UNCHANGED <<fiber, reader, received>>

-----------------------------------------------------------------------------
(* Readers.                                                                 *)

\* Faulty variant of Resume: the consumer starts over.
ResumeFromStart(r) == -1

\* Where a consumer resumes: after the last event it was given.
Resume(r) == IF received[r] = <<>> THEN -1 ELSE received[r][Len(received[r])].seq

\* durable: the wake subscription is registered before history is read.
Attach(r) ==
  /\ reader[r].phase = "off"
  /\ reader' = [reader EXCEPT ![r] =
        [phase |-> "history", cursor |-> Resume(r), wake |-> FALSE, batch |-> {}]]
  /\ UNCHANGED <<logVars, fiber, received>>

\* readAfter: the rows after the cursor, which moves to the last of them.
RowsAfter(a, n) == {e \in RowsOf(a) : e.seq > n}

LastSeq(batch, n) ==
  IF batch = {} THEN n ELSE (CHOOSE e \in batch : \A x \in batch : x.seq <= e.seq).seq

ReadRows(r) ==
  LET found == RowsAfter(Follows[r], reader[r].cursor)
  IN /\ reader[r].phase \in {"history", "reread"}
     /\ reader' = [reader EXCEPT ![r].phase = "tail",
                                 ![r].cursor = LastSeq(found, @),
                                 ![r].batch = found]
     /\ UNCHANGED <<logVars, fiber, received>>

\* Faulty variant of Deliver: wakes that come while delivering are dropped.
DeliverDroppingWakes(r) ==
  /\ reader[r].phase = "tail"
  /\ \E e \in reader[r].batch :
       /\ \A x \in reader[r].batch : e.seq <= x.seq
       /\ reader' = [reader EXCEPT ![r].batch = @ \ {e}, ![r].wake = FALSE]
       /\ received' = [received EXCEPT ![r] = Append(@, e)]
  /\ UNCHANGED <<logVars, fiber>>

\* The next row of the batch, in ascending order, reaches the consumer.
Deliver(r) ==
  /\ reader[r].phase = "tail"
  /\ \E e \in reader[r].batch :
       /\ \A x \in reader[r].batch : e.seq <= x.seq
       /\ reader' = [reader EXCEPT ![r].batch = @ \ {e}]
       /\ received' = [received EXCEPT ![r] = Append(@, e)]
  /\ UNCHANGED <<logVars, fiber>>

\* With the batch drained the stream takes the pending wake, and reads again.
TakeWake(r) ==
  /\ reader[r].phase = "tail"
  /\ reader[r].batch = {}
  /\ reader[r].wake
  /\ reader' = [reader EXCEPT ![r].phase = "reread", ![r].wake = FALSE]
  /\ UNCHANGED <<logVars, fiber, received>>

\* The consumer goes away: the subscription and what was read are dropped.
Detach(r) ==
  /\ reader[r].phase # "off"
  /\ reader' = [reader EXCEPT ![r] = OffStream]
  /\ UNCHANGED <<logVars, fiber, received>>

-----------------------------------------------------------------------------
\* The process stops: fibers and streams are gone, the database is not.
Crash ==
  /\ fiber' = [f \in Fibers |-> IdleFiber]
  /\ reader' = [r \in Readers |-> OffStream]
  /\ UNCHANGED <<logVars, received>>

\* Batches as other sites send them, up to the bounds MaxSeq and MaxBatch: a
\* site stores no id twice.
SomeBatches ==
  {[k \in 1..n |-> [id |-> ids[k], agg |-> a, seq |-> s + k - 1, data |-> d]] :
     n \in 1..MaxBatch, a \in Aggregates, s \in 0..MaxSeq, d \in Data,
     ids \in {f \in [1..MaxBatch -> Ids] : \A j, k \in 1..MaxBatch : f[j] = f[k] => j = k}}

Writes(f) ==
  \/ \E a \in Aggregates, i \in Ids, d \in Data : Publish(f, a, i, d)
  \/ \E b \in SomeBatches, o \in OwnerOrNone, s \in BOOLEAN : ReplayAll(f, b, o, s)
  \/ ReplayAccepted(f)
  \/ ReplayDuplicate(f)
  \/ ReplayIgnored(f)
  \/ ReplayDies(f)
  \/ Interrupt(f)
  \/ Wake(f)

Reads(r) ==
  \/ Attach(r)
  \/ ReadRows(r)
  \/ Deliver(r)
  \/ TakeWake(r)
  \/ Detach(r)

Next ==
  \/ \E f \in Fibers : Writes(f)
  \/ \E r \in Readers : Reads(r)
  \/ \E a \in Aggregates, o \in Owners : Claim(a, o)
  \/ \E a \in Aggregates : Remove(a)
  \/ Crash

\* A committed event gets its wakes, and an open stream keeps reading; nobody
\* has to publish, attach or stay.
Fairness ==
  /\ \A f \in Fibers : WF_vars(Wake(f))
  /\ \A r \in Readers :
       WF_vars(ReadRows(r)) /\ WF_vars(Deliver(r)) /\ WF_vars(TakeWake(r))

Spec == Init /\ [][Next]_vars

FairSpec == Spec /\ Fairness

-----------------------------------------------------------------------------
(* Properties.                                                              *)

FiberState == [pc : {"idle", "replay", "wake"}, agg : Aggregates \cup {NoOwner},
               rest : Seq(Event), owner : OwnerOrNone, strict : BOOLEAN]

StreamState == [phase : {"off", "history", "tail", "reread"}, cursor : Int,
                wake : BOOLEAN, batch : SUBSET Event]

\* Types: latest numbers, owners, stored events, fibers and streams range over
\* what event.ts and event/sql.ts declare.
TypeOK ==
  /\ seqRow \in [Aggregates -> Int]
  /\ ownerRow \in [Aggregates -> OwnerOrNone]
  /\ rows \in SUBSET Event
  /\ removals \in [Aggregates -> Nat]
  /\ fiber \in [Fibers -> FiberState]
  /\ reader \in [Readers -> StreamState]
  /\ received \in [Readers -> Seq(Event)]

\* The two tables agree whatever is published, replayed in part, fenced or
\* removed: an aggregate whose row says n stores exactly the positions 0..n,
\* one event each (event.ts reads only event_sequence to number the next).
LogContiguous ==
  \A a \in Aggregates :
    /\ seqRow[a] >= -1
    /\ {e.seq : e \in RowsOf(a)} = 0..seqRow[a]
    /\ \A d, e \in RowsOf(a) : d.seq = e.seq => d = e

\* No event id is stored twice, in one aggregate or in two.
IdsUnique == \A d, e \in rows : d.id = e.id => d = e

\* A position once written never changes: the stored events of an aggregate
\* only grow, until the aggregate as a whole is removed.
HistoryNeverRewritten ==
  [][\A a \in Aggregates :
       RowsOf(a) \subseteq rows' \/ (Remove(a) /\ {e \in rows' : e.agg = a} = {})]_vars

\* "claim fences replay owners": an owner is displaced by a claim or a removal
\* only, never by a replayed event, be it a duplicate from another owner; and a
\* batch that appends does so for the owner the row then names, so events of a
\* site that lost the aggregate to another never get in, however the batch was
\* interleaved with the claim.
OwnershipFences ==
  [][\A a \in Aggregates :
       /\ ownerRow[a] \in Owners /\ ownerRow'[a] # ownerRow[a]
            => Remove(a) \/ \E o \in Owners : Claim(a, o)
       /\ \A f \in Fibers :
            fiber[f].pc = "replay" /\ fiber'[f].pc = "wake" /\ fiber[f].agg = a
              => ownerRow'[a] = fiber[f].owner]_vars

\* An idle stream is behind the log only while a wake is on its way to it: the
\* commit between the historical read and the tail cannot be missed.
NoMissedWake ==
  \A r \in Readers :
    /\ reader[r].phase = "tail"
    /\ reader[r].cursor < seqRow[Follows[r]]
    => \/ reader[r].wake
       \/ \E f \in Fibers : fiber[f].pc = "wake" /\ fiber[f].agg = Follows[r]

\* A consumer that stays connected is given every committed event.
EveryEventDelivered ==
  \A r \in Readers : \A n \in 0..MaxSeq :
    (seqRow[Follows[r]] >= n /\ reader[r].phase # "off")
      ~> (Resume(r) >= n \/ reader[r].phase = "off" \/ removals[Follows[r]] > 0)

=============================================================================
