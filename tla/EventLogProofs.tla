--------------------------- MODULE EventLogProofs ---------------------------
(***************************************************************************)
(* Proofs about EventLog.tla, for any sets of aggregates, owners, ids,     *)
(* fibers and readers and any bounds, and that it implements AppendLog.tla *)
(* under the mapping of EventLogRefinement.tla.                            *)
(***************************************************************************)
EXTENDS EventLogRefinement, SequenceTheorems, TLAPS

\* The batch a fiber has left is about its aggregate, and is not used up.
BatchesFit ==
  \A f \in Fibers :
    /\ fiber[f].pc = "idle" => fiber[f] = IdleFiber
    /\ fiber[f].pc = "replay" => fiber[f].rest # <<>>
    /\ \A k \in 1..Len(fiber[f].rest) : fiber[f].rest[k].agg = fiber[f].agg
    /\ fiber[f].pc # "idle" => fiber[f].agg \in Aggregates

IInv ==
  /\ TypeOK
  /\ LogContiguous
  /\ IdsUnique
  /\ BatchesFit

-----------------------------------------------------------------------------
(* Sequences, batches and fibers.                                           *)

LEMMA IdleFiberType == IdleFiber \in FiberState
<1>1. <<>> \in Seq(Event)
  OBVIOUS
<1> QED BY <1>1 DEF IdleFiber, FiberState, OwnerOrNone

LEMMA OffStreamType == OffStream \in StreamState
BY DEF OffStream, StreamState

LEMMA BatchType ==
  ASSUME NEW b \in SomeBatches
  PROVE  /\ b \in Seq(Event)
         /\ Len(b) \in Nat \ {0}
         /\ DOMAIN b = 1..Len(b)
<1>1. PICK n \in 1..MaxBatch, a \in Aggregates, s \in 0..MaxSeq, d \in Data,
           ids \in [1..MaxBatch -> Ids] :
             b = [k \in 1..n |-> [id |-> ids[k], agg |-> a, seq |-> s + k - 1, data |-> d]]
  BY DEF SomeBatches
<1>2. MaxBatch \in Nat /\ MaxSeq \in Nat
  BY EventLogAssumption
<1>3. n \in Nat \ {0}
  BY <1>2
<1>4. \A k \in 1..n :
        [id |-> ids[k], agg |-> a, seq |-> s + k - 1, data |-> d] \in Event
  BY <1>2, <1>3 DEF Event
<1>5. b \in [1..n -> Event]
  BY <1>1, <1>4
<1>6. b \in Seq(Event) /\ Len(b) = n
  BY <1>3, <1>5
<1> QED BY <1>3, <1>5, <1>6

\* What a fiber does next keeps what is known of it.
LEMMA AdvanceFits ==
  ASSUME NEW fb \in FiberState,
         \A k \in 1..Len(fb.rest) : fb.rest[k].agg = fb.agg,
         fb.agg \in Aggregates
  PROVE  /\ Advance(fb) \in FiberState
         /\ Advance(fb).pc \in {"idle", "replay"}
         /\ Advance(fb).pc = "idle" => Advance(fb) = IdleFiber
         /\ Advance(fb).pc = "replay" => Advance(fb).rest # <<>>
         /\ \A k \in 1..Len(Advance(fb).rest) : Advance(fb).rest[k].agg = Advance(fb).agg
         /\ Advance(fb).pc # "idle" => Advance(fb).agg \in Aggregates
<1> DEFINE rest == fb.rest
           next == [fb EXCEPT !.pc = "replay", !.rest = Tail(rest)]
<1>1. rest \in Seq(Event)
  BY DEF FiberState
<1>2. CASE Len(rest) > 1
  <2>1. /\ Tail(rest) \in Seq(Event)
        /\ Tail(rest) # <<>>
        /\ Len(Tail(rest)) = Len(rest) - 1
        /\ \A k \in 1..Len(Tail(rest)) : Tail(rest)[k] = rest[k + 1]
    <3>1. rest \in Seq(Event) /\ rest # <<>> /\ Len(rest) \in Nat
      BY <1>1, <1>2, EmptySeq, LenProperties
    <3> HIDE DEF rest
    <3>2. /\ Tail(rest) \in Seq(Event)
          /\ Len(Tail(rest)) = Len(rest) - 1
          /\ \A k \in 1..Len(Tail(rest)) : Tail(rest)[k] = rest[k + 1]
      BY <3>1, HeadTailProperties
    <3>3. Len(Tail(rest)) # 0
      BY <3>1, <3>2, <1>2
    <3>4. Len(<<>>) = 0
      OBVIOUS
    <3>5. Tail(rest) # <<>>
      BY <3>3, <3>4, Zenon
    <3> QED BY <3>2, <3>5
  <2>2. Advance(fb) = next
    BY <1>2 DEF Advance
  <2>3. /\ next \in FiberState
        /\ next.pc = "replay"
        /\ next.rest = Tail(rest)
        /\ next.agg = fb.agg
    BY <2>1 DEF FiberState
  <2>4. \A k \in 1..Len(Tail(rest)) : Tail(rest)[k].agg = fb.agg
    <3> SUFFICES ASSUME NEW k \in 1..Len(Tail(rest)) PROVE Tail(rest)[k].agg = fb.agg
      OBVIOUS
    <3>1. k + 1 \in 1..Len(rest)
      BY <1>1, <2>1
    <3> QED BY <2>1, <3>1
  <2> HIDE DEF next, rest
  <2> QED BY <2>1, <2>2, <2>3, <2>4
<1>3. CASE ~(Len(rest) > 1)
  <2>1. Advance(fb) = IdleFiber
    BY <1>3 DEF Advance
  <2>2. IdleFiber.pc = "idle" /\ Len(IdleFiber.rest) = 0
    BY DEF IdleFiber
  <2> QED BY <2>1, <2>2, IdleFiberType
<1> QED BY <1>2, <1>3

\* The head of a batch that is being replayed.
LEMMA HeadFits ==
  ASSUME TypeOK, BatchesFit, NEW f \in Fibers, fiber[f].pc = "replay"
  PROVE  /\ fiber[f] \in FiberState
         /\ Head(fiber[f].rest) \in Event
         /\ Head(fiber[f].rest).agg = fiber[f].agg
         /\ fiber[f].agg \in Aggregates
         /\ fiber[f].owner \in OwnerOrNone
<1>1. fiber[f] \in FiberState /\ fiber[f].rest # <<>>
  BY DEF TypeOK, BatchesFit
<1>2. fiber[f].rest \in Seq(Event) /\ fiber[f].owner \in OwnerOrNone
  BY <1>1 DEF FiberState
<1>3. /\ Head(fiber[f].rest) = fiber[f].rest[1]
      /\ Head(fiber[f].rest) \in Event
      /\ 1 \in 1..Len(fiber[f].rest)
  BY <1>1, <1>2
<1> QED BY <1>1, <1>2, <1>3 DEF BatchesFit

-----------------------------------------------------------------------------
(* The log.                                                                 *)

\* Appending after the latest position keeps the tables in step.
LEMMA AppendKeepsLog ==
  ASSUME TypeOK, LogContiguous, NEW e \in Event,
         e.seq = seqRow[e.agg] + 1,
         seqRow' = [seqRow EXCEPT ![e.agg] = e.seq],
         rows' = rows \cup {e}
  PROVE  LogContiguous'
<1> DEFINE a == e.agg
<1>1. a \in Aggregates /\ e.seq \in Nat /\ seqRow[a] \in Int /\ seqRow[a] >= -1
  BY DEF Event, TypeOK, LogContiguous
<1>2. seqRow'[a] = seqRow[a] + 1 /\ \A b \in Aggregates : b # a => seqRow'[b] = seqRow[b]
  BY <1>1 DEF TypeOK
<1>3. RowsOf(a)' = RowsOf(a) \cup {e}
  BY DEF RowsOf
<1>4. \A b \in Aggregates : b # a => RowsOf(b)' = RowsOf(b)
  BY DEF RowsOf
<1>5. {d.seq : d \in RowsOf(a)} = 0..seqRow[a]
  BY <1>1 DEF LogContiguous
<1>6. {d.seq : d \in RowsOf(a)'} = 0..seqRow'[a]
  <2>1. {d.seq : d \in RowsOf(a)'} = {d.seq : d \in RowsOf(a)} \cup {e.seq}
    BY <1>3
  <2>2. 0..(seqRow[a] + 1) = (0..seqRow[a]) \cup {seqRow[a] + 1}
    BY <1>1
  <2> QED BY <1>2, <1>5, <2>1, <2>2
<1>7. \A d \in RowsOf(a) : d.seq # e.seq
  <2>1. \A d \in RowsOf(a) : d.seq \in 0..seqRow[a]
    BY <1>5
  <2> QED BY <1>1, <2>1
<1>8. \A d, x \in RowsOf(a)' : d.seq = x.seq => d = x
  BY <1>1, <1>3, <1>7 DEF LogContiguous
<1>9. seqRow'[a] >= -1
  BY <1>1, <1>2
<1> QED BY <1>1, <1>2, <1>4, <1>6, <1>8, <1>9 DEF LogContiguous

LEMMA AppendKeepsIds ==
  ASSUME IdsUnique, NEW e, ~IdTaken(e.id), rows' = rows \cup {e}
  PROVE  IdsUnique'
BY DEF IdsUnique, IdTaken

LEMMA RemoveKeepsLog ==
  ASSUME TypeOK, LogContiguous, NEW a \in Aggregates, Remove(a)
  PROVE  LogContiguous'
<1>1. /\ seqRow'[a] = -1
      /\ \A b \in Aggregates : b # a => seqRow'[b] = seqRow[b]
      /\ rows' = rows \ RowsOf(a)
  BY DEF Remove, TypeOK
<1>2. RowsOf(a)' = {}
  BY <1>1 DEF RowsOf
<1>3. \A b \in Aggregates : b # a => RowsOf(b)' = RowsOf(b)
  BY <1>1 DEF RowsOf
<1>4. {d.seq : d \in RowsOf(a)'} = 0..seqRow'[a]
  BY <1>1, <1>2
<1> QED BY <1>1, <1>2, <1>3, <1>4 DEF LogContiguous

LEMMA SameLog ==
  ASSUME LogContiguous, IdsUnique, seqRow' = seqRow, rows' = rows
  PROVE  LogContiguous' /\ IdsUnique'
BY DEF LogContiguous, IdsUnique, RowsOf

\* The last sequence of a batch that was read is a number: the rows after the
\* cursor end with the latest of the aggregate.
LEMMA LastSeqOfRows ==
  ASSUME TypeOK, LogContiguous, NEW a \in Aggregates, NEW n \in Int
  PROVE  /\ RowsAfter(a, n) \in SUBSET Event
         /\ RowsAfter(a, n) # {} => LastSeq(RowsAfter(a, n), n) = seqRow[a]
         /\ RowsAfter(a, n) = {} => LastSeq(RowsAfter(a, n), n) = n
         /\ LastSeq(RowsAfter(a, n), n) \in Int
<1> DEFINE found == RowsAfter(a, n)
           Latest(e) == \A x \in found : x.seq <= e.seq
<1>1. found \in SUBSET Event
  BY DEF RowsAfter, RowsOf, TypeOK
<1>2. seqRow[a] \in Int
  BY DEF TypeOK
<1>3. CASE found # {}
  <2>1. \A x \in RowsOf(a) : x.seq \in 0..seqRow[a]
    BY DEF LogContiguous
  <2>2. PICK x \in found : TRUE
    BY <1>3
  <2>3. x \in RowsOf(a) /\ x.seq > n
    BY <2>2 DEF RowsAfter
  <2>4. seqRow[a] \in {e.seq : e \in RowsOf(a)}
    BY <1>2, <2>1, <2>3 DEF LogContiguous
  <2>5. PICK m \in RowsOf(a) : m.seq = seqRow[a]
    BY <2>4
  <2>6. m \in found /\ Latest(m)
    BY <1>2, <2>1, <2>3, <2>5 DEF RowsAfter
  <2> DEFINE last == CHOOSE e \in found : Latest(e)
  <2>7. last \in found /\ Latest(last)
    BY <2>6
  <2>8. last.seq = seqRow[a]
    <3>1. last.seq \in 0..seqRow[a] /\ m.seq <= last.seq
      BY <2>1, <2>6, <2>7 DEF RowsAfter
    <3> QED BY <1>2, <2>5, <3>1
  <2>9. LastSeq(found, n) = last.seq
    BY <1>3 DEF LastSeq
  <2> QED BY <1>1, <1>2, <1>3, <2>8, <2>9
<1>4. CASE found = {}
  BY <1>1, <1>4 DEF LastSeq
<1> QED BY <1>3, <1>4
-----------------------------------------------------------------------------
(* Types.                                                                   *)

\* A step of one fiber that leaves it in a legal state.
LEMMA FiberType ==
  ASSUME TypeOK, NEW f \in Fibers, NEW st \in FiberState,
         fiber' = [fiber EXCEPT ![f] = st]
  PROVE  fiber' \in [Fibers -> FiberState]
BY DEF TypeOK

LEMMA ReaderType ==
  ASSUME TypeOK, NEW r \in Readers, NEW st \in StreamState,
         reader' = [reader EXCEPT ![r] = st]
  PROVE  reader' \in [Readers -> StreamState]
BY DEF TypeOK

LEMMA AdvanceTypes ==
  ASSUME TypeOK, BatchesFit, NEW f \in Fibers, fiber[f].pc # "idle"
  PROVE  Advance(fiber[f]) \in FiberState
<1>1. fiber[f] \in FiberState
  BY DEF TypeOK
<1> QED BY <1>1, AdvanceFits DEF BatchesFit

LEMMA WritesType ==
  ASSUME IInv, NEW f \in Fibers, Writes(f)
  PROVE  TypeOK'
<1> USE DEF IInv
<1>0. fiber[f] \in FiberState
  BY DEF TypeOK
<1>1. ASSUME NEW a \in Aggregates, NEW i \in Ids, NEW d \in Data, Publish(f, a, i, d)
      PROVE  TypeOK'
  <2> DEFINE e == [id |-> i, agg |-> a, seq |-> seqRow[a] + 1, data |-> d]
  <2>1. seqRow[a] \in Int /\ seqRow[a] >= -1
    BY DEF TypeOK, LogContiguous
  <2>2. e \in Event
    BY <2>1 DEF Event
  <2>3. rows' \in SUBSET Event
    BY <1>1, <2>2 DEF Publish, TypeOK
  <2>4. seqRow' \in [Aggregates -> Int]
    BY <1>1, <2>1 DEF Publish, TypeOK
  <2>5. fiber' \in [Fibers -> FiberState]
    BY <1>0, <1>1 DEF Publish, TypeOK, FiberState
  <2> QED BY <1>1, <2>3, <2>4, <2>5 DEF Publish, TypeOK
<1>2. ASSUME NEW b \in SomeBatches, NEW o \in OwnerOrNone, NEW strict \in BOOLEAN,
             ReplayAll(f, b, o, strict)
      PROVE  TypeOK'
  <2> DEFINE st == [pc |-> "replay", agg |-> b[1].agg, rest |-> b, owner |-> o,
                    strict |-> strict]
  <2>1. b \in Seq(Event) /\ b[1] \in Event
    BY BatchType
  <2>2. st \in FiberState
    BY <2>1 DEF FiberState, Event
  <2>3. fiber' = [fiber EXCEPT ![f] = st]
    BY <1>2 DEF ReplayAll
  <2>4. fiber' \in [Fibers -> FiberState]
    BY <2>2, <2>3, FiberType
  <2> QED BY <1>2, <2>4 DEF ReplayAll, TypeOK, logVars, readerVars
<1>3. CASE ReplayAccepted(f)
  <2> DEFINE e == Head(fiber[f].rest)
             o == fiber[f].owner
  <2>1. e \in Event /\ e.agg \in Aggregates /\ e.seq \in Nat /\ o \in OwnerOrNone
    BY <1>3, HeadFits DEF ReplayAccepted, Event
  <2>2. Adopt(e.agg, o) \in OwnerOrNone
    BY <2>1 DEF Adopt, TypeOK
  <2> HIDE DEF e, o
  <2>3. /\ seqRow' = [seqRow EXCEPT ![e.agg] = e.seq]
        /\ ownerRow' = [ownerRow EXCEPT ![e.agg] = Adopt(e.agg, o)]
        /\ rows' = rows \cup {e}
        /\ fiber' = [fiber EXCEPT ![f].pc = "wake"]
        /\ UNCHANGED <<removals, reader, received>>
    BY <1>3 DEF ReplayAccepted, e, o
  <2>4. fiber' \in [Fibers -> FiberState]
    BY <1>0, <2>3 DEF TypeOK, FiberState
  <2> QED BY <2>1, <2>2, <2>3, <2>4 DEF TypeOK
<1>4. CASE ReplayDuplicate(f)
  <2> DEFINE e == Head(fiber[f].rest)
             o == fiber[f].owner
  <2>1. e.agg \in Aggregates /\ o \in OwnerOrNone
    BY <1>4, HeadFits DEF ReplayDuplicate, Event
  <2>2. Adopt(e.agg, o) \in OwnerOrNone
    BY <2>1 DEF Adopt, TypeOK
  <2>3. fiber' = [fiber EXCEPT ![f] = Advance(fiber[f])]
    BY <1>4 DEF ReplayDuplicate
  <2>4. Advance(fiber[f]) \in FiberState
    BY <1>4, AdvanceTypes DEF ReplayDuplicate
  <2>5. fiber' \in [Fibers -> FiberState]
    BY <2>3, <2>4, FiberType
  <2>6. /\ ownerRow' = [ownerRow EXCEPT ![e.agg] = Adopt(e.agg, o)]
        /\ UNCHANGED <<seqRow, rows, removals, reader, received>>
    BY <1>4 DEF ReplayDuplicate
  <2> HIDE DEF e, o
  <2> QED BY <2>1, <2>2, <2>5, <2>6 DEF TypeOK
<1>5. CASE ReplayIgnored(f)
  <2>1. fiber' = [fiber EXCEPT ![f] = Advance(fiber[f])] /\ UNCHANGED <<logVars, readerVars>>
    BY <1>5 DEF ReplayIgnored
  <2>2. Advance(fiber[f]) \in FiberState
    BY <1>5, AdvanceTypes DEF ReplayIgnored
  <2> QED BY <2>1, <2>2, FiberType DEF TypeOK, logVars, readerVars
<1>6. CASE ReplayDies(f) \/ Interrupt(f)
  <2>1. fiber' = [fiber EXCEPT ![f] = IdleFiber] /\ UNCHANGED <<logVars, readerVars>>
    BY <1>6 DEF ReplayDies, Interrupt
  <2> QED BY <2>1, IdleFiberType, FiberType DEF TypeOK, logVars, readerVars
<1>7. CASE Wake(f)
  <2>1. fiber' = [fiber EXCEPT ![f] = Advance(fiber[f])] /\ UNCHANGED <<logVars, received>>
    BY <1>7 DEF Wake
  <2>2. Advance(fiber[f]) \in FiberState
    BY <1>7, AdvanceTypes DEF Wake
  <2>3. fiber' \in [Fibers -> FiberState]
    BY <2>1, <2>2, FiberType
  <2>4. reader' \in [Readers -> StreamState]
    BY <1>7 DEF Wake, TypeOK, StreamState
  <2> QED BY <2>1, <2>3, <2>4 DEF TypeOK, logVars
<1> QED BY <1>1, <1>2, <1>3, <1>4, <1>5, <1>6, <1>7 DEF Writes

LEMMA ReadsType ==
  ASSUME IInv, NEW r \in Readers, Reads(r)
  PROVE  TypeOK'
<1> USE DEF IInv
<1>0. reader[r] \in StreamState /\ received[r] \in Seq(Event)
  BY DEF TypeOK
<1>1. CASE Attach(r)
  <2> DEFINE st == [phase |-> "history", cursor |-> Resume(r), wake |-> FALSE, batch |-> {}]
  <2>1. received[r] # <<>> => received[r][Len(received[r])] \in Event
    <3>1. received[r] # <<>> => Len(received[r]) \in 1..Len(received[r])
      BY <1>0, EmptySeq
    <3> QED BY <1>0, <3>1, LenProperties
  <2>3. Resume(r) \in Int
    BY <2>1 DEF Resume, Event
  <2>4. st \in StreamState
    BY <2>3 DEF StreamState
  <2>5. reader' = [reader EXCEPT ![r] = st] /\ UNCHANGED <<logVars, fiber, received>>
    BY <1>1 DEF Attach
  <2> QED BY <2>4, <2>5, ReaderType DEF TypeOK, logVars
<1>2. CASE ReadRows(r)
  <2> DEFINE found == RowsAfter(Follows[r], reader[r].cursor)
  <2>1. Follows[r] \in Aggregates /\ reader[r].cursor \in Int
    BY <1>0, EventLogAssumption DEF StreamState
  <2>2. found \in SUBSET Event /\ LastSeq(found, reader[r].cursor) \in Int
    BY <2>1, LastSeqOfRows
  <2>3. /\ reader' = [reader EXCEPT ![r].phase = "tail",
                                    ![r].cursor = LastSeq(found, reader[r].cursor),
                                    ![r].batch = found]
        /\ UNCHANGED <<logVars, fiber, received>>
    BY <1>2, <2>1 DEF ReadRows
  <2> HIDE DEF found
  <2> QED BY <1>0, <2>2, <2>3 DEF TypeOK, StreamState, logVars
<1>3. CASE Deliver(r)
  <2>1. PICK e \in reader[r].batch :
          /\ reader' = [reader EXCEPT ![r].batch = reader[r].batch \ {e}]
          /\ received' = [received EXCEPT ![r] = Append(received[r], e)]
    BY <1>3 DEF Deliver
  <2>2. e \in Event
    BY <1>0 DEF StreamState
  <2>3. Append(received[r], e) \in Seq(Event)
    BY <1>0, <2>2
  <2>4. received' \in [Readers -> Seq(Event)]
    BY <2>1, <2>3 DEF TypeOK
  <2>5. reader' \in [Readers -> StreamState]
    BY <1>0, <2>1 DEF TypeOK, StreamState
  <2> QED BY <1>3, <2>4, <2>5 DEF Deliver, TypeOK, logVars
<1>4. CASE TakeWake(r)
  BY <1>0, <1>4 DEF TakeWake, TypeOK, StreamState, logVars
<1>5. CASE Detach(r)
  BY <1>5, OffStreamType, ReaderType DEF Detach, TypeOK, logVars
<1> QED BY <1>1, <1>2, <1>3, <1>4, <1>5 DEF Reads

LEMMA TypeStep ==
  ASSUME IInv, [Next]_vars
  PROVE  TypeOK'
<1> USE DEF IInv
<1>1. ASSUME NEW a \in Aggregates, NEW o \in Owners, Claim(a, o) PROVE TypeOK'
  BY <1>1 DEF Claim, TypeOK, OwnerOrNone
<1>2. ASSUME NEW a \in Aggregates, Remove(a) PROVE TypeOK'
  <2>1. seqRow' \in [Aggregates -> Int] /\ rows' \in SUBSET Event
    BY <1>2 DEF Remove, TypeOK
  <2>2. ownerRow' \in [Aggregates -> OwnerOrNone] /\ removals' \in [Aggregates -> Nat]
    BY <1>2 DEF Remove, TypeOK, OwnerOrNone
  <2> QED BY <1>2, <2>1, <2>2 DEF Remove, TypeOK
<1>3. CASE Crash
  BY <1>3, IdleFiberType, OffStreamType DEF Crash, TypeOK, logVars
<1>4. CASE UNCHANGED vars
  BY <1>4 DEF vars, TypeOK
<1> QED BY <1>1, <1>2, <1>3, <1>4, WritesType, ReadsType DEF Next
-----------------------------------------------------------------------------
(* Batches.                                                                 *)

\* What BatchesFit says of one fiber.
FitsIn(st) ==
  /\ st.pc = "idle" => st = IdleFiber
  /\ st.pc = "replay" => st.rest # <<>>
  /\ \A k \in 1..Len(st.rest) : st.rest[k].agg = st.agg
  /\ st.pc # "idle" => st.agg \in Aggregates

LEMMA IdleFits == FitsIn(IdleFiber)
<1>1. IdleFiber.rest = <<>> /\ IdleFiber.pc = "idle"
  BY DEF IdleFiber
<1>2. Len(IdleFiber.rest) = 0
  BY <1>1
<1> QED BY <1>1, <1>2 DEF FitsIn

LEMMA OneFiberFits ==
  ASSUME TypeOK, BatchesFit, NEW f \in Fibers, NEW st, FitsIn(st),
         fiber' = [fiber EXCEPT ![f] = st]
  PROVE  BatchesFit'
<1>1. \A g \in Fibers : fiber'[g] = IF g = f THEN st ELSE fiber[g]
  BY DEF TypeOK
<1>2. \A g \in Fibers : FitsIn(fiber[g])
  BY DEF BatchesFit, FitsIn
<1>3. \A g \in Fibers : FitsIn(fiber'[g])
  BY <1>1, <1>2
<1> QED BY <1>3 DEF BatchesFit, FitsIn

LEMMA AdvancedFits ==
  ASSUME TypeOK, BatchesFit, NEW f \in Fibers, fiber[f].pc # "idle"
  PROVE  FitsIn(Advance(fiber[f]))
<1>1. fiber[f] \in FiberState
  BY DEF TypeOK
<1> QED BY <1>1, AdvanceFits DEF BatchesFit, FitsIn

LEMMA WritesFit ==
  ASSUME TypeOK, BatchesFit, NEW f \in Fibers, Writes(f)
  PROVE  BatchesFit'
<1>0. fiber[f] \in FiberState
  BY DEF TypeOK
<1>1. ASSUME NEW a \in Aggregates, NEW i \in Ids, NEW d \in Data, Publish(f, a, i, d)
      PROVE  BatchesFit'
  <2> DEFINE st == [fiber[f] EXCEPT !.pc = "wake", !.agg = a]
  <2>1. fiber' = [fiber EXCEPT ![f] = st]
    BY <1>1 DEF Publish, TypeOK
  <2>2. fiber[f] = IdleFiber
    BY <1>1 DEF Publish, BatchesFit
  <2>3. st.pc = "wake" /\ st.agg = a /\ st.rest = <<>>
    BY <2>2 DEF IdleFiber
  <2>4. Len(st.rest) = 0
    BY <2>3
  <2>5. FitsIn(st)
    BY <2>3, <2>4 DEF FitsIn
  <2> QED BY <2>1, <2>5, OneFiberFits
<1>2. ASSUME NEW b \in SomeBatches, NEW o \in OwnerOrNone, NEW strict \in BOOLEAN,
             ReplayAll(f, b, o, strict)
      PROVE  BatchesFit'
  <2> DEFINE st == [pc |-> "replay", agg |-> b[1].agg, rest |-> b, owner |-> o,
                    strict |-> strict]
  <2>1. b \in Seq(Event) /\ Len(b) \in Nat \ {0} /\ DOMAIN b = 1..Len(b)
    BY BatchType
  <2>2. b # <<>> /\ b[1] \in Event
    BY <2>1, EmptySeq
  <2>3. b[1].agg \in Aggregates
    BY <2>2 DEF Event
  <2>4. \A k \in 1..Len(b) : b[k].agg = b[1].agg
    BY <1>2, <2>1 DEF ReplayAll, WellFormed
  <2>5. FitsIn(st)
    BY <2>2, <2>3, <2>4 DEF FitsIn
  <2>6. fiber' = [fiber EXCEPT ![f] = st]
    BY <1>2 DEF ReplayAll
  <2> QED BY <2>5, <2>6, OneFiberFits
<1>3. CASE ReplayAccepted(f)
  <2> DEFINE st == [fiber[f] EXCEPT !.pc = "wake"]
  <2>1. fiber' = [fiber EXCEPT ![f] = st] /\ fiber[f].pc = "replay"
    BY <1>3 DEF ReplayAccepted, TypeOK
  <2>2. st.pc = "wake" /\ st.agg = fiber[f].agg /\ st.rest = fiber[f].rest
    BY <1>0 DEF FiberState
  <2>3. FitsIn(fiber[f])
    BY DEF BatchesFit, FitsIn
  <2>4. FitsIn(st)
    BY <2>1, <2>2, <2>3 DEF FitsIn
  <2> QED BY <2>1, <2>4, OneFiberFits
<1>4. CASE ReplayDuplicate(f) \/ ReplayIgnored(f) \/ Wake(f)
  <2>1. fiber' = [fiber EXCEPT ![f] = Advance(fiber[f])] /\ fiber[f].pc # "idle"
    BY <1>4 DEF ReplayDuplicate, ReplayIgnored, Wake
  <2>2. FitsIn(Advance(fiber[f]))
    BY <2>1, AdvancedFits
  <2> QED BY <2>1, <2>2, OneFiberFits
<1>5. CASE ReplayDies(f) \/ Interrupt(f)
  <2>1. fiber' = [fiber EXCEPT ![f] = IdleFiber]
    BY <1>5 DEF ReplayDies, Interrupt
  <2> QED BY <2>1, IdleFits, OneFiberFits
<1> QED BY <1>1, <1>2, <1>3, <1>4, <1>5 DEF Writes

LEMMA FitStep ==
  ASSUME TypeOK, BatchesFit, [Next]_vars
  PROVE  BatchesFit'
<1>1. CASE UNCHANGED fiber
  BY <1>1 DEF BatchesFit
<1>2. ASSUME NEW r \in Readers, Reads(r) PROVE UNCHANGED fiber
  BY <1>2 DEF Reads, Attach, ReadRows, Deliver, TakeWake, Detach
<1>3. ASSUME NEW a \in Aggregates, NEW o \in Owners, Claim(a, o) PROVE UNCHANGED fiber
  BY <1>3 DEF Claim
<1>4. ASSUME NEW a \in Aggregates, Remove(a) PROVE UNCHANGED fiber
  BY <1>4 DEF Remove
<1>5. CASE Crash
  <2>1. \A g \in Fibers : fiber'[g] = IdleFiber
    BY <1>5 DEF Crash
  <2>2. \A g \in Fibers : FitsIn(fiber'[g])
    BY <2>1, IdleFits
  <2> QED BY <2>2 DEF BatchesFit, FitsIn
<1>6. CASE UNCHANGED vars
  BY <1>1, <1>6 DEF vars
<1> QED BY <1>1, <1>2, <1>3, <1>4, <1>5, <1>6, WritesFit DEF Next

-----------------------------------------------------------------------------
(* The log's invariants.                                                    *)

\* A step changes the tables in one of three ways: not at all, by one event
\* after the latest, by forgetting an aggregate.
Appends(e) ==
  /\ e \in Event
  /\ e.seq = seqRow[e.agg] + 1
  /\ ~IdTaken(e.id)
  /\ seqRow' = [seqRow EXCEPT ![e.agg] = e.seq]
  /\ rows' = rows \cup {e}

LEMMA PublishAppends ==
  ASSUME TypeOK, LogContiguous, NEW f, NEW a \in Aggregates, NEW i \in Ids, NEW d \in Data,
         Publish(f, a, i, d)
  PROVE  \E e : Appends(e)
<1> DEFINE e == [id |-> i, agg |-> a, seq |-> seqRow[a] + 1, data |-> d]
<1>1. seqRow[a] \in Int /\ seqRow[a] >= -1
  BY DEF TypeOK, LogContiguous
<1>2. e \in Event
  BY <1>1 DEF Event
<1>3. Appends(e)
  BY <1>2 DEF Publish, Appends
<1> QED BY <1>3

LEMMA ReplayAppends ==
  ASSUME TypeOK, BatchesFit, NEW f \in Fibers, ReplayAccepted(f)
  PROVE  Appends(Head(fiber[f].rest))
BY HeadFits DEF ReplayAccepted, Accepted, Appends

LEMMA TablesStep ==
  ASSUME IInv, [Next]_vars
  PROVE  \/ UNCHANGED <<seqRow, rows>>
         \/ \E e : Appends(e)
         \/ \E a \in Aggregates : Remove(a)
<1> USE DEF IInv
<1>1. ASSUME NEW f \in Fibers, Writes(f)
      PROVE  UNCHANGED <<seqRow, rows>> \/ \E e : Appends(e)
  <2>1. CASE \E a \in Aggregates, i \in Ids, d \in Data : Publish(f, a, i, d)
    BY <2>1, PublishAppends
  <2>2. CASE ReplayAccepted(f)
    BY <2>2, ReplayAppends
  <2>3. CASE ReplayDuplicate(f) \/ ReplayIgnored(f) \/ ReplayDies(f) \/ Interrupt(f) \/ Wake(f)
    BY <2>3 DEF ReplayDuplicate, ReplayIgnored, ReplayDies, Interrupt, Wake, logVars
  <2>4. CASE \E b \in SomeBatches, o \in OwnerOrNone, s \in BOOLEAN : ReplayAll(f, b, o, s)
    BY <2>4 DEF ReplayAll, logVars
  <2> QED BY <1>1, <2>1, <2>2, <2>3, <2>4 DEF Writes
<1>2. ASSUME NEW r \in Readers, Reads(r) PROVE UNCHANGED <<seqRow, rows>>
  BY <1>2 DEF Reads, Attach, ReadRows, Deliver, TakeWake, Detach, logVars
<1>3. ASSUME NEW a \in Aggregates, NEW o \in Owners, Claim(a, o)
      PROVE  UNCHANGED <<seqRow, rows>>
  BY <1>3 DEF Claim
<1>4. CASE Crash \/ UNCHANGED vars
  BY <1>4 DEF Crash, vars, logVars
<1> QED BY <1>1, <1>2, <1>3, <1>4 DEF Next

LEMMA LogStep ==
  ASSUME IInv, [Next]_vars
  PROVE  LogContiguous' /\ IdsUnique'
<1> USE DEF IInv
<1>1. CASE UNCHANGED <<seqRow, rows>>
  BY <1>1, SameLog
<1>2. ASSUME NEW e, Appends(e) PROVE LogContiguous' /\ IdsUnique'
  BY <1>2, AppendKeepsLog, AppendKeepsIds DEF Appends
<1>3. ASSUME NEW a \in Aggregates, Remove(a) PROVE LogContiguous' /\ IdsUnique'
  <2>1. LogContiguous'
    BY <1>3, RemoveKeepsLog
  <2>2. IdsUnique'
    BY <1>3 DEF Remove, IdsUnique
  <2> QED BY <2>1, <2>2
<1> QED BY <1>1, <1>2, <1>3, TablesStep

LEMMA InitIInv == Init => IInv
<1> SUFFICES ASSUME Init PROVE IInv
  OBVIOUS
<1>1. <<>> \in Seq(Event)
  OBVIOUS
<1>2. TypeOK
  BY <1>1, IdleFiberType, OffStreamType DEF Init, TypeOK, OwnerOrNone
<1>3. LogContiguous /\ IdsUnique
  BY DEF Init, LogContiguous, IdsUnique, RowsOf
<1>4. BatchesFit
  BY IdleFits DEF Init, BatchesFit, FitsIn
<1> QED BY <1>2, <1>3, <1>4 DEF IInv

LEMMA NextIInv == IInv /\ [Next]_vars => IInv'
BY TypeStep, FitStep, LogStep DEF IInv

-----------------------------------------------------------------------------
(* Theorems.                                                                *)

\* The strengthened invariant holds in every reachable state.
THEOREM Inductive == Spec => []IInv
BY InitIInv, NextIInv, PTL DEF Spec

\* Every variable keeps the type that event.ts and event/sql.ts give it.
THEOREM TypeCorrect == Spec => []TypeOK
<1>1. IInv => TypeOK
  BY DEF IInv
<1> QED BY <1>1, Inductive, PTL

\* commitDurableEvent and remove keep event_sequence and event in step: every
\* aggregate stores each position up to its latest exactly once.
THEOREM LogIsContiguous == Spec => []LogContiguous
<1>1. IInv => LogContiguous
  BY DEF IInv
<1> QED BY <1>1, Inductive, PTL

\* No event id is stored twice.
THEOREM EventIdsUnique == Spec => []IdsUnique
<1>1. IInv => IdsUnique
  BY DEF IInv
<1> QED BY <1>1, Inductive, PTL

\* No step but the removal of an aggregate changes or drops a stored event.
THEOREM HistoryIsAppendOnly == Spec => HistoryNeverRewritten
<1>1. ASSUME IInv, [Next]_vars, NEW a \in Aggregates
      PROVE  RowsOf(a) \subseteq rows' \/ (Remove(a) /\ {e \in rows' : e.agg = a} = {})
  <2>1. CASE rows \subseteq rows'
    BY <2>1 DEF RowsOf
  <2>2. ASSUME NEW e, Appends(e) PROVE rows \subseteq rows'
    BY <2>2 DEF Appends
  <2>3. ASSUME NEW b \in Aggregates, Remove(b), b # a PROVE RowsOf(a) \subseteq rows'
    BY <2>3 DEF Remove, RowsOf
  <2>4. CASE Remove(a)
    BY <2>4 DEF Remove, RowsOf
  <2> QED BY <1>1, <2>1, <2>2, <2>3, <2>4, TablesStep
<1>2. IInv /\ [Next]_vars =>
        [\A a \in Aggregates :
           RowsOf(a) \subseteq rows' \/ (Remove(a) /\ {e \in rows' : e.agg = a} = {})]_vars
  BY <1>1
<1> QED BY <1>2, Inductive, PTL DEF Spec, HistoryNeverRewritten
\* The two parts of OwnershipFences for one aggregate.
Undisplaced(a) ==
  ownerRow[a] \in Owners /\ ownerRow'[a] # ownerRow[a]
    => Remove(a) \/ \E o \in Owners : Claim(a, o)

AppendedFor(a, f) ==
  fiber[f].pc = "replay" /\ fiber'[f].pc = "wake" /\ fiber[f].agg = a
    => ownerRow'[a] = fiber[f].owner

\* A replayed event that adopts or appends leaves an existing owner alone.
LEMMA AdoptKeepsOwner ==
  ASSUME TypeOK, NEW a \in Aggregates, NEW b, NEW o,
         ownerRow' = [ownerRow EXCEPT ![b] = Adopt(b, o)]
  PROVE  Undisplaced(a)
<1>1. ownerRow[a] \in Owners => ownerRow[a] # NoOwner
  BY EventLogAssumption
<1> QED BY <1>1 DEF Adopt, Undisplaced, TypeOK

LEMMA OwnerUndisplaced ==
  ASSUME TypeOK, [Next]_vars, NEW a \in Aggregates
  PROVE  Undisplaced(a)
<1>1. CASE UNCHANGED ownerRow
  BY <1>1 DEF Undisplaced
<1>2. ASSUME NEW f \in Fibers, Writes(f) PROVE Undisplaced(a)
  <2>1. CASE ReplayAccepted(f)
    BY <2>1, AdoptKeepsOwner DEF ReplayAccepted
  <2>2. CASE ReplayDuplicate(f)
    BY <2>2, AdoptKeepsOwner DEF ReplayDuplicate
  <2>3. CASE ReplayIgnored(f) \/ ReplayDies(f) \/ Interrupt(f) \/ Wake(f)
    BY <1>1, <2>3 DEF ReplayIgnored, ReplayDies, Interrupt, Wake, logVars
  <2>4. CASE \E i \in Ids, b \in Aggregates, d \in Data : Publish(f, b, i, d)
    BY <1>1, <2>4 DEF Publish
  <2>5. CASE \E b \in SomeBatches, o \in OwnerOrNone, s \in BOOLEAN : ReplayAll(f, b, o, s)
    BY <1>1, <2>5 DEF ReplayAll, logVars
  <2> QED BY <1>2, <2>1, <2>2, <2>3, <2>4, <2>5 DEF Writes
<1>3. ASSUME NEW r \in Readers, Reads(r) PROVE Undisplaced(a)
  BY <1>1, <1>3 DEF Reads, Attach, ReadRows, Deliver, TakeWake, Detach, logVars
<1>4. ASSUME NEW b \in Aggregates, NEW o \in Owners, Claim(b, o) PROVE Undisplaced(a)
  <2>1. CASE b = a
    BY <1>4, <2>1 DEF Undisplaced
  <2>2. CASE b # a
    BY <1>4, <2>2 DEF Claim, Undisplaced, TypeOK
  <2> QED BY <2>1, <2>2
<1>5. ASSUME NEW b \in Aggregates, Remove(b) PROVE Undisplaced(a)
  <2>1. CASE b = a
    BY <1>5, <2>1 DEF Undisplaced
  <2>2. CASE b # a
    BY <1>5, <2>2 DEF Remove, Undisplaced, TypeOK
  <2> QED BY <2>1, <2>2
<1>6. CASE Crash \/ UNCHANGED vars
  BY <1>1, <1>6 DEF Crash, vars, logVars
<1> QED BY <1>2, <1>3, <1>4, <1>5, <1>6 DEF Next

LEMMA AppendsForOwner ==
  ASSUME IInv, [Next]_vars, NEW a \in Aggregates, NEW f \in Fibers
  PROVE  AppendedFor(a, f)
<1> USE DEF IInv
<1>1. CASE fiber'[f].pc # "wake" \/ fiber[f].pc # "replay"
  BY <1>1 DEF AppendedFor
<1>2. CASE UNCHANGED fiber
  BY <1>2 DEF AppendedFor
<1>3. ASSUME NEW g \in Fibers, g # f, NEW st, fiber' = [fiber EXCEPT ![g] = st]
      PROVE  AppendedFor(a, f)
  BY <1>3 DEF AppendedFor, TypeOK
<1>4. ASSUME NEW g \in Fibers, g # f, Writes(g) PROVE \E st : fiber' = [fiber EXCEPT ![g] = st]
  BY <1>4 DEF Writes, Publish, ReplayAll, ReplayAccepted, ReplayDuplicate, ReplayIgnored,
              ReplayDies, Interrupt, Wake
<1>5. ASSUME Writes(f), fiber[f].pc = "replay" PROVE AppendedFor(a, f)
  <2>1. CASE ReplayAccepted(f)
    <3> DEFINE e == Head(fiber[f].rest)
               o == fiber[f].owner
    <3>1. e.agg = fiber[f].agg /\ e.agg \in Aggregates
      BY <2>1, HeadFits DEF ReplayAccepted
    <3>2. ownerRow' = [ownerRow EXCEPT ![e.agg] = Adopt(e.agg, o)] /\ ~Fenced(e.agg, o)
      BY <2>1 DEF ReplayAccepted, Accepted
    <3> HIDE DEF e, o
    <3>3. ownerRow'[e.agg] = o
      BY <3>1, <3>2 DEF Adopt, Fenced, TypeOK
    <3> QED BY <3>1, <3>3 DEF AppendedFor, o
  <2>2. CASE ReplayDuplicate(f) \/ ReplayIgnored(f)
    <3>1. fiber' = [fiber EXCEPT ![f] = Advance(fiber[f])]
      BY <2>2 DEF ReplayDuplicate, ReplayIgnored
    <3>2. fiber'[f] = Advance(fiber[f])
      BY <3>1 DEF TypeOK
    <3>3. fiber[f] \in FiberState
      BY DEF TypeOK
    <3>4. Advance(fiber[f]).pc # "wake"
      BY <1>5, <3>3, AdvanceFits DEF BatchesFit
    <3> QED BY <1>1, <3>2, <3>4
  <2>3. CASE ReplayDies(f) \/ Interrupt(f)
    <3>1. fiber'[f] = IdleFiber
      BY <2>3 DEF ReplayDies, Interrupt, TypeOK
    <3> QED BY <1>1, <3>1 DEF IdleFiber
  <2> QED BY <1>5, <2>1, <2>2, <2>3 DEF Writes, Publish, ReplayAll, Wake
<1>6. ASSUME NEW r \in Readers, Reads(r) PROVE UNCHANGED fiber
  BY <1>6 DEF Reads, Attach, ReadRows, Deliver, TakeWake, Detach
<1>7. ASSUME NEW b \in Aggregates, NEW o \in Owners, Claim(b, o) PROVE UNCHANGED fiber
  BY <1>7 DEF Claim
<1>8. ASSUME NEW b \in Aggregates, Remove(b) PROVE UNCHANGED fiber
  BY <1>8 DEF Remove
<1>9. CASE Crash
  BY <1>1, <1>9 DEF Crash, IdleFiber
<1>10. CASE UNCHANGED vars
  BY <1>2, <1>10 DEF vars
<1> QED BY <1>1, <1>2, <1>3, <1>4, <1>5, <1>6, <1>7, <1>8, <1>9, <1>10 DEF Next

\* "claim fences replay owners": a batch appends for the owner its aggregate
\* has, and only a claim or a removal displaces an owner.
THEOREM ClaimFencesReplay == Spec => OwnershipFences
<1>1. ASSUME IInv, [Next]_vars, NEW a \in Aggregates
      PROVE  Undisplaced(a) /\ \A f \in Fibers : AppendedFor(a, f)
  BY <1>1, OwnerUndisplaced, AppendsForOwner DEF IInv
<1>2. IInv /\ [Next]_vars =>
        [\A a \in Aggregates :
           /\ ownerRow[a] \in Owners /\ ownerRow'[a] # ownerRow[a]
                => Remove(a) \/ \E o \in Owners : Claim(a, o)
           /\ \A f \in Fibers :
                fiber[f].pc = "replay" /\ fiber'[f].pc = "wake" /\ fiber[f].agg = a
                  => ownerRow'[a] = fiber[f].owner]_vars
  BY <1>1 DEF Undisplaced, AppendedFor
<1> QED BY <1>2, Inductive, PTL DEF Spec, OwnershipFences
-----------------------------------------------------------------------------
(* Wakes.                                                                   *)

CursorsBounded == \A r \in Readers : reader[r].cursor >= -1

\* A wake for r is kept by its stream, or still to be published by a commit.
WakeComing(r) ==
  \/ reader[r].wake
  \/ \E f \in Fibers : fiber[f].pc = "wake" /\ fiber[f].agg = Follows[r]

Behind(r) == reader[r].phase = "tail" /\ reader[r].cursor < seqRow[Follows[r]]

WInv ==
  /\ IInv
  /\ CursorsBounded
  /\ NoMissedWake

LEMMA WakeInvariantParts ==
  NoMissedWake <=> \A r \in Readers : Behind(r) => WakeComing(r)
BY DEF NoMissedWake, Behind, WakeComing

\* A commit of a followed aggregate owes its streams a wake; no other step
\* of a fiber moves the log, and only Wake leaves "wake".
LEMMA CommitOwesWake ==
  ASSUME IInv, NEW f \in Fibers, Writes(f), ~Wake(f)
  PROVE  /\ \A g \in Fibers : fiber[g].pc = "wake" => fiber'[g] = fiber[g]
         /\ UNCHANGED reader
         /\ \A a \in Aggregates :
              seqRow'[a] # seqRow[a] => fiber'[f].pc = "wake" /\ fiber'[f].agg = a
<1> USE DEF IInv
<1>0. fiber[f] \in FiberState
  BY DEF TypeOK
<1>1. ASSUME NEW a \in Aggregates, NEW i \in Ids, NEW d \in Data, Publish(f, a, i, d)
      PROVE  fiber'[f].pc = "wake" /\ fiber'[f].agg = a
             /\ \A b \in Aggregates : b # a => seqRow'[b] = seqRow[b]
  BY <1>0, <1>1 DEF Publish, TypeOK, FiberState
<1>2. ASSUME ReplayAccepted(f)
      PROVE  fiber'[f].pc = "wake"
             /\ \A b \in Aggregates : b # fiber'[f].agg => seqRow'[b] = seqRow[b]
  <2>1. Head(fiber[f].rest).agg = fiber[f].agg
    BY <1>2, HeadFits DEF ReplayAccepted
  <2>2. fiber'[f].agg = fiber[f].agg /\ fiber'[f].pc = "wake"
    BY <1>0, <1>2 DEF ReplayAccepted, TypeOK, FiberState
  <2> QED BY <1>2, <2>1, <2>2 DEF ReplayAccepted, TypeOK
<1>3. \A a \in Aggregates :
        seqRow'[a] # seqRow[a] => fiber'[f].pc = "wake" /\ fiber'[f].agg = a
  <2>1. CASE UNCHANGED seqRow
    BY <2>1
  <2>2. CASE ReplayAccepted(f)
    BY <1>2, <2>2
  <2>3. CASE \E a \in Aggregates, i \in Ids, d \in Data : Publish(f, a, i, d)
    BY <1>1, <2>3
  <2>4. CASE ReplayDuplicate(f) \/ ReplayIgnored(f) \/ ReplayDies(f) \/ Interrupt(f)
    BY <2>1, <2>4 DEF ReplayDuplicate, ReplayIgnored, ReplayDies, Interrupt, logVars
  <2>5. CASE \E b \in SomeBatches, o \in OwnerOrNone, s \in BOOLEAN : ReplayAll(f, b, o, s)
    BY <2>1, <2>5 DEF ReplayAll, logVars
  <2> QED BY <2>2, <2>3, <2>4, <2>5 DEF Writes
<1>4. fiber[f].pc # "wake" /\ \E st : fiber' = [fiber EXCEPT ![f] = st]
  BY DEF Writes, Publish, ReplayAll, ReplayAccepted, ReplayDuplicate, ReplayIgnored,
         ReplayDies, Interrupt
<1>5. \A g \in Fibers : fiber[g].pc = "wake" => fiber'[g] = fiber[g]
  BY <1>4 DEF TypeOK
<1>6. UNCHANGED reader
  BY DEF Writes, Publish, ReplayAll, ReplayAccepted, ReplayDuplicate, ReplayIgnored,
         ReplayDies, Interrupt, readerVars
<1> QED BY <1>3, <1>5, <1>6

LEMMA CursorStep ==
  ASSUME IInv, CursorsBounded, [Next]_vars
  PROVE  CursorsBounded'
<1> USE DEF IInv
<1>1. CASE UNCHANGED reader
  BY <1>1 DEF CursorsBounded
<1>2. ASSUME NEW r \in Readers, Reads(r) PROVE CursorsBounded'
  <2>0. reader[r] \in StreamState /\ received[r] \in Seq(Event) /\ Follows[r] \in Aggregates
    BY EventLogAssumption DEF TypeOK
  <2>1. CASE Attach(r)
    <3>1. received[r] # <<>> => received[r][Len(received[r])] \in Event
      <4>1. received[r] # <<>> => Len(received[r]) \in 1..Len(received[r])
        BY <2>0, EmptySeq
      <4> QED BY <2>0, <4>1, LenProperties
    <3>2. Resume(r) \in Int /\ Resume(r) >= -1
      BY <3>1 DEF Resume, Event
    <3>3. reader' = [reader EXCEPT ![r] =
             [phase |-> "history", cursor |-> Resume(r), wake |-> FALSE, batch |-> {}]]
      BY <2>1 DEF Attach
    <3> QED BY <3>2, <3>3 DEF CursorsBounded, TypeOK
  <2>2. CASE ReadRows(r)
    <3> DEFINE found == RowsAfter(Follows[r], reader[r].cursor)
               last == LastSeq(found, reader[r].cursor)
    <3>1. last = seqRow[Follows[r]] \/ last = reader[r].cursor
      BY <2>0, LastSeqOfRows DEF StreamState
    <3>2. last >= -1
      BY <2>0, <3>1 DEF CursorsBounded, LogContiguous
    <3>3. reader'[r].cursor = last /\ \A q \in Readers : q # r => reader'[q] = reader[q]
      BY <2>0, <2>2 DEF ReadRows, TypeOK, StreamState
    <3> HIDE DEF last
    <3> QED BY <3>2, <3>3 DEF CursorsBounded
  <2>3. CASE Deliver(r)
    BY <2>0, <2>3 DEF Deliver, CursorsBounded, TypeOK, StreamState
  <2>4. CASE TakeWake(r)
    BY <2>0, <2>4 DEF TakeWake, CursorsBounded, TypeOK, StreamState
  <2>5. CASE Detach(r)
    BY <2>0, <2>5 DEF Detach, OffStream, CursorsBounded, TypeOK
  <2> QED BY <1>2, <2>1, <2>2, <2>3, <2>4, <2>5 DEF Reads
<1>3. ASSUME NEW f \in Fibers, Writes(f) PROVE CursorsBounded'
  <2>1. CASE Wake(f)
    BY <2>1 DEF Wake, CursorsBounded, TypeOK, StreamState
  <2>2. CASE ~Wake(f)
    BY <1>1, <1>3, <2>2, CommitOwesWake
  <2> QED BY <2>1, <2>2
<1>4. CASE Crash
  BY <1>4 DEF Crash, OffStream, CursorsBounded
<1>5. ASSUME NEW a \in Aggregates, NEW o \in Owners, Claim(a, o) PROVE CursorsBounded'
  BY <1>1, <1>5 DEF Claim
<1>6. ASSUME NEW a \in Aggregates, Remove(a) PROVE CursorsBounded'
  BY <1>1, <1>6 DEF Remove
<1> QED BY <1>1, <1>2, <1>3, <1>4, <1>5, <1>6 DEF Next, vars

LEMMA WakeStep ==
  ASSUME WInv, [Next]_vars
  PROVE  NoMissedWake'
<1> USE DEF WInv, IInv
<1>1. \A r \in Readers : Behind(r) => WakeComing(r)
  BY WakeInvariantParts
<1>2. SUFFICES ASSUME NEW r \in Readers, Behind(r)' PROVE WakeComing(r)'
  BY DEF NoMissedWake, Behind, WakeComing
<1>3. Follows[r] \in Aggregates /\ reader[r] \in StreamState
  BY EventLogAssumption DEF TypeOK
<1>4. CASE UNCHANGED <<reader, fiber, seqRow>>
  BY <1>1, <1>2, <1>4 DEF Behind, WakeComing
<1>5. ASSUME NEW f \in Fibers, Writes(f), ~Wake(f) PROVE WakeComing(r)'
  <2>1. /\ \A g \in Fibers : fiber[g].pc = "wake" => fiber'[g] = fiber[g]
        /\ UNCHANGED reader
        /\ \A a \in Aggregates :
             seqRow'[a] # seqRow[a] => fiber'[f].pc = "wake" /\ fiber'[f].agg = a
    BY <1>5, CommitOwesWake
  <2>2. CASE seqRow'[Follows[r]] # seqRow[Follows[r]]
    BY <1>3, <2>1, <2>2 DEF WakeComing
  <2>3. CASE seqRow'[Follows[r]] = seqRow[Follows[r]]
    <3>1. Behind(r)
      BY <1>2, <2>1, <2>3 DEF Behind
    <3>2. WakeComing(r)
      BY <1>1, <3>1
    <3> QED BY <2>1, <3>2 DEF WakeComing
  <2> QED BY <2>2, <2>3
<1>6. ASSUME NEW f \in Fibers, Wake(f) PROVE WakeComing(r)'
  <2>1. reader'[r] = IF reader[r].phase # "off" /\ Follows[r] = fiber[f].agg
                       THEN [reader[r] EXCEPT !.wake = TRUE] ELSE reader[r]
    BY <1>6 DEF Wake
  <2>2. UNCHANGED seqRow /\ fiber' = [fiber EXCEPT ![f] = Advance(fiber[f])]
    BY <1>6 DEF Wake, logVars
  <2>3. reader'[r].phase = reader[r].phase /\ reader'[r].cursor = reader[r].cursor
    BY <1>3, <2>1 DEF StreamState
  <2>4. Behind(r)
    BY <1>2, <2>2, <2>3 DEF Behind
  <2>5. WakeComing(r) /\ reader[r].phase # "off"
    BY <1>1, <2>4 DEF Behind
  <2>6. CASE Follows[r] = fiber[f].agg
    BY <1>3, <2>1, <2>5, <2>6 DEF WakeComing, StreamState
  <2>7. CASE Follows[r] # fiber[f].agg
    <3>1. reader'[r] = reader[r]
      BY <2>1, <2>7
    <3>2. \A g \in Fibers : g # f => fiber'[g] = fiber[g]
      BY <2>2 DEF TypeOK
    <3> QED BY <2>5, <2>7, <3>1, <3>2 DEF WakeComing
  <2> QED BY <2>6, <2>7
<1>7. ASSUME NEW q \in Readers, Reads(q) PROVE WakeComing(r)'
  <2>0. UNCHANGED <<fiber, seqRow>>
    BY <1>7 DEF Reads, Attach, ReadRows, Deliver, TakeWake, Detach, logVars
  <2>1. CASE reader'[r] = reader[r]
    <3>1. Behind(r)
      BY <1>2, <2>0, <2>1 DEF Behind
    <3>2. WakeComing(r)
      BY <1>1, <3>1
    <3> QED BY <2>0, <2>1, <3>2 DEF WakeComing
  <2>2. CASE q # r
    <3>1. reader'[r] = reader[r]
      BY <1>7, <2>2 DEF Reads, Attach, ReadRows, Deliver, TakeWake, Detach, TypeOK
    <3> QED BY <2>1, <3>1
  <2>3. CASE q = r /\ (Attach(r) \/ TakeWake(r) \/ Detach(r))
    <3>1. reader'[r].phase # "tail"
      BY <1>3, <2>3 DEF Attach, TakeWake, Detach, OffStream, TypeOK, StreamState
    <3> QED BY <1>2, <3>1 DEF Behind
  <2>4. CASE q = r /\ Deliver(r)
    <3>1. /\ reader'[r].phase = reader[r].phase
          /\ reader'[r].cursor = reader[r].cursor
          /\ reader'[r].wake = reader[r].wake
      BY <1>3, <2>4 DEF Deliver, TypeOK, StreamState
    <3>2. Behind(r)
      BY <1>2, <2>0, <3>1 DEF Behind
    <3>3. WakeComing(r)
      BY <1>1, <3>2
    <3> QED BY <2>0, <3>1, <3>3 DEF WakeComing
  <2>5. CASE q = r /\ ReadRows(r)
    <3> DEFINE a == Follows[r]
               n == reader[r].cursor
               found == RowsAfter(a, n)
    <3>1. n \in Int /\ n >= -1 /\ seqRow[a] \in Int
      BY <1>3 DEF CursorsBounded, StreamState, TypeOK
    <3>2. reader'[r].cursor = LastSeq(found, n)
      BY <1>3, <2>5 DEF ReadRows, TypeOK, StreamState
    <3>3. CASE found # {}
      <4>1. LastSeq(found, n) = seqRow[a]
        BY <1>3, <3>1, <3>3, LastSeqOfRows
      <4> QED BY <1>2, <2>0, <3>1, <3>2, <4>1 DEF Behind
    <3>4. CASE found = {}
      <4>1. LastSeq(found, n) = n
        BY <1>3, <3>1, <3>4, LastSeqOfRows
      <4>2. n < seqRow[a]
        BY <1>2, <2>0, <3>2, <4>1 DEF Behind
      <4>3. seqRow[a] \in {e.seq : e \in RowsOf(a)}
        BY <1>3, <3>1, <4>2 DEF LogContiguous
      <4>4. PICK e \in RowsOf(a) : e.seq = seqRow[a]
        BY <4>3
      <4>5. e \in found
        BY <4>2, <4>4 DEF RowsAfter
      <4> QED BY <3>4, <4>5
    <3> QED BY <3>3, <3>4
  <2> QED BY <1>7, <2>2, <2>3, <2>4, <2>5 DEF Reads
<1>8. ASSUME NEW a \in Aggregates, NEW o \in Owners, Claim(a, o) PROVE WakeComing(r)'
  BY <1>4, <1>8 DEF Claim
<1>9. ASSUME NEW a \in Aggregates, Remove(a) PROVE WakeComing(r)'
  <2>1. UNCHANGED <<fiber, reader>>
    BY <1>9 DEF Remove
  <2>2. CASE Follows[r] = a
    <3>1. seqRow'[Follows[r]] = -1 /\ reader'[r].cursor >= -1 /\ reader[r].cursor \in Int
      BY <1>3, <1>9, <2>1, <2>2 DEF Remove, TypeOK, CursorsBounded, StreamState
    <3> QED BY <1>2, <2>1, <3>1 DEF Behind
  <2>3. CASE Follows[r] # a
    <3>1. seqRow'[Follows[r]] = seqRow[Follows[r]]
      BY <1>3, <1>9, <2>3 DEF Remove, TypeOK
    <3> QED BY <1>1, <1>2, <2>1, <3>1 DEF Behind, WakeComing
  <2> QED BY <2>2, <2>3
<1>10. CASE Crash
  BY <1>2, <1>10 DEF Crash, OffStream, Behind
<1>11. CASE UNCHANGED vars
  BY <1>4, <1>11 DEF vars
<1> QED BY <1>5, <1>6, <1>7, <1>8, <1>9, <1>10, <1>11 DEF Next

LEMMA InitWInv == Init => WInv
<1>1. Init => CursorsBounded /\ NoMissedWake
  BY DEF Init, OffStream, CursorsBounded, NoMissedWake
<1> QED BY <1>1, InitIInv DEF WInv

LEMMA NextWInv == WInv /\ [Next]_vars => WInv'
BY NextIInv, CursorStep, WakeStep DEF WInv

\* A stream that sits behind the log always has a wake kept or on its way: the
\* subscription is registered before history is read, so no commit falls
\* between the two.
THEOREM WakesNeverMissed == Spec => []NoMissedWake
<1>1. WInv => NoMissedWake
  BY DEF WInv
<1> QED BY <1>1, InitWInv, NextWInv, PTL DEF Spec

-----------------------------------------------------------------------------
(* EventLog implements AppendLog: initial states map to initial states and  *)
(* every step to a step of the abstract log or to none.  What a step of the *)
(* tables does to an aggregate's log follows from the invariants above;     *)
(* that a delivery is the next event takes an invariant about streams.      *)

-----------------------------------------------------------------------------
(* Rows by position.                                                        *)

\* The rows of an aggregate whose latest position is n.
Numbered(R, n) ==
  /\ n \in Int /\ n >= -1
  /\ R \subseteq Event
  /\ {e.seq : e \in R} = 0..n
  /\ \A d, e \in R : d.seq = e.seq => d = e

Listing(R, n) == [k \in 1..(n + 1) |-> CHOOSE e \in R : e.seq = k - 1]

LEMMA ListingOf ==
  ASSUME NEW R, NEW n, Numbered(R, n)
  PROVE  /\ Listing(R, n) \in Seq(Event)
         /\ Len(Listing(R, n)) = n + 1
         /\ \A e \in R : e.seq + 1 \in 1..(n + 1) /\ Listing(R, n)[e.seq + 1] = e
         /\ \A k \in 1..(n + 1) : Listing(R, n)[k] \in R /\ Listing(R, n)[k].seq = k - 1
<1>1. n \in Int /\ n >= -1 /\ n + 1 \in Nat
  BY DEF Numbered
<1>2. ASSUME NEW k \in 1..(n + 1)
      PROVE  Listing(R, n)[k] \in R /\ Listing(R, n)[k].seq = k - 1
  <2>0. k - 1 \in 0..n
    BY <1>1
  <2>1. k - 1 \in {e.seq : e \in R}
    BY <2>0 DEF Numbered
  <2>2. PICK e \in R : e.seq = k - 1
    BY <2>1
  <2>3. Listing(R, n)[k] = CHOOSE x \in R : x.seq = k - 1
    BY DEF Listing
  <2> QED BY <2>2, <2>3
<1>3. ASSUME NEW e \in R
      PROVE  e.seq + 1 \in 1..(n + 1) /\ Listing(R, n)[e.seq + 1] = e
  <2>1. e.seq \in 0..n
    BY DEF Numbered
  <2>2. e.seq + 1 \in 1..(n + 1)
    BY <1>1, <2>1
  <2>3. Listing(R, n)[e.seq + 1] \in R /\ Listing(R, n)[e.seq + 1].seq = e.seq
    BY <1>2, <2>1, <2>2
  <2> QED BY <2>2, <2>3 DEF Numbered
<1>4. Listing(R, n) \in [1..(n + 1) -> Event]
  BY <1>2 DEF Numbered, Listing
<1> QED BY <1>1, <1>2, <1>3, <1>4

LEMMA ListingGrows ==
  ASSUME NEW R, NEW n, Numbered(R, n), NEW e \in Event, e.seq = n + 1,
         Numbered(R \cup {e}, n + 1)
  PROVE  Listing(R \cup {e}, n + 1) = Append(Listing(R, n), e)
<1> DEFINE new == Listing(R \cup {e}, n + 1)
           old == Listing(R, n)
<1>1. n \in Int /\ n >= -1 /\ n + 1 \in Nat
  BY DEF Numbered
<1>2. /\ old \in Seq(Event) /\ Len(old) = n + 1
      /\ new \in Seq(Event) /\ Len(new) = n + 2
  BY <1>1, ListingOf
<1>3. Append(old, e) \in Seq(Event) /\ Len(Append(old, e)) = n + 2
  BY <1>1, <1>2, AppendProperties
<1>4. ASSUME NEW k \in 1..(n + 2) PROVE new[k] = Append(old, e)[k]
  <2>1. CASE k = n + 2
    <3>1. new[e.seq + 1] = e
      BY ListingOf
    <3>2. Append(old, e)[n + 2] = e
      BY <1>1, <1>2, AppendProperties
    <3> QED BY <1>1, <2>1, <3>1, <3>2
  <2>2. CASE k # n + 2
    <3>1. k \in 1..(n + 1)
      BY <1>1, <2>2
    <3>2. old[k] \in R /\ old[k].seq = k - 1
      BY <3>1, ListingOf
    <3>3. new[old[k].seq + 1] = old[k]
      BY <3>2, ListingOf
    <3>4. Append(old, e)[k] = old[k]
      BY <1>1, <1>2, <3>1, AppendProperties
    <3> QED BY <3>1, <3>2, <3>3, <3>4
  <2> QED BY <2>1, <2>2
<1> HIDE DEF new, old
<1>5. new = Append(old, e)
  BY <1>1, <1>2, <1>3, <1>4, SeqEqual
<1> QED BY <1>5 DEF new, old

LEMMA LogIsListing ==
  ASSUME NEW a \in Aggregates
  PROVE  LogOf(a) = Listing(RowsOf(a), seqRow[a])
BY DEF LogOf, Listing

LEMMA RowsNumbered ==
  ASSUME TypeOK, LogContiguous, NEW a \in Aggregates
  PROVE  Numbered(RowsOf(a), seqRow[a])
BY DEF Numbered, TypeOK, LogContiguous, RowsOf

-----------------------------------------------------------------------------
(* What consumers were given.                                               *)

\* Before any removal a consumer has the first events of its aggregate, and
\* its stream what comes next, up to the cursor.
HasPrefix(r) ==
  /\ Len(received[r]) <= seqRow[Follows[r]] + 1
  /\ \A k \in 1..Len(received[r]) :
       received[r][k] \in RowsOf(Follows[r]) /\ received[r][k].seq = k - 1

StreamIsNext(r) ==
  /\ Len(received[r]) - 1 <= reader[r].cursor
  /\ reader[r].cursor <= seqRow[Follows[r]]
  /\ reader[r].batch =
       {e \in RowsOf(Follows[r]) : Len(received[r]) <= e.seq /\ e.seq <= reader[r].cursor}
  /\ reader[r].phase \in {"history", "reread"} => reader[r].cursor = Len(received[r]) - 1

Uncut(r) == removals[Follows[r]] = 0

InOrder(r) ==
  /\ \A e \in reader[r].batch : e.agg = Follows[r]
  /\ Uncut(r) => HasPrefix(r)
  /\ Uncut(r) /\ reader[r].phase # "off" => StreamIsNext(r)

RInv == IInv /\ \A r \in Readers : InOrder(r)

\* Writers leave what a consumer was given and its stream, the wake apart.
SameStream(r) ==
  /\ received'[r] = received[r]
  /\ reader'[r].phase = reader[r].phase
  /\ reader'[r].cursor = reader[r].cursor
  /\ reader'[r].batch = reader[r].batch

LEMMA SameStreamStep ==
  ASSUME IInv, [Next]_vars, NEW r \in Readers, InOrder(r), SameStream(r)
  PROVE  InOrder(r)'
<1>0. /\ TypeOK /\ LogContiguous /\ Follows[r] \in Aggregates
      /\ received[r] \in Seq(Event) /\ Len(received[r]) \in Nat
      /\ reader[r] \in StreamState
  BY EventLogAssumption DEF IInv, TypeOK
<1>1. CASE UNCHANGED <<seqRow, rows>> /\ (Uncut(r)' => Uncut(r))
  BY <1>1 DEF InOrder, SameStream, HasPrefix, StreamIsNext, RowsOf
<1>2. ASSUME NEW e, Appends(e), Uncut(r)' => Uncut(r) PROVE InOrder(r)'
  <2>1. seqRow[Follows[r]] \in Int /\ seqRow'[Follows[r]] \in Int /\ seqRow[Follows[r]] <= seqRow'[Follows[r]]
    BY <1>0, <1>2 DEF Appends, Event, TypeOK
  <2>2. RowsOf(Follows[r]) \subseteq RowsOf(Follows[r])'
    BY <1>2 DEF Appends, RowsOf
  <2>3. \A x \in RowsOf(Follows[r])' : x \in RowsOf(Follows[r]) \/ x.seq > seqRow[Follows[r]]
    BY <1>0, <1>2 DEF Appends, Event, RowsOf, TypeOK
  <2>4. ASSUME Uncut(r) PROVE HasPrefix(r)'
    BY <1>0, <2>1, <2>2, <2>4 DEF InOrder, SameStream, HasPrefix
  <2>5. ASSUME Uncut(r), reader[r].phase # "off" PROVE StreamIsNext(r)'
    <3>1. StreamIsNext(r)
      BY <2>5 DEF InOrder
    <3>2. reader[r].cursor \in Int /\ \A x \in RowsOf(Follows[r])' : x.seq \in Int
      BY <1>0, <1>2 DEF StreamState, Appends, RowsOf, Event, TypeOK
    <3>3. \A x \in RowsOf(Follows[r])' : x.seq <= reader[r].cursor => x \in RowsOf(Follows[r])
      BY <2>1, <2>3, <3>1, <3>2 DEF StreamIsNext
    <3>4. reader[r].batch =
            {x \in RowsOf(Follows[r])' : Len(received[r]) <= x.seq /\ x.seq <= reader[r].cursor}
      BY <2>2, <3>1, <3>3 DEF StreamIsNext
    <3> QED BY <2>1, <3>1, <3>2, <3>4 DEF StreamIsNext, SameStream
  <2> QED BY <1>2, <2>4, <2>5 DEF InOrder, SameStream
<1>3. ASSUME NEW a \in Aggregates, Remove(a) PROVE InOrder(r)'
  <2>1. CASE a = Follows[r]
    <3>1. ~Uncut(r)'
      BY <1>0, <1>3, <2>1 DEF Remove, Uncut, TypeOK
    <3> QED BY <3>1 DEF InOrder, SameStream
  <2>2. CASE a # Follows[r]
    <3>1. /\ seqRow'[Follows[r]] = seqRow[Follows[r]]
          /\ removals'[Follows[r]] = removals[Follows[r]]
          /\ RowsOf(Follows[r])' = RowsOf(Follows[r])
      BY <1>0, <1>3, <2>2 DEF Remove, RowsOf, TypeOK
    <3> QED BY <3>1 DEF InOrder, SameStream, HasPrefix, StreamIsNext, Uncut
  <2> QED BY <2>1, <2>2
<1>4. ASSUME ~\E a \in Aggregates : Remove(a) PROVE removals' = removals
  BY <1>4 DEF Next, Writes, Publish, ReplayAll, ReplayAccepted, ReplayDuplicate, ReplayIgnored,
     ReplayDies, Interrupt, Wake, Reads, Attach, ReadRows, Deliver, TakeWake, Detach, Claim, Crash,
     logVars, vars
<1>5. ASSUME ~\E a \in Aggregates : Remove(a) PROVE Uncut(r)' => Uncut(r)
  BY <1>4, <1>5 DEF Uncut
<1> QED BY <1>1, <1>2, <1>3, <1>5, TablesStep

\* The next row of a stream is the next event of the consumer.
LEMMA DeliverInOrder ==
  ASSUME IInv, NEW r \in Readers, InOrder(r), Deliver(r)
  PROVE  /\ InOrder(r)'
         /\ \E e \in RowsOf(Follows[r]) \cup reader[r].batch :
              /\ e \in Event /\ e.agg = Follows[r]
              /\ received' = [received EXCEPT ![r] = Append(@, e)]
              /\ Uncut(r) => e \in RowsOf(Follows[r]) /\ e.seq = Len(received[r])
<1>0. /\ TypeOK /\ LogContiguous /\ Follows[r] \in Aggregates
      /\ received[r] \in Seq(Event) /\ Len(received[r]) \in Nat
      /\ reader[r] \in StreamState /\ reader[r].cursor \in Int
  BY EventLogAssumption DEF IInv, TypeOK, StreamState
<1>1. PICK e \in reader[r].batch :
        /\ \A x \in reader[r].batch : e.seq <= x.seq
        /\ reader' = [reader EXCEPT ![r].batch = @ \ {e}]
        /\ received' = [received EXCEPT ![r] = Append(@, e)]
  BY DEF Deliver
<1>2. reader[r].phase = "tail" /\ UNCHANGED <<seqRow, rows, removals>>
  BY DEF Deliver, logVars
<1>3. e \in Event /\ e.seq \in Int /\ e.agg = Follows[r]
  BY <1>0, <1>1 DEF StreamState, Event, InOrder
<1>4. /\ received'[r] = Append(received[r], e)
      /\ reader'[r].phase = "tail" /\ reader'[r].cursor = reader[r].cursor
      /\ reader'[r].batch = reader[r].batch \ {e}
  BY <1>0, <1>1, <1>2 DEF TypeOK, StreamState
<1>5. /\ Len(received'[r]) = Len(received[r]) + 1
      /\ received'[r][Len(received[r]) + 1] = e
      /\ \A k \in 1..Len(received[r]) : received'[r][k] = received[r][k]
  BY <1>0, <1>3, <1>4, AppendProperties
<1>6. ASSUME Uncut(r)
      PROVE  /\ e \in RowsOf(Follows[r]) /\ e.seq = Len(received[r])
             /\ HasPrefix(r)' /\ StreamIsNext(r)'
  <2>1. HasPrefix(r) /\ StreamIsNext(r)
    BY <1>2, <1>6 DEF InOrder
  <2>2. e \in RowsOf(Follows[r]) /\ Len(received[r]) <= e.seq /\ e.seq <= reader[r].cursor
    BY <1>1, <2>1 DEF StreamIsNext
  <2>3. \E x \in RowsOf(Follows[r]) : x.seq = Len(received[r])
    <3>1. seqRow[Follows[r]] \in Int
      BY <1>0 DEF TypeOK
    <3>2. Len(received[r]) \in 0..seqRow[Follows[r]]
      BY <1>0, <1>3, <2>1, <2>2, <3>1 DEF StreamIsNext
    <3>3. Len(received[r]) \in {x.seq : x \in RowsOf(Follows[r])}
      BY <1>0, <3>2 DEF LogContiguous
    <3> QED BY <3>3
  <2>4. PICK x \in RowsOf(Follows[r]) : x.seq = Len(received[r])
    BY <2>3
  <2>5. x \in reader[r].batch
    BY <1>0, <1>3, <2>1, <2>2, <2>4 DEF StreamIsNext
  <2>6. e.seq = Len(received[r])
    BY <1>0, <1>1, <1>3, <2>2, <2>4, <2>5
  <2>7. HasPrefix(r)'
    <3>1. seqRow[Follows[r]] \in Int
      BY <1>0 DEF TypeOK
    <3>2. Len(received'[r]) <= seqRow[Follows[r]] + 1
      BY <1>0, <1>3, <1>5, <2>1, <2>2, <2>6, <3>1 DEF StreamIsNext
    <3>3. \A k \in 1..Len(received'[r]) :
            received'[r][k] \in RowsOf(Follows[r]) /\ received'[r][k].seq = k - 1
      <4>1. \A k \in 1..Len(received'[r]) : k = Len(received[r]) + 1 \/ k \in 1..Len(received[r])
        BY <1>0, <1>5
      <4>2. \A k \in 1..Len(received[r]) :
              received'[r][k] \in RowsOf(Follows[r]) /\ received'[r][k].seq = k - 1
        BY <1>5, <2>1 DEF HasPrefix
      <4>3. e.seq = (Len(received[r]) + 1) - 1
        BY <1>0, <2>6
      <4> QED BY <1>5, <2>2, <4>1, <4>2, <4>3
    <3> QED BY <1>2, <3>2, <3>3 DEF HasPrefix, RowsOf
  <2>8. StreamIsNext(r)'
    <3>1. \A y \in RowsOf(Follows[r]) : y.seq \in Int /\ (y.seq = e.seq => y = e)
      BY <1>0, <2>2 DEF LogContiguous, RowsOf, TypeOK, Event
    <3>2. reader[r].batch \ {e} =
            {y \in RowsOf(Follows[r]) : Len(received'[r]) <= y.seq /\ y.seq <= reader[r].cursor}
      BY <1>0, <1>5, <2>1, <2>6, <3>1 DEF StreamIsNext
    <3>3. Len(received'[r]) - 1 <= reader[r].cursor
      BY <1>0, <1>3, <1>5, <2>2, <2>6
    <3> QED BY <1>2, <1>4, <2>1, <3>2, <3>3 DEF StreamIsNext, RowsOf
  <2> QED BY <2>2, <2>6, <2>7, <2>8
<1>7. InOrder(r)'
  BY <1>2, <1>4, <1>6 DEF InOrder, Uncut
<1> QED BY <1>1, <1>3, <1>6, <1>7

LEMMA ReadsInOrder ==
  ASSUME IInv, NEW r \in Readers, InOrder(r), Reads(r)
  PROVE  InOrder(r)'
<1>0. /\ TypeOK /\ LogContiguous /\ Follows[r] \in Aggregates
      /\ received[r] \in Seq(Event) /\ Len(received[r]) \in Nat
      /\ reader[r] \in StreamState /\ reader[r].cursor \in Int
      /\ seqRow[Follows[r]] \in Int
  BY EventLogAssumption DEF IInv, TypeOK, StreamState
<1>1. CASE Attach(r)
  <2>1. /\ reader'[r] = [phase |-> "history", cursor |-> Resume(r), wake |-> FALSE, batch |-> {}]
        /\ UNCHANGED <<seqRow, rows, removals, received>>
    BY <1>0, <1>1 DEF Attach, logVars, TypeOK
  <2>2. ASSUME Uncut(r) PROVE HasPrefix(r)' /\ StreamIsNext(r)'
    <3>1. HasPrefix(r)
      BY <2>2 DEF InOrder
    <3>2. Resume(r) = Len(received[r]) - 1
      <4>1. CASE received[r] = <<>>
        BY <4>1 DEF Resume
      <4>2. CASE received[r] # <<>>
        <5>1. Len(received[r]) \in 1..Len(received[r])
          BY <1>0, <4>2, EmptySeq
        <5> QED BY <3>1, <4>2, <5>1 DEF Resume, HasPrefix
      <4> QED BY <4>1, <4>2
    <3>3. \A e \in RowsOf(Follows[r]) : e.seq \in Int
      BY <1>0 DEF RowsOf, TypeOK, Event
    <3>4. {} = {e \in RowsOf(Follows[r]) :
                  Len(received[r]) <= e.seq /\ e.seq <= Len(received[r]) - 1}
      BY <1>0, <3>3
    <3>5. Len(received[r]) - 1 <= seqRow[Follows[r]]
      BY <1>0, <3>1 DEF HasPrefix
    <3> QED BY <1>0, <2>1, <3>1, <3>2, <3>4, <3>5 DEF HasPrefix, StreamIsNext, RowsOf
  <2> QED BY <2>1, <2>2 DEF InOrder, Uncut
<1>2. CASE ReadRows(r)
  <2> DEFINE found == RowsAfter(Follows[r], reader[r].cursor)
             last == LastSeq(found, reader[r].cursor)
  <2>1. /\ reader'[r].phase = "tail" /\ reader'[r].cursor = last /\ reader'[r].batch = found
        /\ UNCHANGED <<seqRow, rows, removals, received>>
        /\ reader[r].phase \in {"history", "reread"}
    BY <1>0, <1>2 DEF ReadRows, logVars, TypeOK, StreamState
  <2>2. /\ found # {} => last = seqRow[Follows[r]]
        /\ found = {} => last = reader[r].cursor
    BY <1>0, LastSeqOfRows
  <2>3. \A e \in found : e.agg = Follows[r]
    BY DEF RowsAfter, RowsOf
  <2>4. ASSUME Uncut(r) PROVE HasPrefix(r)' /\ StreamIsNext(r)'
    <3>1. HasPrefix(r) /\ StreamIsNext(r) /\ reader[r].cursor = Len(received[r]) - 1
      BY <2>1, <2>4 DEF InOrder, StreamIsNext
    <3>2. \A e \in RowsOf(Follows[r]) : e.seq \in Int /\ e.seq <= seqRow[Follows[r]]
      BY <1>0 DEF LogContiguous, RowsOf, TypeOK, Event
    <3>3. found = {e \in RowsOf(Follows[r]) : Len(received[r]) <= e.seq /\ e.seq <= last}
      <4>1. CASE found = {}
        BY <1>0, <2>2, <3>1, <3>2, <4>1
      <4>2. CASE found # {}
        <5>1. found = {e \in RowsOf(Follows[r]) : e.seq > reader[r].cursor} /\ last = seqRow[Follows[r]]
          BY <2>2, <4>2 DEF RowsAfter
        <5>2. \A e \in RowsOf(Follows[r]) :
                e.seq > reader[r].cursor <=> Len(received[r]) <= e.seq /\ e.seq <= last
          BY <1>0, <3>1, <3>2, <5>1
        <5> HIDE DEF found, last
        <5> QED BY <5>1, <5>2
      <4> QED BY <4>1, <4>2
    <3>4. Len(received[r]) - 1 <= last /\ last <= seqRow[Follows[r]]
      BY <1>0, <2>2, <3>1 DEF StreamIsNext
    <3> HIDE DEF found, last
    <3> QED BY <2>1, <3>1, <3>3, <3>4 DEF HasPrefix, StreamIsNext, RowsOf
  <2> HIDE DEF found, last
  <2> QED BY <2>1, <2>3, <2>4 DEF InOrder, Uncut
<1>3. CASE Deliver(r)
  BY <1>3, DeliverInOrder
<1>4. CASE TakeWake(r)
  <2>1. /\ reader'[r].phase = "reread" /\ reader'[r].cursor = reader[r].cursor
        /\ reader'[r].batch = {} /\ reader[r].batch = {} /\ reader[r].phase = "tail"
        /\ UNCHANGED <<seqRow, rows, removals, received>>
    BY <1>0, <1>4 DEF TakeWake, logVars, TypeOK, StreamState
  <2>2. ASSUME Uncut(r) PROVE HasPrefix(r)' /\ StreamIsNext(r)'
    <3>1. HasPrefix(r) /\ StreamIsNext(r)
      BY <2>1, <2>2 DEF InOrder
    <3>2. reader[r].cursor = Len(received[r]) - 1
      <4> SUFFICES ASSUME reader[r].cursor # Len(received[r]) - 1 PROVE FALSE
        OBVIOUS
      <4>1. Len(received[r]) \in 0..seqRow[Follows[r]] /\ Len(received[r]) <= reader[r].cursor
        BY <1>0, <3>1 DEF StreamIsNext
      <4>2. Len(received[r]) \in {x.seq : x \in RowsOf(Follows[r])}
        BY <1>0, <4>1 DEF LogContiguous
      <4>3. PICK x \in RowsOf(Follows[r]) : x.seq = Len(received[r])
        BY <4>2
      <4>4. x \in reader[r].batch
        BY <1>0, <3>1, <4>1, <4>3 DEF StreamIsNext
      <4> QED BY <2>1, <4>4
    <3> QED BY <2>1, <3>1, <3>2 DEF HasPrefix, StreamIsNext, RowsOf
  <2> QED BY <2>1, <2>2 DEF InOrder, Uncut
<1>5. CASE Detach(r)
  <2>1. /\ reader'[r] = OffStream
        /\ UNCHANGED <<seqRow, rows, removals, received>>
    BY <1>0, <1>5 DEF Detach, logVars, TypeOK
  <2> QED BY <2>1 DEF InOrder, Uncut, OffStream, HasPrefix, RowsOf
<1> QED BY <1>1, <1>2, <1>3, <1>4, <1>5 DEF Reads

LEMMA NextInOrder ==
  ASSUME RInv, [Next]_vars, NEW r \in Readers
  PROVE  InOrder(r)'
<1>0. IInv /\ TypeOK /\ InOrder(r)
  BY DEF RInv, IInv
<1>1. CASE Reads(r)
  BY <1>0, <1>1, ReadsInOrder
<1>2. CASE Crash
  <2>1. reader'[r] = OffStream /\ UNCHANGED <<seqRow, rows, removals, received>>
    BY <1>2 DEF Crash, logVars
  <2> QED BY <1>0, <2>1 DEF InOrder, Uncut, OffStream, HasPrefix, RowsOf
<1>3. ASSUME NEW q \in Readers, q # r, Reads(q) PROVE SameStream(r)
  BY <1>0, <1>3 DEF SameStream, Reads, Attach, ReadRows, Deliver, TakeWake, Detach, TypeOK
<1>4. ASSUME NEW f \in Fibers, Wake(f) PROVE SameStream(r)
  BY <1>0, <1>4 DEF SameStream, Wake, TypeOK, StreamState
<1>5. ASSUME NEW f \in Fibers, Writes(f), ~Wake(f) PROVE SameStream(r)
  BY <1>5 DEF SameStream, Writes, Publish, ReplayAll, ReplayAccepted, ReplayDuplicate, ReplayIgnored,
     ReplayDies, Interrupt, readerVars
<1>6. ASSUME \/ \E a \in Aggregates, o \in Owners : Claim(a, o)
             \/ \E a \in Aggregates : Remove(a)
             \/ UNCHANGED vars
      PROVE  SameStream(r)
  BY <1>6 DEF SameStream, Claim, Remove, vars
<1> QED BY <1>0, <1>1, <1>2, <1>3, <1>4, <1>5, <1>6, SameStreamStep DEF Next

-----------------------------------------------------------------------------
(* Steps map to steps of the abstract log.                                  *)

Log == [a \in Aggregates |-> LogOf(a)]

CutSet == {a \in Aggregates : removals[a] > 0}

LEMMA LogFacts ==
  ASSUME TypeOK, LogContiguous, NEW a \in Aggregates
  PROVE  /\ LogOf(a) \in Seq(Event)
         /\ Len(LogOf(a)) = seqRow[a] + 1
         /\ \A e \in RowsOf(a) : e.seq + 1 \in 1..(seqRow[a] + 1) /\ LogOf(a)[e.seq + 1] = e
         /\ \A k \in 1..(seqRow[a] + 1) : LogOf(a)[k] \in RowsOf(a)
         /\ Log[a] = LogOf(a)
<1>1. LogOf(a) = Listing(RowsOf(a), seqRow[a]) /\ Numbered(RowsOf(a), seqRow[a])
  BY LogIsListing, RowsNumbered
<1> QED BY <1>1, ListingOf DEF Log

\* An aggregate whose rows and number a step leaves has the same log.
LEMMA SameLogOf ==
  ASSUME NEW a \in Aggregates, RowsOf(a)' = RowsOf(a), seqRow'[a] = seqRow[a]
  PROVE  LogOf(a)' = LogOf(a)
BY DEF LogOf

LEMMA AppendsExtend ==
  ASSUME IInv, IInv', NEW e, Appends(e), UNCHANGED <<removals, received>>
  PROVE  Abstract!Next
<1>0. TypeOK /\ LogContiguous /\ TypeOK' /\ LogContiguous'
  BY DEF IInv
<1>1. e \in Event /\ e.agg \in Aggregates /\ e.id \in Ids /\ e.data \in Data
  BY DEF Appends, Event
<1> DEFINE a == e.agg
<1>2. Numbered(RowsOf(a), seqRow[a])
  BY <1>0, <1>1, RowsNumbered
<1>3. RowsOf(a)' = RowsOf(a) \cup {e} /\ seqRow'[a] = seqRow[a] + 1 /\ e.seq = seqRow[a] + 1
  BY <1>0, <1>1 DEF Appends, RowsOf, TypeOK
<1>4. Numbered(RowsOf(a)', seqRow'[a])
  BY <1>0, <1>1 DEF Numbered, TypeOK, LogContiguous, RowsOf
<1>5. LogOf(a)' = Append(LogOf(a), e)
  <2>1. LogOf(a)' = Listing(RowsOf(a)', seqRow'[a])
    BY DEF LogOf, Listing
  <2>2. Listing(RowsOf(a) \cup {e}, seqRow[a] + 1) = Append(Listing(RowsOf(a), seqRow[a]), e)
    BY <1>1, <1>2, <1>3, <1>4, ListingGrows
  <2> QED BY <1>1, <1>3, <2>1, <2>2, LogIsListing
<1>6. ASSUME NEW b \in Aggregates, b # a PROVE LogOf(b)' = LogOf(b)
  <2>1. RowsOf(b)' = RowsOf(b) /\ seqRow'[b] = seqRow[b]
    BY <1>0, <1>1, <1>6 DEF Appends, RowsOf, TypeOK
  <2> QED BY <2>1, SameLogOf
<1>7. e = [id |-> e.id, agg |-> a, seq |-> Len(LogOf(a)), data |-> e.data]
  BY <1>0, <1>1, <1>3, LogFacts DEF Event
<1>8. Log' = [Log EXCEPT ![a] = Append(@, [id |-> e.id, agg |-> a, seq |-> Len(@), data |-> e.data])]
  BY <1>1, <1>5, <1>6, <1>7 DEF Log
<1>9. ASSUME NEW b \in Aggregates, NEW k \in DOMAIN Log[b] PROVE Log[b][k].id # e.id
  <2>1. Log[b] = LogOf(b) /\ k \in 1..(seqRow[b] + 1)
    BY <1>9 DEF Log, LogOf
  <2>2. Log[b][k] \in rows
    BY <1>0, <2>1, LogFacts DEF RowsOf
  <2> QED BY <2>2 DEF Appends, IdTaken
<1>10. Abstract!Extend(a, e.id, e.data)
  BY <1>8, <1>9 DEF Abstract!Extend, Log
<1> QED BY <1>1, <1>10 DEF Abstract!Next

LEMMA RemoveCuts ==
  ASSUME IInv, NEW a \in Aggregates, Remove(a)
  PROVE  Abstract!Next
<1>0. TypeOK /\ LogContiguous
  BY DEF IInv
<1>1. LogOf(a) # <<>>
  BY <1>0, LogFacts DEF Remove, TypeOK, LogContiguous
<1>2. LogOf(a)' = <<>>
  <2>1. seqRow'[a] = -1
    BY <1>0 DEF Remove, TypeOK
  <2>2. 1..(seqRow'[a] + 1) = {}
    BY <2>1
  <2> QED BY <2>2 DEF LogOf
<1>3. ASSUME NEW b \in Aggregates, b # a PROVE LogOf(b)' = LogOf(b)
  <2>1. RowsOf(b)' = RowsOf(b) /\ seqRow'[b] = seqRow[b]
    BY <1>0, <1>3 DEF Remove, RowsOf, TypeOK
  <2> QED BY <2>1, SameLogOf
<1>4. CutSet' = CutSet \cup {a}
  BY <1>0 DEF Remove, CutSet, TypeOK
<1>5. Log' = [Log EXCEPT ![a] = <<>>]
  BY <1>2, <1>3 DEF Log
<1>6. Abstract!Cut(a)
  BY <1>1, <1>4, <1>5 DEF Abstract!Cut, Log, CutSet, Remove
<1> QED BY <1>6 DEF Abstract!Next

LEMMA DeliverGives ==
  ASSUME RInv, NEW r \in Readers, Deliver(r)
  PROVE  Abstract!Next
<1>0. /\ IInv /\ TypeOK /\ LogContiguous /\ InOrder(r) /\ Follows[r] \in Aggregates
      /\ received \in [Readers -> Seq(Event)]
  BY EventLogAssumption DEF RInv, IInv, TypeOK
<1> DEFINE a == Follows[r]
<1>1. PICK e \in RowsOf(a) \cup reader[r].batch :
        /\ e \in Event /\ e.agg = a
        /\ received' = [received EXCEPT ![r] = Append(@, e)]
        /\ Uncut(r) => e \in RowsOf(a) /\ e.seq = Len(received[r])
  BY <1>0, DeliverInOrder
<1>2. UNCHANGED <<Log, CutSet>>
  BY DEF Deliver, logVars, Log, LogOf, RowsOf, CutSet
<1>3. CASE Uncut(r)
  <2>1. e.seq + 1 \in 1..(seqRow[a] + 1) /\ LogOf(a)[e.seq + 1] = e /\ Len(LogOf(a)) = seqRow[a] + 1
    BY <1>0, <1>1, <1>3, LogFacts
  <2>2. Len(received[r]) < Len(LogOf(a)) /\ LogOf(a)[Len(received[r]) + 1] = e
    BY <1>0, <1>1, <1>3, <2>1 DEF TypeOK
  <2>3. a \notin CutSet
    BY <1>0, <1>3 DEF CutSet, Uncut, TypeOK
  <2>4. Abstract!Give(r)
    BY <1>0, <1>1, <1>2, <2>2, <2>3 DEF Abstract!Give, Log, CutSet
  <2> QED BY <2>4 DEF Abstract!Next
<1>4. CASE ~Uncut(r)
  <2>1. a \in CutSet
    BY <1>0, <1>4 DEF CutSet, Uncut, TypeOK
  <2>2. received[r] \in Seq(Event) /\ received'[r] = Append(received[r], e)
    BY <1>0, <1>1
  <2>3. Len(received'[r]) = Len(received[r]) + 1 /\ received'[r][Len(received[r]) + 1] = e
    BY <1>1, <2>2, AppendProperties
  <2>4. e \in [id : Ids, agg : {a}, seq : Nat, data : Data]
    BY <1>1 DEF Event
  <2>5. Abstract!GiveAfterCut(r)
    BY <1>1, <1>2, <2>1, <2>3, <2>4 DEF Abstract!GiveAfterCut, Log, CutSet
  <2> QED BY <2>5 DEF Abstract!Next
<1> QED BY <1>3, <1>4

\* A step of the tables leaves the consumers, a delivery the tables; the rest is
\* not seen.
LEMMA NextMaps ==
  ASSUME RInv, IInv', [Next]_vars
  PROVE  [Abstract!Next]_(Abstract!vars)
<1>0. IInv /\ TypeOK
  BY DEF RInv, IInv
<1>1. ASSUME NEW a \in Aggregates, Remove(a) PROVE Abstract!Next
  BY <1>0, <1>1, RemoveCuts
<1>2. ASSUME NEW r \in Readers, Deliver(r) PROVE Abstract!Next
  BY <1>2, DeliverGives
<1>3. ASSUME ~\E a \in Aggregates : Remove(a), ~\E r \in Readers : Deliver(r)
      PROVE  UNCHANGED <<removals, received>>
  BY <1>3 DEF Next, Writes, Publish, ReplayAll, ReplayAccepted, ReplayDuplicate, ReplayIgnored,
     ReplayDies, Interrupt, Wake, Reads, Attach, ReadRows, TakeWake, Detach, Claim, Crash,
     logVars, readerVars, vars
<1>4. ASSUME NEW e, Appends(e), UNCHANGED <<removals, received>> PROVE Abstract!Next
  BY <1>0, <1>4, AppendsExtend
<1>5. CASE UNCHANGED <<seqRow, rows, removals, received>>
  BY <1>5 DEF Abstract!vars, LogOf, RowsOf
<1> QED BY <1>0, <1>1, <1>2, <1>3, <1>4, <1>5, TablesStep

LEMMA InitMaps == Init => Abstract!Init
<1> SUFFICES ASSUME Init PROVE Abstract!Init
  OBVIOUS
<1>1. ASSUME NEW a \in Aggregates PROVE LogOf(a) = <<>>
  <2>1. 1..(seqRow[a] + 1) = {}
    BY DEF Init
  <2> QED BY <2>1 DEF LogOf
<1> QED BY <1>1 DEF Init, Abstract!Init

LEMMA InitRInv == Init => RInv
<1> SUFFICES ASSUME Init PROVE RInv
  OBVIOUS
<1>1. ASSUME NEW r \in Readers PROVE InOrder(r)
  BY EventLogAssumption DEF Init, OffStream, InOrder, HasPrefix
<1> QED BY <1>1, InitIInv DEF RInv

\* The event log implements the append-only log: whatever is published,
\* replayed, fenced, removed, read, interrupted or crashes.
THEOREM EventLogImplementsAppendLog == Spec => ImplementsAppendLog
<1>1. RInv /\ [Next]_vars => RInv'
  BY NextInOrder, NextIInv DEF RInv
<1>2. Spec => []RInv
  BY InitRInv, <1>1, PTL DEF Spec
<1>3. RInv /\ [Next]_vars => [Abstract!Next]_(Abstract!vars)
  BY NextMaps, NextIInv DEF RInv
<1> QED BY <1>2, <1>3, InitMaps, PTL DEF Spec, ImplementsAppendLog, Abstract!Spec

=============================================================================
