--------------------------- MODULE RequestsProofs ---------------------------
(***************************************************************************)
(* Proofs about Requests.tla, for any sets of requests, sessions, rules    *)
(* and repliers and any bound.  The inductive invariant adds to the        *)
(* checked ones what a replying fiber knows at each place: that it         *)
(* published what it is about to settle, and that what it still owes is    *)
(* still to be passed by its loop.                                         *)
(***************************************************************************)
EXTENDS Requests, TLAPS

\* A request that was not created yet cannot be settled.
UnaskedIsOpen ==
  \A r \in Requests : asker[r] \in {"new", "asking"} => deferred[r] = "open" /\ r \notin pending

Asked(r) == r \in Requests /\ asker[r] \notin {"new", "asking"}

\* Each place of a reply's loops belongs to one kind of reply.
Cascades == {"cascade", "cascading"}
Sweeps == {"recall", "sweep", "granting", "sweeping"}

\* What a replying fiber holds: the request it replies to and the entry it is
\* at were asked, and what it is about to settle was published.
Holds(t) ==
  /\ replier[t].pc # "idle" => Asked(replier[t].target)
  /\ replier[t].pc # "idle" /\ replier[t].reply = "reject" => replier[t].target \in rejected
  /\ replier[t].pc \in {"save", "settle"} =>
       <<replier[t].target, Verdict(replier[t].reply)>> \in published
  /\ replier[t].pc \in Cascades => replier[t].reply = "reject" /\ replier[t].target \notin Questions
  /\ replier[t].pc \in Sweeps => replier[t].reply = "always"
  /\ replier[t].pc \in {"cascading", "granting", "sweeping"} => Asked(replier[t].item)
  /\ replier[t].pc \in {"cascading", "sweeping"} =>
       <<replier[t].item, Verdict(replier[t].reply)>> \in published

\* Why a request is owed an answer by a reply's loop, and not yet passed.
Owes(t, r) ==
  /\ Asked(r)
  /\ r \notin Questions
  /\ r \in replier[t].seen => r \notin pending
  /\ replier[t].reply = "reject" => SameSession(t, r)
  /\ replier[t].reply = "always" => ~Denied(r) /\ Covered(r, replier[t].rules)

\* Before its loop a reply owes nothing and has passed nothing.
OwesRight(t) ==
  /\ replier[t].pc \in {"idle", "publish", "save", "settle", "recall"} =>
       owed[t] = {} /\ replier[t].seen = {}
  /\ \A r \in owed[t] : Owes(t, r)

OwedIsAhead == \A t \in Repliers : OwesRight(t)

IInv ==
  /\ TypeOK
  /\ ListedIsOpen
  /\ UnaskedIsOpen
  /\ \A t \in Repliers : Holds(t)
  /\ AnsweredAsPublished
  /\ RejectStaysInSession
  /\ OwedIsAhead

-----------------------------------------------------------------------------
LEMMA IdleType == Idle \in ReplierState /\ Idle.pc = "idle"
BY DEF Idle, ReplierState, Replies

\* What a step of a reply changes of its state.
LEMMA MoveType ==
  ASSUME NEW x \in ReplierState,
         NEW pc \in {"save", "settle", "cascade", "recall", "idle", "sweeping"}
  PROVE  [x EXCEPT !.pc = pc] \in ReplierState
BY DEF ReplierState

LEMMA ItemType ==
  ASSUME NEW x \in ReplierState, NEW pc \in {"cascading", "granting"}, NEW r \in Requests
  PROVE  [x EXCEPT !.pc = pc, !.item = r] \in ReplierState
BY DEF ReplierState

LEMMA RecallType ==
  ASSUME NEW x \in ReplierState, NEW allowed \in SUBSET Resources
  PROVE  [x EXCEPT !.pc = "sweep", !.rules = allowed] \in ReplierState
BY DEF ReplierState

LEMMA SeenType ==
  ASSUME NEW x \in ReplierState, NEW r \in Requests
  PROVE  /\ [x EXCEPT !.seen = @ \cup {r}] \in ReplierState
         /\ \A pc \in {"cascade", "sweep"} :
              [x EXCEPT !.pc = pc, !.seen = @ \cup {r}] \in ReplierState
BY DEF ReplierState

LEMMA SettledType ==
  ASSUME TypeOK, NEW r \in Requests, NEW v
  PROVE  /\ Settled(r, v) \in [Requests -> {"open", "granted", "declined"}]
         /\ Settled(r, v)[r] # "open"
         /\ \A q \in Requests : q # r => Settled(r, v)[q] = deferred[q]
         /\ deferred[r] # "open" => Settled(r, v)[r] = deferred[r]
         /\ deferred[r] = "open" => Settled(r, v)[r] = Verdict(v)
BY DEF Settled, Verdict, TypeOK

\* Types hold at first.
LEMMA InitTypes ==
  ASSUME RequestsAssumption, Init
  PROVE  TypeOK
<1>1. replier \in [Repliers -> ReplierState]
  BY IdleType DEF Init
<1>2. owed \in [Repliers -> SUBSET Requests]
  BY DEF Init
<1>3. 0 \in 0..MaxReplies
  BY DEF RequestsAssumption
<1> QED BY <1>1, <1>2, <1>3 DEF Init, TypeOK

\* Types: every step leaves the state in the ranges permission.ts declares.
LEMMA NextTypes ==
  ASSUME RequestsAssumption, IInv, [Next]_vars
  PROVE  TypeOK'
<1> USE DEF RequestsAssumption, rules, said
<1>0. TypeOK /\ \A t \in Repliers : Holds(t)
  BY DEF IInv
<1>1. ASSUME NEW r \in Requests, Evaluate(r) PROVE TypeOK'
  BY <1>0, <1>1 DEF Evaluate, TypeOK
<1>2. ASSUME NEW r \in Requests, Create(r) PROVE TypeOK'
  BY <1>0, <1>2 DEF Create, TypeOK
<1>3. ASSUME NEW r \in Requests, Resume(r) \/ InterruptAsker(r) PROVE TypeOK'
  BY <1>0, <1>3 DEF Resume, InterruptAsker, TypeOK
<1>4. ASSUME NEW t \in Repliers, NEW r \in Requests, NEW v \in Replies, Reply(t, r, v)
      PROVE  TypeOK'
  <2>1. [Idle EXCEPT !.pc = "publish", !.target = r, !.reply = v] \in ReplierState
    BY DEF Idle, ReplierState, Replies
  <2>2. replies' \in 0..MaxReplies
    BY <1>0, <1>4 DEF Reply, TypeOK
  <2> QED BY <1>0, <1>4, <2>1, <2>2 DEF Reply, TypeOK
<1>5. ASSUME NEW t \in Repliers, PublishReply(t) PROVE TypeOK'
  <2>1. <<replier[t].target, Verdict(replier[t].reply)>> \in Requests \X {"granted", "declined"}
    BY <1>0, <1>5 DEF PublishReply, Holds, Asked, Verdict
  <2>2. \A pc \in {"save", "settle"} : [replier[t] EXCEPT !.pc = pc] \in ReplierState
    BY <1>0, MoveType DEF TypeOK
  <2> QED BY <1>0, <1>5, <2>1, <2>2 DEF PublishReply, TypeOK
<1>6. ASSUME NEW t \in Repliers, SaveRules(t) PROVE TypeOK'
  <2>1. Remembers(t) \in SUBSET Resources
    BY <1>0, <1>6 DEF SaveRules, Remembers, Holds, Asked
  <2>2. [replier[t] EXCEPT !.pc = "settle"] \in ReplierState
    BY <1>0, MoveType DEF TypeOK
  <2> QED BY <1>0, <1>6, <2>1, <2>2 DEF SaveRules, TypeOK
<1>7. ASSUME NEW t \in Repliers, Settle(t) PROVE TypeOK'
  <2>1. replier[t].target \in Requests
    BY <1>0, <1>7 DEF Settle, Holds, Asked
  <2>2. deferred' \in [Requests -> {"open", "granted", "declined"}]
    BY <1>0, <1>7, <2>1, SettledType DEF Settle
  <2>3. After(t) \in {"cascade", "recall", "idle"}
    BY DEF After
  <2>4. \A pc \in {"cascade", "recall", "idle"} : [replier[t] EXCEPT !.pc = pc] \in ReplierState
    BY <1>0, MoveType DEF TypeOK
  <2>5. replier' \in [Repliers -> ReplierState]
    BY <1>0, <1>7, <2>3, <2>4, IdleType DEF Settle, TypeOK
  <2>6. owed' \in [Repliers -> SUBSET Requests]
    BY <1>0, <1>7 DEF Settle, TypeOK, Permissions
  <2> QED BY <1>0, <1>7, <2>2, <2>5, <2>6 DEF Settle, TypeOK
<1>8. ASSUME NEW t \in Repliers, Recall(t) PROVE TypeOK'
  <2>1. replier' = [replier EXCEPT ![t] = [replier[t] EXCEPT !.pc = "sweep", !.rules = saved]]
    BY <1>0, <1>8 DEF Recall, TypeOK, ReplierState
  <2>2. [replier[t] EXCEPT !.pc = "sweep", !.rules = saved] \in ReplierState
    BY <1>0, RecallType DEF TypeOK
  <2> QED BY <1>0, <1>8, <2>1, <2>2 DEF Recall, TypeOK, Permissions
<1>9. ASSUME NEW t \in Repliers, NEW r \in Requests, CascadeTo(t, r) PROVE TypeOK'
  <2>1. replier' = [replier EXCEPT ![t] = [replier[t] EXCEPT !.pc = "cascading", !.item = r]]
    BY <1>0, <1>9 DEF CascadeTo, TypeOK, ReplierState
  <2>2. [replier[t] EXCEPT !.pc = "cascading", !.item = r] \in ReplierState
    BY <1>0, ItemType DEF TypeOK
  <2> QED BY <1>0, <1>9, <2>1, <2>2 DEF CascadeTo, TypeOK
<1>10. ASSUME NEW t \in Repliers, NEW r \in Requests, SweepTo(t, r) PROVE TypeOK'
  <2>1. [replier[t] EXCEPT !.seen = @ \cup {r}] \in ReplierState
    BY <1>0, SeenType DEF TypeOK
  <2>2. [replier[t] EXCEPT !.pc = "granting", !.item = r] \in ReplierState
    BY <1>0, ItemType DEF TypeOK
  <2>3. \/ replier' = [replier EXCEPT ![t] = [replier[t] EXCEPT !.seen = @ \cup {r}]]
        \/ replier' = [replier EXCEPT ![t] = [replier[t] EXCEPT !.pc = "granting", !.item = r]]
    BY <1>0, <1>10 DEF SweepTo, TypeOK, ReplierState
  <2>4. replier' \in [Repliers -> ReplierState]
    BY <1>0, <2>1, <2>2, <2>3 DEF TypeOK
  <2> QED BY <1>0, <1>10, <2>4 DEF SweepTo, TypeOK
<1>11. ASSUME NEW t \in Repliers, PublishGrant(t) PROVE TypeOK'
  <2>1. replier[t].item \in Requests
    BY <1>0, <1>11 DEF PublishGrant, Holds, Asked
  <2>2. [replier[t] EXCEPT !.pc = "sweeping"] \in ReplierState
    BY <1>0, MoveType DEF TypeOK
  <2> QED BY <1>0, <1>11, <2>1, <2>2 DEF PublishGrant, TypeOK
<1>12. ASSUME NEW t \in Repliers, SettleItem(t) PROVE TypeOK'
  <2>1. replier[t].item \in Requests
    BY <1>0, <1>12 DEF SettleItem, Holds, Asked
  <2>2. deferred' \in [Requests -> {"open", "granted", "declined"}]
    BY <1>0, <1>12, <2>1, SettledType DEF SettleItem
  <2>3. \A pc \in {"cascade", "sweep"} :
          [replier[t] EXCEPT !.pc = pc, !.seen = @ \cup {replier[t].item}] \in ReplierState
    BY <1>0, <2>1, SeenType DEF TypeOK
  <2>4. \E pc \in {"cascade", "sweep"} :
          replier' = [replier EXCEPT ![t] =
            [replier[t] EXCEPT !.pc = pc, !.seen = @ \cup {replier[t].item}]]
    BY <1>0, <1>12 DEF SettleItem, TypeOK, ReplierState
  <2>5. replier' \in [Repliers -> ReplierState]
    BY <1>0, <2>3, <2>4 DEF TypeOK
  <2> QED BY <1>0, <1>12, <2>2, <2>5 DEF SettleItem, TypeOK
<1>13. ASSUME NEW t \in Repliers, Replied(t) PROVE TypeOK'
  BY <1>0, <1>13, IdleType DEF Replied, TypeOK
<1>14. ASSUME Reconfigure \/ \E x \in Resources : RemoveSaved(x) PROVE TypeOK'
  <2>1. Forgiven \in [Repliers -> SUBSET Requests]
    BY <1>0 DEF Forgiven, TypeOK
  <2> QED BY <1>0, <1>14, <2>1 DEF Reconfigure, RemoveSaved, TypeOK
<1>15. ASSUME Close PROVE TypeOK'
  BY <1>0, <1>15 DEF Close, TypeOK
<1>16. CASE UNCHANGED vars
  BY <1>0, <1>16 DEF vars, TypeOK
<1> QED
  BY <1>1, <1>2, <1>3, <1>4, <1>5, <1>6, <1>7, <1>8, <1>9, <1>10, <1>11, <1>12, <1>13,
     <1>14, <1>15, <1>16 DEF Next, Replying

-----------------------------------------------------------------------------
(* Who waits is listed, and who is listed waits.                            *)

\* What a step that settles r, an asked request, does to the pending map.
LEMMA SettleListed ==
  ASSUME TypeOK, ListedIsOpen, UnaskedIsOpen, NEW r, NEW v, Asked(r),
         asker' = asker, deferred' = Settled(r, v), pending' = pending \ {r}
  PROVE  ListedIsOpen' /\ UnaskedIsOpen'
<1>1. r \in Requests /\ asker[r] \notin {"new", "asking"}
  BY DEF Asked
<1>2. deferred'[r] # "open" /\ \A q \in Requests : q # r => deferred'[q] = deferred[q]
  BY <1>1, SettledType
<1> QED BY <1>1, <1>2 DEF ListedIsOpen, UnaskedIsOpen

LEMMA NextListed ==
  ASSUME RequestsAssumption, IInv, [Next]_vars
  PROVE  ListedIsOpen' /\ UnaskedIsOpen'
<1> USE DEF rules, said
<1>0. TypeOK /\ ListedIsOpen /\ UnaskedIsOpen /\ \A t \in Repliers : Holds(t)
  BY DEF IInv
<1>1. ASSUME NEW r \in Requests, Evaluate(r) PROVE ListedIsOpen' /\ UnaskedIsOpen'
  BY <1>0, <1>1 DEF Evaluate, TypeOK, ListedIsOpen, UnaskedIsOpen
<1>2. ASSUME NEW r \in Requests, Create(r) PROVE ListedIsOpen' /\ UnaskedIsOpen'
  BY <1>0, <1>2 DEF Create, TypeOK, ListedIsOpen, UnaskedIsOpen
<1>3. ASSUME NEW r \in Requests, Resume(r) \/ InterruptAsker(r)
      PROVE  ListedIsOpen' /\ UnaskedIsOpen'
  BY <1>0, <1>3 DEF Resume, InterruptAsker, TypeOK, ListedIsOpen, UnaskedIsOpen
<1>4. ASSUME NEW t \in Repliers, Settle(t) PROVE ListedIsOpen' /\ UnaskedIsOpen'
  <2>1. Asked(replier[t].target)
    BY <1>0, <1>4 DEF Settle, Holds
  <2> QED BY <1>0, <1>4, <2>1, SettleListed DEF Settle
<1>5. ASSUME NEW t \in Repliers, SettleItem(t) PROVE ListedIsOpen' /\ UnaskedIsOpen'
  <2>1. Asked(replier[t].item)
    BY <1>0, <1>5 DEF SettleItem, Holds
  <2> QED BY <1>0, <1>5, <2>1, SettleListed DEF SettleItem
<1>6. ASSUME Close PROVE ListedIsOpen' /\ UnaskedIsOpen'
  BY <1>0, <1>6 DEF Close, TypeOK, ListedIsOpen, UnaskedIsOpen
<1>7. CASE UNCHANGED <<asker, pending, deferred>>
  BY <1>0, <1>7 DEF ListedIsOpen, UnaskedIsOpen
<1>8. ASSUME NEW t \in Repliers, Replying(t)
      PROVE  Settle(t) \/ SettleItem(t) \/ UNCHANGED <<asker, pending, deferred>>
  BY <1>8 DEF Replying, PublishReply, SaveRules, Recall, CascadeTo, SweepTo, PublishGrant, Replied
<1>9. ASSUME \/ \E t \in Repliers, r \in Requests, v \in Replies : Reply(t, r, v)
             \/ Reconfigure
             \/ \E x \in Resources : RemoveSaved(x)
             \/ UNCHANGED vars
      PROVE  UNCHANGED <<asker, pending, deferred>>
  BY <1>9 DEF Reply, Reconfigure, RemoveSaved, vars
<1> QED
  BY <1>1, <1>2, <1>3, <1>4, <1>5, <1>6, <1>7, <1>8, <1>9 DEF Next

-----------------------------------------------------------------------------
(* What replying fibers hold stays so.                                      *)

\* What was asked, published and rejected stays so.
LEMMA NextGrows ==
  ASSUME RequestsAssumption, IInv, [Next]_vars
  PROVE  /\ \A r : Asked(r) => Asked(r)'
         /\ published \subseteq published'
         /\ rejected \subseteq rejected'
<1> USE DEF rules, said
<1>0. TypeOK
  BY DEF IInv
<1>1. ASSUME NEW r, Asked(r) PROVE Asked(r)'
  <2>1. ASSUME NEW q \in Requests, Evaluate(q) \/ Create(q) \/ Resume(q) \/ InterruptAsker(q)
        PROVE  Asked(r)'
    BY <1>0, <1>1, <2>1 DEF Asked, Evaluate, Create, Resume, InterruptAsker, TypeOK
  <2>2. asker' = asker => Asked(r)'
    BY <1>1 DEF Asked
  <2>3. \/ \E q \in Requests : Evaluate(q) \/ Create(q) \/ Resume(q) \/ InterruptAsker(q)
        \/ asker' = asker
    BY DEF Next, Reply, Replying, PublishReply, SaveRules, Settle, Recall, CascadeTo, SweepTo,
       PublishGrant, SettleItem, Replied, Reconfigure, RemoveSaved, Close, vars
  <2> QED BY <2>1, <2>2, <2>3
<1>2. published \subseteq published' /\ rejected \subseteq rejected'
  BY DEF Next, Evaluate, Create, Resume, InterruptAsker, Reply, Replying, PublishReply, SaveRules,
     Settle, Recall, CascadeTo, SweepTo, PublishGrant, SettleItem, Replied, Reconfigure,
     RemoveSaved, Close, vars
<1> QED BY <1>1, <1>2

LEMMA HoldsStays ==
  ASSUME NEW t \in Repliers, Holds(t), replier'[t] = replier[t],
         \A r : Asked(r) => Asked(r)',
         published \subseteq published', rejected \subseteq rejected'
  PROVE  Holds(t)'
BY DEF Holds, Asked, Verdict, Cascades, Sweeps

LEMMA NextHolds ==
  ASSUME RequestsAssumption, IInv, [Next]_vars
  PROVE  \A t \in Repliers : Holds(t)'
<1> USE DEF rules, said
<1>0. TypeOK /\ ListedIsOpen /\ (\A t \in Repliers : Holds(t)) /\ RequestsAssumption
  BY DEF IInv
<1>1. /\ \A r : Asked(r) => Asked(r)'
      /\ published \subseteq published'
      /\ rejected \subseteq rejected'
  BY NextGrows
<1>2. \A r \in pending : Asked(r)
  BY <1>0 DEF ListedIsOpen, Asked, TypeOK
<1>3. ASSUME NEW t \in Repliers,
             \/ \E r \in Requests, v \in Replies : Reply(t, r, v)
             \/ Replying(t)
      PROVE  Holds(t)'
  <2>1. ASSUME NEW r \in Requests, NEW v \in Replies, Reply(t, r, v) PROVE Holds(t)'
    <3>1. replier'[t] = [Idle EXCEPT !.pc = "publish", !.target = r, !.reply = v]
      BY <1>0, <2>1 DEF Reply, TypeOK
    <3>2. replier'[t].pc = "publish" /\ replier'[t].target = r /\ replier'[t].reply = v
      BY <3>1 DEF Idle
    <3>3. Asked(r)' /\ (v = "reject" => r \in rejected')
      BY <1>1, <1>2, <2>1 DEF Reply
    <3> QED BY <3>2, <3>3 DEF Holds, Asked, Cascades, Sweeps
  <2>2. Holds(t) /\ replier[t] \in ReplierState
    BY <1>0 DEF TypeOK
  <2>3. CASE PublishReply(t)
    <3>1. \E pc \in {"save", "settle"} : replier'[t] = [replier[t] EXCEPT !.pc = pc]
      BY <1>0, <2>3 DEF PublishReply, TypeOK
    <3>2. <<replier[t].target, Verdict(replier[t].reply)>> \in published' /\ replier[t].pc # "idle"
      BY <2>3 DEF PublishReply
    <3> QED BY <1>1, <2>2, <3>1, <3>2 DEF Holds, Asked, Verdict, Cascades, Sweeps, ReplierState
  <2>4. CASE SaveRules(t)
    <3>1. replier'[t] = [replier[t] EXCEPT !.pc = "settle"] /\ replier[t].pc = "save"
      BY <1>0, <2>4 DEF SaveRules, TypeOK
    <3> QED BY <1>1, <2>2, <3>1 DEF Holds, Asked, Verdict, Cascades, Sweeps, ReplierState
  <2>5. CASE Settle(t)
    <3>1. CASE After(t) = "idle"
      <4>1. replier'[t] = Idle
        BY <1>0, <2>5, <3>1 DEF Settle, TypeOK
      <4> QED BY <4>1 DEF Idle, Holds, Cascades, Sweeps
    <3>2. CASE After(t) # "idle"
      <4>1. replier'[t] = [replier[t] EXCEPT !.pc = After(t)] /\ replier[t].pc = "settle"
        BY <1>0, <2>5, <3>2 DEF Settle, TypeOK
      <4>2. \/ /\ After(t) = "cascade"
               /\ replier[t].reply = "reject" /\ replier[t].target \notin Questions
            \/ After(t) = "recall" /\ replier[t].reply = "always"
        BY <3>2 DEF After, Remembers
      <4> QED BY <1>1, <2>2, <4>1, <4>2 DEF Holds, Asked, Verdict, Cascades, Sweeps, ReplierState
    <3> QED BY <3>1, <3>2
  <2>6. CASE Recall(t)
    <3>1. replier'[t] = [replier[t] EXCEPT !.pc = "sweep", !.rules = saved] /\ replier[t].pc = "recall"
      BY <1>0, <2>2, <2>6 DEF Recall, TypeOK, ReplierState
    <3> QED BY <1>1, <2>2, <3>1 DEF Holds, Asked, Verdict, Cascades, Sweeps, ReplierState
  <2>7. ASSUME NEW r \in Requests, CascadeTo(t, r) PROVE Holds(t)'
    <3>1. replier'[t] = [replier[t] EXCEPT !.pc = "cascading", !.item = r] /\ replier[t].pc = "cascade"
      BY <1>0, <2>2, <2>7 DEF CascadeTo, TypeOK, ReplierState
    <3>2. Asked(r)' /\ <<r, "declined">> \in published'
      BY <1>1, <1>2, <2>7 DEF CascadeTo, Unseen, Permissions
    <3> QED BY <1>1, <2>2, <3>1, <3>2 DEF Holds, Asked, Verdict, Cascades, Sweeps, ReplierState
  <2>8. ASSUME NEW r \in Requests, SweepTo(t, r) PROVE Holds(t)'
    <3>1. /\ \/ replier'[t] = [replier[t] EXCEPT !.seen = @ \cup {r}]
             \/ replier'[t] = [replier[t] EXCEPT !.pc = "granting", !.item = r]
          /\ replier[t].pc = "sweep"
      BY <1>0, <2>2, <2>8 DEF SweepTo, TypeOK, ReplierState
    <3>2. Asked(r)'
      BY <1>1, <1>2, <2>8 DEF SweepTo, Unseen, Permissions
    <3> QED BY <1>1, <2>2, <3>1, <3>2 DEF Holds, Asked, Verdict, Cascades, Sweeps, ReplierState
  <2>9. CASE PublishGrant(t)
    <3>1. replier'[t] = [replier[t] EXCEPT !.pc = "sweeping"] /\ replier[t].pc = "granting"
      BY <1>0, <2>2, <2>9 DEF PublishGrant, TypeOK, ReplierState
    <3>2. <<replier[t].item, "granted">> \in published'
      BY <2>9 DEF PublishGrant
    <3> QED BY <1>1, <2>2, <3>1, <3>2 DEF Holds, Asked, Verdict, Cascades, Sweeps, ReplierState
  <2>10. CASE SettleItem(t)
    <3>1. /\ replier'[t] = [replier[t] EXCEPT !.pc = IF @ = "cascading" THEN "cascade" ELSE "sweep",
                                            !.seen = @ \cup {replier[t].item}]
          /\ replier[t].pc \in {"cascading", "sweeping"}
      BY <1>0, <2>2, <2>10 DEF SettleItem, TypeOK, ReplierState
    <3> QED BY <1>1, <2>2, <3>1 DEF Holds, Asked, Verdict, Cascades, Sweeps, ReplierState
  <2>11. CASE Replied(t)
    <3>1. replier'[t] = Idle
      BY <1>0, <2>11 DEF Replied, TypeOK
    <3> QED BY <3>1 DEF Idle, Holds, Cascades, Sweeps
  <2> QED BY <1>3, <2>1, <2>3, <2>4, <2>5, <2>6, <2>7, <2>8, <2>9, <2>10, <2>11 DEF Replying
<1>4. ASSUME NEW t \in Repliers,
             ~\E r \in Requests, v \in Replies : Reply(t, r, v),
             ~Replying(t)
      PROVE  replier'[t] = replier[t]
  <2>1. ASSUME NEW u \in Repliers, NEW r \in Requests, NEW v \in Replies, Reply(u, r, v)
        PROVE  replier'[t] = replier[t]
    BY <1>0, <1>4, <2>1 DEF Reply, TypeOK
  <2>2. ASSUME NEW u \in Repliers, Replying(u) PROVE replier'[t] = replier[t]
    <3>1. u # t
      BY <1>4, <2>2
    <3>2. PublishReply(u) \/ SaveRules(u) \/ PublishGrant(u) \/ Replied(u) => replier'[t] = replier[t]
      BY <1>0, <3>1 DEF PublishReply, SaveRules, PublishGrant, Replied, TypeOK
    <3>3. Settle(u) \/ Recall(u) \/ SettleItem(u) => replier'[t] = replier[t]
      BY <1>0, <3>1 DEF Settle, Recall, SettleItem, TypeOK
    <3>4. \A r \in Requests : CascadeTo(u, r) \/ SweepTo(u, r) => replier'[t] = replier[t]
      BY <1>0, <3>1 DEF CascadeTo, SweepTo, TypeOK
    <3> QED BY <2>2, <3>2, <3>3, <3>4 DEF Replying
  <2>3. CASE \/ \E r \in Requests : Evaluate(r) \/ Create(r) \/ Resume(r) \/ InterruptAsker(r)
             \/ Reconfigure
             \/ \E x \in Resources : RemoveSaved(x)
             \/ Close
             \/ UNCHANGED vars
    BY <2>3 DEF Evaluate, Create, Resume, InterruptAsker, Reconfigure, RemoveSaved, Close, vars
  <2> QED BY <2>1, <2>2, <2>3 DEF Next
<1> QED BY <1>0, <1>1, <1>3, <1>4, HoldsStays

-----------------------------------------------------------------------------
(* Who is answered, and who is declined.                                    *)

\* A settlement gives what was published before, or keeps what there was.
LEMMA SettleAnswers ==
  ASSUME TypeOK, AnsweredAsPublished, NEW r \in Requests, NEW v,
         <<r, Verdict(v)>> \in published,
         deferred' = Settled(r, v), published' = published, closed' = closed
  PROVE  AnsweredAsPublished'
BY SettledType DEF AnsweredAsPublished

LEMMA NextAnswered ==
  ASSUME RequestsAssumption, IInv, [Next]_vars
  PROVE  AnsweredAsPublished'
<1> USE DEF rules, said
<1>0. TypeOK /\ AnsweredAsPublished /\ \A t \in Repliers : Holds(t)
  BY DEF IInv
<1>1. ASSUME NEW t \in Repliers, Settle(t) PROVE AnsweredAsPublished'
  <2>1. /\ replier[t].target \in Requests
        /\ <<replier[t].target, Verdict(replier[t].reply)>> \in published
    BY <1>0, <1>1 DEF Settle, Holds, Asked
  <2> QED BY <1>0, <1>1, <2>1, SettleAnswers DEF Settle
<1>2. ASSUME NEW t \in Repliers, SettleItem(t) PROVE AnsweredAsPublished'
  <2>1. /\ replier[t].item \in Requests
        /\ <<replier[t].item, Verdict(replier[t].reply)>> \in published
    BY <1>0, <1>2 DEF SettleItem, Holds, Asked
  <2> QED BY <1>0, <1>2, <2>1, SettleAnswers DEF SettleItem
<1>3. ASSUME Close PROVE AnsweredAsPublished'
  BY <1>0, <1>3 DEF Close, AnsweredAsPublished, TypeOK
<1>4. CASE published \subseteq published' /\ UNCHANGED <<deferred, closed>>
  BY <1>0, <1>4 DEF AnsweredAsPublished
<1>5. ASSUME NEW t \in Repliers, Replying(t)
      PROVE  Settle(t) \/ SettleItem(t) \/ UNCHANGED <<deferred, closed>>
  BY <1>5 DEF Replying, PublishReply, SaveRules, Recall, CascadeTo, SweepTo, PublishGrant, Replied
<1>6. ASSUME \/ \E t \in Repliers, r \in Requests, v \in Replies : Reply(t, r, v)
             \/ \E r \in Requests : Evaluate(r) \/ Create(r) \/ Resume(r) \/ InterruptAsker(r)
             \/ Reconfigure
             \/ \E x \in Resources : RemoveSaved(x)
             \/ UNCHANGED vars
      PROVE  UNCHANGED <<deferred, closed>>
  BY <1>6 DEF Reply, Evaluate, Create, Resume, InterruptAsker, Reconfigure, RemoveSaved, vars
<1> QED
  BY <1>1, <1>2, <1>3, <1>4, <1>5, <1>6, NextGrows DEF Next

LEMMA NextDeclines ==
  ASSUME RequestsAssumption, IInv, [Next]_vars
  PROVE  RejectStaysInSession'
<1> USE DEF rules, said
<1>0. TypeOK /\ RejectStaysInSession /\ \A t \in Repliers : Holds(t)
  BY DEF IInv
<1>1. ASSUME NEW t \in Repliers, PublishReply(t) PROVE RejectStaysInSession'
  <2>1. /\ replier[t].target \in Requests
        /\ replier[t].reply = "reject" => replier[t].target \in rejected
    BY <1>0, <1>1 DEF PublishReply, Holds, Asked
  <2> QED BY <1>0, <1>1, <2>1 DEF PublishReply, RejectStaysInSession, Verdict
<1>2. ASSUME NEW t \in Repliers, NEW r \in Requests, CascadeTo(t, r) PROVE RejectStaysInSession'
  <2>1. replier[t].target \in rejected /\ replier[t].target \notin Questions
    BY <1>0, <1>2 DEF CascadeTo, Holds, Cascades
  <2>2. SessionOf[r] = SessionOf[replier[t].target] /\ r \notin Questions
    BY <1>2 DEF CascadeTo, SameSession, Unseen, Permissions
  <2>3. \E q \in rejected : q = r \/ (SessionOf[q] = SessionOf[r] /\ {q, r} \cap Questions = {})
    BY <2>1, <2>2
  <2> QED BY <1>0, <1>2, <2>3 DEF CascadeTo, RejectStaysInSession
<1>3. ASSUME NEW t \in Repliers, PublishGrant(t) PROVE RejectStaysInSession'
  BY <1>0, <1>3 DEF PublishGrant, RejectStaysInSession
<1>4. CASE published' = published /\ rejected \subseteq rejected'
  BY <1>0, <1>4 DEF RejectStaysInSession
<1>5. ASSUME NEW t \in Repliers, Replying(t)
      PROVE  \/ PublishReply(t) \/ PublishGrant(t) \/ published' = published
             \/ \E r \in Requests : CascadeTo(t, r)
  BY <1>5 DEF Replying, SaveRules, Settle, Recall, SweepTo, SettleItem, Replied
<1>6. ASSUME \/ \E t \in Repliers, r \in Requests, v \in Replies : Reply(t, r, v)
             \/ \E r \in Requests : Evaluate(r) \/ Create(r) \/ Resume(r) \/ InterruptAsker(r)
             \/ Reconfigure
             \/ \E x \in Resources : RemoveSaved(x)
             \/ Close
             \/ UNCHANGED vars
      PROVE  published' = published
  BY <1>6 DEF Reply, Evaluate, Create, Resume, InterruptAsker, Reconfigure, RemoveSaved, Close, vars
<1> QED
  BY <1>1, <1>2, <1>3, <1>4, <1>5, <1>6, NextGrows DEF Next

-----------------------------------------------------------------------------
(* What a reply owes is ahead of its loop.                                  *)

\* A request that was asked does not come back into the pending map.
LEMMA NextForgets ==
  ASSUME RequestsAssumption, IInv, [Next]_vars, NEW r, Asked(r), r \in pending'
  PROVE  r \in pending
<1> USE DEF rules, said
<1>1. ASSUME NEW q \in Requests, Create(q) PROVE r \in pending
  BY <1>1 DEF Create, Asked
<1>2. ASSUME NEW t \in Repliers, Replying(t) PROVE r \in pending
  BY <1>2 DEF Replying, PublishReply, SaveRules, Settle, Recall, CascadeTo, SweepTo, PublishGrant,
     SettleItem, Replied
<1>3. CASE \/ \E t \in Repliers, q \in Requests, v \in Replies : Reply(t, q, v)
           \/ \E q \in Requests : Evaluate(q) \/ Resume(q) \/ InterruptAsker(q)
           \/ Reconfigure
           \/ \E x \in Resources : RemoveSaved(x)
           \/ Close
           \/ UNCHANGED vars
  BY <1>3 DEF Reply, Evaluate, Resume, InterruptAsker, Reconfigure, RemoveSaved, Close, vars
<1> QED
  BY <1>1, <1>2, <1>3 DEF Next

\* A reply goes on owing what it owes, unless it passed or settled it.
LEMMA OwesStays ==
  ASSUME NEW t \in Repliers, NEW r, Owes(t, r),
         Asked(r)', r \in pending' => r \in pending,
         replier'[t].reply = replier[t].reply, replier'[t].target = replier[t].target,
         replier'[t].rules = replier[t].rules,
         replier[t].reply = "always" => config' = config,
         r \in replier'[t].seen => r \in replier[t].seen \/ r \notin pending'
  PROVE  Owes(t, r)'
BY DEF Owes, SameSession, Denied, Covered

LEMMA OwesRightStays ==
  ASSUME RequestsAssumption, IInv, [Next]_vars, NEW t \in Repliers,
         replier'[t] = replier[t], owed'[t] \subseteq owed[t],
         replier[t].reply = "always" => config' = config \/ owed'[t] = {}
  PROVE  OwesRight(t)'
<1>1. OwesRight(t)
  BY DEF IInv, OwedIsAhead, OwesRight
<1>2. ASSUME NEW r \in owed'[t] PROVE Owes(t, r)'
  <2>1. Owes(t, r) /\ Asked(r)
    BY <1>1 DEF OwesRight, Owes
  <2>2. Asked(r)' /\ (r \in pending' => r \in pending)
    BY <2>1, NextGrows, NextForgets
  <2>3. replier[t].reply = "always" => config' = config
    OBVIOUS
  <2> QED BY <2>1, <2>2, <2>3, OwesStays
<1> QED
  BY <1>1, <1>2 DEF OwesRight

LEMMA NextOwes ==
  ASSUME RequestsAssumption, IInv, [Next]_vars
  PROVE  OwedIsAhead'
<1> USE DEF rules, said
<1>0. TypeOK /\ ListedIsOpen /\ (\A t \in Repliers : Holds(t) /\ OwesRight(t)) /\ RequestsAssumption
  BY DEF IInv, OwedIsAhead, OwesRight
<1>1. ASSUME NEW t \in Repliers, UNCHANGED <<replier, owed>>, config' = config
      PROVE  OwesRight(t)'
  BY <1>1, OwesRightStays
<1>2. ASSUME NEW t \in Repliers, Reconfigure \/ \E x \in Resources : RemoveSaved(x)
      PROVE  OwesRight(t)'
  BY <1>0, <1>2, OwesRightStays DEF Reconfigure, RemoveSaved, Forgiven
<1>3. ASSUME NEW t \in Repliers, NEW r \in Requests, NEW v \in Replies, NEW u \in Repliers,
             Reply(u, r, v)
      PROVE  OwesRight(t)'
  <2>1. owed' = owed /\ config' = config /\ replier[u].pc = "idle"
    BY <1>3 DEF Reply
  <2>2. CASE u = t
    <3>1. replier'[t] = [Idle EXCEPT !.pc = "publish", !.target = r, !.reply = v]
      BY <1>0, <1>3, <2>2 DEF Reply, TypeOK
    <3>2. owed'[t] = {} /\ replier'[t].seen = {}
      BY <1>0, <2>1, <2>2, <3>1 DEF OwesRight, Idle
    <3> QED BY <3>2 DEF OwesRight
  <2>3. CASE u # t
    BY <1>0, <1>3, <2>1, <2>3, OwesRightStays DEF Reply, TypeOK
  <2> QED BY <2>2, <2>3
<1>4. ASSUME NEW t \in Repliers, NEW u \in Repliers, u # t, Replying(u)
      PROVE  OwesRight(t)'
  <2>1. PublishReply(u) \/ SaveRules(u) \/ PublishGrant(u) \/ Replied(u) =>
          replier'[t] = replier[t] /\ owed'[t] = owed[t] /\ config' = config
    BY <1>0, <1>4 DEF PublishReply, SaveRules, PublishGrant, Replied, TypeOK
  <2>2. Settle(u) \/ Recall(u) \/ SettleItem(u) =>
          replier'[t] = replier[t] /\ owed'[t] = owed[t] /\ config' = config
    BY <1>0, <1>4 DEF Settle, Recall, SettleItem, TypeOK
  <2>3. \A r \in Requests : CascadeTo(u, r) \/ SweepTo(u, r) =>
          replier'[t] = replier[t] /\ owed'[t] = owed[t] /\ config' = config
    BY <1>0, <1>4 DEF CascadeTo, SweepTo, TypeOK
  <2> QED BY <1>4, <2>1, <2>2, <2>3, OwesRightStays DEF Replying
<1>5. ASSUME NEW t \in Repliers, Replying(t)
      PROVE  OwesRight(t)'
  <2>0. /\ TypeOK /\ Holds(t) /\ OwesRight(t) /\ replier[t] \in ReplierState
        /\ \A r : Asked(r) => Asked(r)' /\ (r \in pending' => r \in pending)
    BY <1>0, NextGrows, NextForgets DEF TypeOK
  <2>1. CASE PublishReply(t) \/ SaveRules(t)
    <3>1. \E pc \in {"save", "settle"} : replier'[t] = [replier[t] EXCEPT !.pc = pc]
      BY <2>0, <2>1 DEF PublishReply, SaveRules, TypeOK
    <3>2. owed'[t] = {} /\ replier[t].seen = {}
      BY <2>0, <2>1 DEF PublishReply, SaveRules, OwesRight
    <3> QED BY <2>0, <3>1, <3>2 DEF OwesRight, ReplierState
  <2>2. CASE Replied(t)
    <3>1. owed'[t] = {} /\ replier'[t] = Idle
      BY <2>0, <2>2 DEF Replied, TypeOK
    <3> QED BY <3>1 DEF OwesRight, Idle
  <2>3. CASE Settle(t)
    <3>0. owed[t] = {} /\ replier[t].seen = {} /\ replier[t].pc = "settle"
      BY <2>0, <2>3 DEF Settle, OwesRight
    <3>1. CASE After(t) = "cascade"
      <4>1. /\ replier'[t] = [replier[t] EXCEPT !.pc = "cascade"]
            /\ owed'[t] = {q \in Permissions \ {replier[t].target} : SameSession(t, q)}
        BY <2>0, <2>3, <3>1 DEF Settle, TypeOK
      <4>2. replier[t].reply = "reject"
        BY <3>1 DEF After
      <4>3. replier'[t].pc = "cascade" /\ replier'[t].reply = "reject"
            /\ replier'[t].seen = {} /\ replier'[t].target = replier[t].target
        BY <2>0, <3>0, <4>1, <4>2 DEF ReplierState
      <4>4. ASSUME NEW q \in owed'[t] PROVE Owes(t, q)'
        <5>1. Asked(q)' /\ q \notin Questions
          BY <1>0, <2>0, <4>1 DEF Permissions, ListedIsOpen, Asked, TypeOK
        <5>2. SameSession(t, q)'
          BY <4>1, <4>3 DEF SameSession
        <5> QED BY <4>3, <5>1, <5>2 DEF Owes
      <4> QED BY <4>3, <4>4 DEF OwesRight
    <3>2. CASE After(t) = "recall"
      <4>1. owed'[t] = {} /\ replier'[t] = [replier[t] EXCEPT !.pc = "recall"]
        BY <2>0, <2>3, <3>0, <3>2 DEF Settle, TypeOK
      <4> QED BY <2>0, <3>0, <4>1 DEF OwesRight, ReplierState
    <3>3. CASE After(t) = "idle"
      <4>1. owed'[t] = {} /\ replier'[t] = Idle
        BY <2>0, <2>3, <3>0, <3>3 DEF Settle, TypeOK
      <4> QED BY <4>1 DEF OwesRight, Idle
    <3> QED BY <3>1, <3>2, <3>3 DEF After
  <2>4. CASE Recall(t)
    <3>1. /\ replier'[t] = [replier[t] EXCEPT !.pc = "sweep", !.rules = saved]
          /\ replier[t].seen = {} /\ replier[t].reply = "always"
          /\ owed'[t] = {r \in Permissions : ~Denied(r) /\ Covered(r, saved)}
          /\ config' = config
      BY <2>0, <2>4 DEF Recall, TypeOK, OwesRight, Holds, Sweeps, ReplierState
    <3>2. /\ replier'[t].pc = "sweep" /\ replier'[t].reply = "always" /\ replier'[t].rules = saved
          /\ replier'[t].seen = {}
      BY <2>0, <3>1 DEF ReplierState
    <3>3. ASSUME NEW q \in owed'[t] PROVE Owes(t, q)'
      <4>1. Asked(q)' /\ q \notin Questions
        BY <1>0, <2>0, <3>1 DEF Permissions, ListedIsOpen, Asked, TypeOK
      <4>2. ~Denied(q)' /\ \A x \in Needs[q] : x \in saved \/ config'[x] = "allow"
        BY <3>1 DEF Denied, Covered
      <4> QED BY <3>2, <4>1, <4>2 DEF Owes, Covered
    <3> QED BY <3>2, <3>3 DEF OwesRight
  <2>5. ASSUME NEW q \in Requests, CascadeTo(t, q) PROVE OwesRight(t)'
    <3>1. replier'[t] = [replier[t] EXCEPT !.pc = "cascading", !.item = q] /\ owed' = owed /\ config' = config
      BY <2>0, <2>5 DEF CascadeTo, TypeOK, ReplierState
    <3> QED BY <2>0, <3>1, OwesStays DEF OwesRight, Owes, ReplierState
  <2>6. ASSUME NEW q \in Requests, SweepTo(t, q) PROVE OwesRight(t)'
    <3>0. owed' = owed /\ config' = config /\ pending' = pending /\ replier[t].pc = "sweep" /\ replier[t].reply = "always"
      BY <2>0, <2>6 DEF SweepTo, Holds, Sweeps
    <3>1. CASE Denied(q) \/ ~Covered(q, replier[t].rules)
      <4>1. replier'[t] = [replier[t] EXCEPT !.seen = @ \cup {q}]
        BY <2>0, <2>6, <3>1 DEF SweepTo, TypeOK
      <4>2. q \notin owed[t]
        BY <2>0, <3>0, <3>1 DEF OwesRight, Owes
      <4>3. ASSUME NEW r \in owed'[t] PROVE Owes(t, r)'
        <5>1. Owes(t, r) /\ Asked(r) /\ r # q
          BY <2>0, <3>0, <4>2 DEF OwesRight, Owes
        <5> QED BY <2>0, <3>0, <4>1, <5>1, OwesStays DEF ReplierState
      <4> QED BY <2>0, <3>0, <4>1, <4>3 DEF OwesRight, ReplierState
    <3>2. CASE ~(Denied(q) \/ ~Covered(q, replier[t].rules))
      <4>1. replier'[t] = [replier[t] EXCEPT !.pc = "granting", !.item = q]
        BY <2>0, <2>6, <3>2 DEF SweepTo, TypeOK, ReplierState
      <4> QED BY <2>0, <3>0, <4>1, OwesStays DEF OwesRight, Owes, ReplierState
    <3> QED BY <3>1, <3>2
  <2>7. CASE PublishGrant(t)
    <3>1. replier'[t] = [replier[t] EXCEPT !.pc = "sweeping"] /\ owed' = owed /\ config' = config
      BY <2>0, <2>7 DEF PublishGrant, TypeOK
    <3> QED BY <2>0, <3>1, OwesStays DEF OwesRight, Owes, ReplierState
  <2>8. CASE SettleItem(t)
    <3>1. /\ replier'[t] = [replier[t] EXCEPT !.pc = IF @ = "cascading" THEN "cascade" ELSE "sweep",
                                            !.seen = @ \cup {replier[t].item}]
          /\ owed' = owed /\ config' = config /\ pending' = pending \ {replier[t].item}
      BY <2>0, <2>8 DEF SettleItem, TypeOK, ReplierState
    <3>2. /\ replier'[t].pc \in {"cascade", "sweep"}
          /\ replier'[t].seen = replier[t].seen \cup {replier[t].item}
          /\ replier'[t].reply = replier[t].reply /\ replier'[t].target = replier[t].target
          /\ replier'[t].rules = replier[t].rules
      BY <2>0, <3>1 DEF ReplierState
    <3>3. ASSUME NEW r \in owed'[t] PROVE Owes(t, r)'
      <4>1. Owes(t, r) /\ Asked(r)
        BY <2>0, <3>1 DEF OwesRight, Owes
      <4>2. r \in replier'[t].seen => r \in replier[t].seen \/ r \notin pending'
        BY <3>1, <3>2
      <4> QED BY <2>0, <3>1, <3>2, <4>1, <4>2, OwesStays
    <3> QED BY <3>2, <3>3 DEF OwesRight
  <2> QED BY <1>5, <2>1, <2>2, <2>3, <2>4, <2>5, <2>6, <2>7, <2>8 DEF Replying
<1>6. ASSUME NEW t \in Repliers PROVE OwesRight(t)'
  <2>1. CASE \E u \in Repliers : Replying(u)
    BY <1>4, <1>5, <2>1
  <2>2. CASE \E u \in Repliers, r \in Requests, v \in Replies : Reply(u, r, v)
    BY <1>3, <2>2
  <2>3. CASE Reconfigure \/ \E x \in Resources : RemoveSaved(x)
    BY <1>2, <2>3
  <2>4. CASE \/ \E r \in Requests : Evaluate(r) \/ Create(r) \/ Resume(r) \/ InterruptAsker(r)
             \/ Close
             \/ UNCHANGED vars
    <3>1. UNCHANGED <<replier, owed>> /\ config' = config
      BY <2>4 DEF Evaluate, Create, Resume, InterruptAsker, Close, vars
    <3> QED BY <1>1, <3>1
  <2> QED BY <2>1, <2>2, <2>3, <2>4 DEF Next
<1> QED
  BY <1>6 DEF OwedIsAhead

-----------------------------------------------------------------------------
(* The theorems.                                                            *)

LEMMA InitInductive ==
  ASSUME RequestsAssumption, Init
  PROVE  IInv
<1>1. TypeOK
  BY InitTypes
<1>2. \A t \in Repliers : Holds(t) /\ OwesRight(t)
  BY DEF Init, Idle, Holds, OwesRight, Cascades, Sweeps
<1>3. ListedIsOpen /\ UnaskedIsOpen /\ AnsweredAsPublished /\ RejectStaysInSession
  BY DEF Init, ListedIsOpen, UnaskedIsOpen, AnsweredAsPublished, RejectStaysInSession
<1> QED
  BY <1>1, <1>2, <1>3 DEF IInv, OwedIsAhead

LEMMA NextInductive ==
  ASSUME RequestsAssumption, IInv, [Next]_vars
  PROVE  IInv'
BY NextTypes, NextListed, NextHolds, NextAnswered, NextDeclines, NextOwes DEF IInv

\* The inductive invariant of permission and question requests.
THEOREM Inductive == Spec => []IInv
<1>1. Init => IInv
  BY RequestsAssumption, InitInductive
<1>2. IInv /\ [Next]_vars => IInv'
  BY RequestsAssumption, NextInductive
<1> QED
  BY <1>1, <1>2, PTL DEF Spec

\* Types: every reachable state is one permission.ts and question.ts declare.
THEOREM TypeCorrect == Spec => []TypeOK
<1>1. IInv => TypeOK
  BY DEF IInv
<1> QED
  BY <1>1, Inductive, PTL

\* No asker is forgotten, and no settled or abandoned request is offered to the
\* user, for any number of askers and replies.
THEOREM WaitersAreListed == Spec => []ListedIsOpen
<1>1. IInv => ListedIsOpen
  BY DEF IInv
<1> QED
  BY <1>1, Inductive, PTL

\* An asker goes on as clients were told.
THEOREM AnswersArePublished == Spec => []AnsweredAsPublished
<1>1. IInv => AnsweredAsPublished
  BY DEF IInv
<1> QED
  BY <1>1, Inductive, PTL

\* A reject declines its own request and permissions of its session only.
THEOREM RejectsStayInSession == Spec => []RejectStaysInSession
<1>1. IInv => RejectStaysInSession
  BY DEF IInv
<1> QED
  BY <1>1, Inductive, PTL

\* A reply that ends has reached everybody it owed an answer.
LEMMA NextReaches ==
  ASSUME RequestsAssumption, IInv, [Next]_vars, NEW t \in Repliers,
         replier[t].pc # "idle", replier'[t].pc = "idle"
  PROVE  owed[t] \cap pending = {}
<1> USE DEF rules, said
<1>0. /\ TypeOK /\ Holds(t) /\ OwesRight(t) /\ replier[t] \in ReplierState
  BY DEF IInv, OwedIsAhead, TypeOK
<1>1. CASE Replied(t)
  <2>1. ASSUME NEW r \in owed[t], r \in pending PROVE FALSE
    <3>1. r \in Requests /\ r \in Unseen(t) /\ Owes(t, r)
      BY <1>0, <2>1 DEF OwesRight, Owes, Asked, Unseen, Permissions
    <3>2. replier[t].pc = "cascade" /\ SameSession(t, r)
      BY <1>0, <1>1, <3>1 DEF Replied, Owes, Holds, Cascades
    <3> QED BY <1>1, <3>1, <3>2 DEF Replied
  <2> QED BY <2>1
<1>2. CASE Settle(t)
  BY <1>0, <1>2 DEF Settle, OwesRight
<1>3. ASSUME ~Replied(t), ~Settle(t) PROVE FALSE
  <2>1. ASSUME NEW u \in Repliers, Replying(u) PROVE FALSE
    <3>1. PublishReply(u) \/ SaveRules(u) \/ Recall(u) \/ PublishGrant(u) \/ SettleItem(u)
            => replier'[t].pc # "idle"
      BY <1>0 DEF PublishReply, SaveRules, Recall, PublishGrant, SettleItem, TypeOK, ReplierState
    <3>2. \A r \in Requests : CascadeTo(u, r) \/ SweepTo(u, r) => replier'[t].pc # "idle"
      BY <1>0 DEF CascadeTo, SweepTo, TypeOK, ReplierState
    <3>3. Replied(u) \/ Settle(u) => replier'[t] = replier[t]
      BY <1>0, <1>3 DEF Replied, Settle, TypeOK
    <3> QED BY <2>1, <3>1, <3>2, <3>3 DEF Replying
  <2>2. ASSUME NEW u \in Repliers, NEW r \in Requests, NEW v \in Replies, Reply(u, r, v)
        PROVE  FALSE
    BY <1>0, <2>2 DEF Reply, TypeOK
  <2>3. CASE \/ \E r \in Requests : Evaluate(r) \/ Create(r) \/ Resume(r) \/ InterruptAsker(r)
             \/ Reconfigure
             \/ \E x \in Resources : RemoveSaved(x)
             \/ Close
             \/ UNCHANGED vars
    BY <2>3 DEF Evaluate, Create, Resume, InterruptAsker, Reconfigure, RemoveSaved, Close, vars
  <2> QED BY <2>1, <2>2, <2>3 DEF Next
<1> QED
  BY <1>1, <1>2, <1>3

\* A reject reaches what its session had pending, an "always" what the
\* remembered rules cover, however the pending map changes under the loop.
THEOREM RepliesReach == Spec => RepliesReachEveryone
<1>1. IInv /\ [Next]_vars =>
        [\A t \in Repliers :
           replier[t].pc # "idle" /\ replier'[t].pc = "idle" => owed[t] \cap pending = {}]_vars
  BY RequestsAssumption, NextReaches
<1> QED
  BY <1>1, Inductive, PTL DEF Spec, RepliesReachEveryone

=============================================================================
