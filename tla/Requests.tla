------------------------------ MODULE Requests ------------------------------
(***************************************************************************)
(* Permission and question requests of one location                        *)
(* (packages/core/src/permission.ts, question.ts): a tool asks and waits   *)
(* on a deferred, somebody replies.  The pending requests are a map in     *)
(* memory; a reply looks its request up, publishes Replied, may save       *)
(* rules, and only then settles the deferred and forgets the request.      *)
(* Publishing and reading rules let other fibers run, so two replies, an   *)
(* interruption of the asker and new requests fall in between.  A reject   *)
(* goes on to the other requests of the session, an "always" to all        *)
(* requests that the saved rules now cover.                                *)
(*                                                                         *)
(* Rules are abstract: a resource is allowed, asked for or denied by the   *)
(* configured rules, and a saved rule allows one resource.  Request ids    *)
(* are fresh.  The permission modules, which only decide what asks, are    *)
(* not here.                                                               *)
(***************************************************************************)
EXTENDS Integers, FiniteSets

CONSTANTS
  Requests,     (* request ids                                             *)
  Questions,    (* those that are questions                                *)
  Posts,        (* those that nobody waits for (ask, not assert)           *)
  Sessions,     (* sessions                                                *)
  SessionOf,    (* the session of each request                             *)
  Resources,    (* what permissions are about                              *)
  Needs,        (* request.resources                                       *)
  Saves,        (* request.save                                            *)
  Configs,      (* configured rules: what they say of each resource        *)
  Repliers,     (* fibers that reply                                       *)
  None,         (* no request                                              *)
  MaxReplies    (* bound: replies                                          *)

ASSUME RequestsAssumption ==
  /\ Questions \subseteq Requests
  /\ Posts \subseteq Requests \ Questions
  /\ SessionOf \in [Requests -> Sessions]
  /\ Needs \in [Requests -> SUBSET Resources]
  /\ Saves \in [Requests -> SUBSET Resources]
  /\ Configs \subseteq [Resources -> {"allow", "ask", "deny"}]
  /\ None \notin Requests
  /\ MaxReplies \in Nat

VARIABLES
  asker,        (* how far each request is with whoever makes it           *)
  pending,      (* the pending map                                         *)
  deferred,     (* each request's deferred                                 *)
  config,       (* the configured rules                                    *)
  saved,        (* resources with a saved allow rule                       *)
  published,    (* Replied and Rejected events: request and verdict        *)
  rejected,     (* requests that a client rejected                         *)
  replies,      (* how many replies there were                             *)
  replier,      (* what each replying fiber is doing                       *)
  owed,         (* history: the requests each reply has to reach           *)
  closed        (* the location's layer was closed                         *)

rules == <<config, saved>>
said  == <<published, rejected, replies>>
vars  == <<asker, pending, deferred, rules, said, replier, owed, closed>>

-----------------------------------------------------------------------------
Replies == {"once", "always", "reject"}

\* A replier's place, the request it replies to, its reply, the entries its
\* loop has passed, the saved rules it read, and the entry it is at.
Idle == [pc |-> "idle", target |-> None, reply |-> "once", seen |-> {},
         rules |-> {}, item |-> None]

Init ==
  /\ asker = [r \in Requests |-> "new"]
  /\ pending = {}
  /\ deferred = [r \in Requests |-> "open"]
  /\ config \in Configs
  /\ saved = {}
  /\ published = {}
  /\ rejected = {}
  /\ replies = 0
  /\ replier = [t \in Repliers |-> Idle]
  /\ owed = [t \in Repliers |-> {}]
  /\ closed = FALSE

-----------------------------------------------------------------------------
(* Rules.                                                                   *)

Denied(r) == \E x \in Needs[r] : config[x] = "deny"

\* Saved rules come after the configured ones and only ever allow.
Covered(r, allowed) == \A x \in Needs[r] : x \in allowed \/ config[x] = "allow"

-----------------------------------------------------------------------------
(* Asking.                                                                  *)

\* evaluateInput: the rules deny, allow or have to ask; a question just asks.
Evaluate(r) ==
  /\ asker[r] = "new"
  /\ asker' = [asker EXCEPT ![r] =
        IF r \notin Questions /\ (Denied(r) \/ Covered(r, saved)) THEN "done" ELSE "asking"]
  /\ UNCHANGED <<pending, deferred, rules, said, replier, owed, closed>>

\* create, for an asker that waits (assert, a question) or for one that only
\* posts the request (ask).
Create(r) ==
  /\ asker[r] = "asking"
  /\ asker' = [asker EXCEPT ![r] = IF r \in Posts THEN "posted" ELSE "waiting"]
  /\ pending' = pending \cup {r}
  /\ UNCHANGED <<deferred, rules, said, replier, owed, closed>>

\* The asker resumes with what its deferred was settled with.
Resume(r) ==
  /\ asker[r] = "waiting"
  /\ deferred[r] # "open"
  /\ asker' = [asker EXCEPT ![r] = "done"]
  /\ pending' = pending \ {r}
  /\ UNCHANGED <<deferred, rules, said, replier, owed, closed>>

\* Faulty variant of InterruptAsker: the entry is left behind.
InterruptAskerOnly(r) ==
  /\ asker[r] = "waiting"
  /\ asker' = [asker EXCEPT ![r] = "done"]
  /\ UNCHANGED <<pending, deferred, rules, said, replier, owed, closed>>

\* The asker is interrupted while it waits.
InterruptAsker(r) ==
  /\ asker[r] = "waiting"
  /\ asker' = [asker EXCEPT ![r] = "done"]
  /\ pending' = pending \ {r}
  /\ UNCHANGED <<deferred, rules, said, replier, owed, closed>>

-----------------------------------------------------------------------------
(* Replying.                                                                *)

\* Faulty variant of Reply: the request is settled before Replied is published.
ReplySettlesFirst(t, r, v) ==
  /\ replier[t].pc = "idle"
  /\ r \in pending
  /\ r \in Questions => v # "always"
  /\ replier' = [replier EXCEPT ![t] = [Idle EXCEPT !.pc = "settle", !.target = r, !.reply = v]]
  /\ replies < MaxReplies
  /\ replies' = replies + 1
  /\ rejected' = IF v = "reject" THEN rejected \cup {r} ELSE rejected
  /\ UNCHANGED <<asker, pending, deferred, rules, published, owed, closed>>

\* The request is looked up; an unknown id is an error without effect.
Reply(t, r, v) ==
  /\ replier[t].pc = "idle"
  /\ r \in pending
  /\ r \in Questions => v # "always"
  /\ replier' = [replier EXCEPT ![t] = [Idle EXCEPT !.pc = "publish", !.target = r, !.reply = v]]
  /\ replies < MaxReplies
  /\ replies' = replies + 1
  /\ rejected' = IF v = "reject" THEN rejected \cup {r} ELSE rejected
  /\ UNCHANGED <<asker, pending, deferred, rules, published, owed, closed>>

Verdict(v) == IF v = "reject" THEN "declined" ELSE "granted"

\* The rules an "always" asks to remember.
Remembers(t) ==
  IF replier[t].reply = "always" THEN Saves[replier[t].target] ELSE {}

\* Replied is published, with the request still pending.
PublishReply(t) ==
  /\ replier[t].pc = "publish"
  /\ published' = published \cup {<<replier[t].target, Verdict(replier[t].reply)>>}
  /\ replier' = [replier EXCEPT ![t].pc = IF Remembers(t) # {} THEN "save" ELSE "settle"]
  /\ UNCHANGED <<asker, pending, deferred, rules, rejected, replies, owed, closed>>

SaveRules(t) ==
  /\ replier[t].pc = "save"
  /\ saved' = saved \cup Remembers(t)
  /\ replier' = [replier EXCEPT ![t].pc = "settle"]
  /\ UNCHANGED <<asker, pending, deferred, config, said, owed, closed>>

\* A deferred is settled by the first who tries.
Settled(r, v) == [deferred EXCEPT ![r] = IF @ = "open" THEN Verdict(v) ELSE @]

\* What follows the settlement: a rejected permission goes on to its session, a
\* remembered one to whoever it covers.
After(t) ==
  CASE replier[t].reply = "reject" /\ replier[t].target \notin Questions -> "cascade"
    [] Remembers(t) # {} -> "recall"
    [] OTHER -> "idle"

\* Faulty variant of SameSession: every session's requests are rejected.
AnySession(t, r) == TRUE

SameSession(t, r) == SessionOf[r] = SessionOf[replier[t].target]

Permissions == pending \ Questions

Settle(t) ==
  LET r == replier[t].target
  IN /\ replier[t].pc = "settle"
     /\ deferred' = Settled(r, replier[t].reply)
     /\ pending' = pending \ {r}
     /\ replier' = [replier EXCEPT ![t] =
           IF After(t) = "idle" THEN Idle ELSE [@ EXCEPT !.pc = After(t)]]
     /\ owed' = IF After(t) = "cascade"
                  THEN [owed EXCEPT ![t] = {q \in Permissions \ {r} : SameSession(t, q)}]
                  ELSE owed
     /\ UNCHANGED <<asker, rules, said, closed>>

-----------------------------------------------------------------------------
(* The loops over the pending map, which other fibers change meanwhile: an  *)
(* entry that was added is still passed, one that was removed is not.       *)

Recall(t) ==
  /\ replier[t].pc = "recall"
  /\ replier' = [replier EXCEPT ![t].pc = "sweep", ![t].rules = saved]
  /\ owed' = [owed EXCEPT ![t] = {r \in Permissions : ~Denied(r) /\ Covered(r, saved)}]
  /\ UNCHANGED <<asker, pending, deferred, rules, said, closed>>

Unseen(t) == Permissions \ replier[t].seen

\* The next entry of a reject's loop.
CascadeTo(t, r) ==
  /\ replier[t].pc = "cascade"
  /\ r \in Unseen(t)
  /\ SameSession(t, r)
  /\ replier' = [replier EXCEPT ![t].pc = "cascading", ![t].item = r]
  /\ published' = published \cup {<<r, "declined">>}
  /\ UNCHANGED <<asker, pending, deferred, rules, rejected, replies, owed, closed>>

\* The next entry of an "always" loop: the configured rules are read, and the
\* entry is passed by or granted.
SweepTo(t, r) ==
  /\ replier[t].pc = "sweep"
  /\ r \in Unseen(t)
  /\ IF Denied(r) \/ ~Covered(r, replier[t].rules)
       THEN replier' = [replier EXCEPT ![t].seen = @ \cup {r}]
       ELSE replier' = [replier EXCEPT ![t].pc = "granting", ![t].item = r]
  /\ UNCHANGED <<asker, pending, deferred, rules, said, owed, closed>>

PublishGrant(t) ==
  /\ replier[t].pc = "granting"
  /\ published' = published \cup {<<replier[t].item, "granted">>}
  /\ replier' = [replier EXCEPT ![t].pc = "sweeping"]
  /\ UNCHANGED <<asker, pending, deferred, rules, rejected, replies, owed, closed>>

SettleItem(t) ==
  LET r == replier[t].item
  IN /\ replier[t].pc \in {"cascading", "sweeping"}
     /\ deferred' = Settled(r, replier[t].reply)
     /\ pending' = pending \ {r}
     /\ replier' = [replier EXCEPT ![t].pc = IF @ = "cascading" THEN "cascade" ELSE "sweep",
                                   ![t].seen = @ \cup {r}]
     /\ UNCHANGED <<asker, rules, said, owed, closed>>

\* Faulty variant of Replied: the reply ends with entries left to pass.
RepliedAtOnce(t) ==
  /\ replier[t].pc \in {"cascade", "sweep"}
  /\ replier' = [replier EXCEPT ![t] = Idle]
  /\ owed' = [owed EXCEPT ![t] = {}]
  /\ UNCHANGED <<asker, pending, deferred, rules, said, closed>>

\* The loop is through.
Replied(t) ==
  /\ \/ replier[t].pc = "cascade" /\ \A r \in Unseen(t) : ~SameSession(t, r)
     \/ replier[t].pc = "sweep" /\ Unseen(t) = {}
  /\ replier' = [replier EXCEPT ![t] = Idle]
  /\ owed' = [owed EXCEPT ![t] = {}]
  /\ UNCHANGED <<asker, pending, deferred, rules, said, closed>>

-----------------------------------------------------------------------------
\* What a changed rule leaves owed: a reject does not ask for rules.
Forgiven ==
  [t \in Repliers |-> IF replier[t].reply = "always" THEN {} ELSE owed[t]]

\* The agent's rules change, a saved rule is removed, the layer closes.
Reconfigure ==
  /\ config' \in Configs \ {config}
  /\ owed' = Forgiven
  /\ UNCHANGED <<asker, pending, deferred, saved, said, replier, closed>>

RemoveSaved(x) ==
  /\ x \in saved
  /\ saved' = saved \ {x}
  /\ owed' = Forgiven
  /\ UNCHANGED <<asker, pending, deferred, config, said, replier, closed>>

Close ==
  /\ ~closed
  /\ closed' = TRUE
  /\ deferred' = [r \in Requests |->
        IF r \in pending /\ deferred[r] = "open" THEN "declined" ELSE deferred[r]]
  /\ pending' = {}
  /\ UNCHANGED <<asker, rules, said, replier, owed>>

Replying(t) ==
  \/ PublishReply(t)
  \/ SaveRules(t)
  \/ Settle(t)
  \/ Recall(t)
  \/ \E r \in Requests : CascadeTo(t, r) \/ SweepTo(t, r)
  \/ PublishGrant(t)
  \/ SettleItem(t)
  \/ Replied(t)

Next ==
  \/ \E r \in Requests :
       \/ Evaluate(r)
       \/ Create(r)
       \/ Resume(r)
       \/ InterruptAsker(r)
  \/ \E t \in Repliers, r \in Requests, v \in Replies : Reply(t, r, v)
  \/ \E t \in Repliers : Replying(t)
  \/ Reconfigure
  \/ \E x \in Resources : RemoveSaved(x)
  \/ Close

Spec == Init /\ [][Next]_vars

-----------------------------------------------------------------------------
(* Properties.                                                              *)

ReplierState ==
  [pc : {"idle", "publish", "save", "settle", "recall", "cascade", "cascading",
         "sweep", "granting", "sweeping"},
   target : Requests \cup {None}, reply : Replies, seen : SUBSET Requests,
   rules : SUBSET Resources, item : Requests \cup {None}]

\* Types: askers, the pending map, deferreds and repliers range over what
\* permission.ts and question.ts declare.
TypeOK ==
  /\ asker \in [Requests -> {"new", "asking", "waiting", "posted", "done"}]
  /\ pending \in SUBSET Requests
  /\ deferred \in [Requests -> {"open", "granted", "declined"}]
  /\ config \in Configs
  /\ saved \in SUBSET Resources
  /\ published \in SUBSET (Requests \X {"granted", "declined"})
  /\ rejected \in SUBSET Requests
  /\ replies \in 0..MaxReplies
  /\ replier \in [Repliers -> ReplierState]
  /\ owed \in [Repliers -> SUBSET Requests]
  /\ closed \in BOOLEAN

\* Who waits can be found and replied to, and what is listed as pending waits
\* for a reply: whatever replies, cascades and interruptions overlap, no asker
\* is forgotten and no settled or abandoned request is offered to the user.
ListedIsOpen ==
  \A r \in Requests :
    /\ asker[r] = "waiting" /\ deferred[r] = "open" => r \in pending
    /\ r \in pending => deferred[r] = "open" /\ asker[r] \in {"waiting", "posted"}

\* An asker goes on as clients were told: the reply it was settled with was
\* published before, whoever else replied (or its location closed).
AnsweredAsPublished ==
  \A r \in Requests :
    deferred[r] # "open" => <<r, deferred[r]>> \in published \/ (closed /\ deferred[r] = "declined")

\* A request is declined for a client's reject in its own session only, and a
\* question only for its own.
RejectStaysInSession ==
  \A r \in Requests :
    <<r, "declined">> \in published =>
      \E q \in rejected :
        /\ q = r \/ (SessionOf[q] = SessionOf[r] /\ {q, r} \cap Questions = {})

\* A reply that returns has reached everybody it is for: after a reject none of
\* the session's requests that were pending with it still is, after an "always"
\* none that the remembered rules cover, unless rules changed meanwhile;
\* whatever other replies and interruptions did to the map under the loop.
RepliesReachEveryone ==
  [][\A t \in Repliers :
       replier[t].pc # "idle" /\ replier'[t].pc = "idle" => owed[t] \cap pending = {}]_vars

=============================================================================
