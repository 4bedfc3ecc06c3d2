------------------------- MODULE WorkspaceSyncProofs -------------------------
(***************************************************************************)
(* Proofs about WorkspaceSync.tla, for any sets of workspaces and any      *)
(* worlds: any number of writes, moves, lost connections and restarts.     *)
(* A session is written to where it was created until it is moved, and     *)
(* whoever writes later has the move in its own log: that is why positions *)
(* before the first move have one writer.                                  *)
(***************************************************************************)
EXTENDS WorkspaceSync, TLAPS

HasMoved(s) == \E i \in 2..Len(log[s]) : log[s][i].to # None

\* Who may write: the site of the creation, and a site the session moved to.
Writer(s) == s = world.at \/ HasMoved(s)

QuietUpTo(p) ==
  \A u \in Sites : \A i \in 2..p : i <= Len(log[u]) => log[u][i].to = None

\* Before the first move of any log, every site has what the creator has.
Story ==
  \A s \in Sites : \A p \in 1..Len(log[s]) :
    QuietUpTo(p) => p <= Len(log[world.at]) /\ log[s][p] = log[world.at][p]

Created ==
  /\ log[world.at] # <<>>
  /\ log[world.at][1].to = world.at

\* A site that an event calls the home has a move in its log.
MovesAreKnown ==
  \A s, v \in Sites : \A i \in 2..Len(log[s]) : log[s][i].to = v => HasMoved(v)

\* Positions that are remembered, on their way or being replayed are stored.
UnsentFits == \A w \in Workspaces : \A p \in unsent[w] : p <= Len(log[w])

WireFits == \A w \in Workspaces : \A i \in 1..Len(wire[w]) : wire[w][i] <= Len(log[w])

SyncFits ==
  \A w \in Workspaces : sync[w].pc = "replaying" =>
    sync[w].next <= sync[w].upto /\ sync[w].upto <= Len(log[w])

PositionsFit == UnsentFits /\ WireFits /\ SyncFits

\* Whoever is asked to write may.
WritersKnow ==
  /\ home # None => Writer(home) /\ log[Hub] # <<>>
  /\ \A s \in Sites : working[s] => Writer(s)
  /\ request.pc # "idle" => Writer(request.to)

WarpFits ==
  /\ warp.pc # "idle" => log[Hub] # <<>>
  /\ warp.pc = "replaying" => warp.next <= warp.upto /\ warp.upto <= Len(log[warp.from])
  /\ warp.pc = "send" => warp.next <= warp.upto /\ warp.upto <= Len(log[Hub])
  /\ warp.pc \in {"ask", "answer", "replaying"} => warp.from \in Workspaces
  /\ warp.pc \in {"read", "send", "steal"} => warp.to \in Workspaces
  /\ warp.pc \in {"ask", "claim", "read"} => warp.next = 1
  /\ warp.pc = "steal" => log[warp.to] # <<>>
  /\ warp.pc = "move" /\ warp.to # Hub => HasMoved(warp.to)

IInv ==
  /\ TypeOK
  /\ Story
  /\ Created
  /\ MovesAreKnown
  /\ PositionsFit
  /\ WritersKnow
  /\ WarpFits

-----------------------------------------------------------------------------
(* Types.                                                                   *)

LEMMA Bounds ==
  ASSUME TypeOK
  PROVE  /\ world.at \in Sites
         /\ world.len \in Nat /\ world.warps \in Nat /\ world.breaks \in Nat
         /\ warps \in Nat /\ breaks \in Nat
         /\ Hub \in Sites /\ Hub \notin Workspaces /\ Workspaces \subseteq Sites
         /\ None \notin Sites
BY WorkspaceSyncAssumption DEF TypeOK, World, Sites

LEMMA IdleTypes ==
  /\ IdleSync \in SyncState /\ NoRequest \in RequestState /\ NoWarp \in WarpState
  /\ [IdleSync EXCEPT !.pc = "connecting"] \in SyncState
<1>1. IdleSync \in SyncState
  BY DEF IdleSync, SyncState
<1>2. [IdleSync EXCEPT !.pc = "connecting"] \in SyncState
  BY <1>1 DEF SyncState
<1>3. NoRequest \in RequestState
  BY DEF NoRequest, RequestState, Sites
<1>4. NoWarp \in WarpState
  BY DEF NoWarp, WarpState, Sites
<1> QED
  BY <1>1, <1>2, <1>3, <1>4

LEMMA TypeInit == Init => TypeOK
<1> SUFFICES ASSUME Init PROVE TypeOK
  OBVIOUS
<1>1. world.at \in Sites /\ world.warps \in Nat /\ world.breaks \in Nat
  BY WorkspaceSyncAssumption DEF Init, World
<1>2. log \in [Sites -> Seq(Event)]
  <2>1. \A s \in Sites : [by |-> s, seq |-> 1, to |-> s] \in Event
    BY DEF Event
  <2>2. \A e \in Event : <<e>> \in Seq(Event)
    OBVIOUS
  <2>3. <<>> \in Seq(Event)
    OBVIOUS
  <2> QED
    BY <2>1, <2>2, <2>3 DEF Init
<1>3. wire \in [Workspaces -> Seq(Nat \ {0})]
  BY DEF Init
<1> QED
  BY <1>1, <1>2, <1>3, IdleTypes DEF Init, TypeOK, Sites

LEMMA PublishTypes ==
  ASSUME TypeOK, NEW s \in Sites, NEW to \in Sites \cup {None}, Publish(s, to)
  PROVE  /\ log' \in [Sites -> Seq(Event)]
         /\ owner' \in Sites \cup {None}
         /\ home' \in Sites \cup {None}
         /\ unsent' \in [Workspaces -> SUBSET (Nat \ {0})]
<1>1. [by |-> s, seq |-> Len(log[s]) + 1, to |-> to] \in Event
  BY DEF TypeOK, Event
<1>2. Append(log[s], [by |-> s, seq |-> Len(log[s]) + 1, to |-> to]) \in Seq(Event)
  BY <1>1 DEF TypeOK
<1>3. log' \in [Sites -> Seq(Event)]
  BY <1>2 DEF TypeOK, Publish
<1>4. Len(log[s]) + 1 \in Nat \ {0}
  BY DEF TypeOK
<1>5. unsent' \in [Workspaces -> SUBSET (Nat \ {0})]
  BY <1>4 DEF TypeOK, Publish
<1> QED
  BY <1>3, <1>5 DEF TypeOK, Publish

LEMMA ReplayTypes ==
  ASSUME TypeOK, NEW s \in Sites, NEW t \in Sites, NEW p \in 1..Len(log[t]), NEW o \in Sites,
         Replay(s, p, log[t][p], o)
  PROVE  /\ log' \in [Sites -> Seq(Event)]
         /\ owner' \in Sites \cup {None}
         /\ home' \in Sites \cup {None}
<1>1. log[t][p] \in Event
  BY DEF TypeOK
<1>2. Append(log[s], log[t][p]) \in Seq(Event)
  BY <1>1 DEF TypeOK
<1>3. log' \in [Sites -> Seq(Event)]
  BY <1>2 DEF TypeOK, Replay
<1> QED
  BY <1>1, <1>3 DEF TypeOK, Replay, Event

LEMMA SyncUpdates ==
  ASSUME NEW f \in SyncState
  PROVE  /\ \A pc \in {"connecting", "off", "answer", "live", "ask"} : [f EXCEPT !.pc = pc] \in SyncState
         /\ [f EXCEPT !.pc = "ask", !.up = TRUE] \in SyncState
         /\ [f EXCEPT !.up = FALSE] \in SyncState
         /\ \A n \in Nat \ {0} : [f EXCEPT !.pc = "answer", !.next = n] \in SyncState
         /\ \A n \in Nat : [f EXCEPT !.pc = "replaying", !.upto = n] \in SyncState
         /\ [f EXCEPT !.pc = "live", !.next = 1] \in SyncState
         /\ [f EXCEPT !.pc = "live", !.next = 1, !.upto = 0] \in SyncState
         /\ [f EXCEPT !.next = f.next + 1] \in SyncState
<1>1. \A pc \in {"connecting", "off", "answer", "live", "ask", "replaying"} : [f EXCEPT !.pc = pc] \in SyncState
  BY DEF SyncState
<1>2. \A g \in SyncState, b \in BOOLEAN : [g EXCEPT !.up = b] \in SyncState
  BY DEF SyncState
<1>3. \A g \in SyncState, n \in Nat \ {0} : [g EXCEPT !.next = n] \in SyncState
  BY DEF SyncState
<1>4. \A g \in SyncState, n \in Nat : [g EXCEPT !.upto = n] \in SyncState
  BY DEF SyncState
<1>5. [[f EXCEPT !.pc = "ask"] EXCEPT !.up = TRUE] \in SyncState
  BY <1>1, <1>2
<1>6. \A n \in Nat \ {0} : [[f EXCEPT !.pc = "answer"] EXCEPT !.next = n] \in SyncState
  BY <1>1, <1>3
<1>7. \A n \in Nat : [[f EXCEPT !.pc = "replaying"] EXCEPT !.upto = n] \in SyncState
  BY <1>1, <1>4
<1>8. [[f EXCEPT !.pc = "live"] EXCEPT !.next = 1] \in SyncState
  <2>1. [f EXCEPT !.pc = "live"] \in SyncState /\ 1 \in Nat \ {0}
    BY <1>1
  <2> QED
    BY <2>1, <1>3
<1>9. [[[f EXCEPT !.pc = "live"] EXCEPT !.next = 1] EXCEPT !.upto = 0] \in SyncState
  BY <1>8, <1>4
<1>10. f.next + 1 \in Nat \ {0}
  BY DEF SyncState
<1> QED
  BY <1>1, <1>2, <1>3, <1>5, <1>6, <1>7, <1>8, <1>9, <1>10

\* What is looked at next on a live connection is stored.
LEMMA HeadFits ==
  ASSUME TypeOK, WireFits, NEW w \in Workspaces, wire[w] # <<>>
  PROVE  Head(wire[w]) \in 1..Len(log[w]) /\ Tail(wire[w]) \in Seq(Nat \ {0})
<1>1. wire[w] \in Seq(Nat \ {0})
  BY DEF TypeOK
<1>2. Len(wire[w]) \in Nat /\ Len(wire[w]) >= 1 /\ Head(wire[w]) = wire[w][1] /\ wire[w][1] \in Nat \ {0}
  BY <1>1
<1>3. 1 \in 1..Len(wire[w])
  BY <1>2
<1>4. wire[w][1] <= Len(log[w])
  BY <1>3 DEF WireFits
<1>5. Len(log[w]) \in Nat
  BY Bounds DEF TypeOK
<1> QED
  BY <1>1, <1>2, <1>4, <1>5

LEMMA FollowingTypes ==
  ASSUME TypeOK, PositionsFit, NEW w \in Workspaces, StartSync(w) \/ Following(w) \/ StreamEnds(w)
  PROVE  TypeOK'
<1> USE Bounds
<1>a. sync[w] \in SyncState /\ Len(log[w]) \in Nat /\ Len(log[Hub]) \in Nat
  BY DEF TypeOK
<1>b. \A f \in SyncState : sync' = [sync EXCEPT ![w] = f] => sync' \in [Workspaces -> SyncState]
  BY DEF TypeOK
<1>c. IdleSync \in SyncState
  BY IdleTypes
<1>d. wire[w] # <<>> => Head(wire[w]) \in 1..Len(log[w]) /\ Tail(wire[w]) \in Seq(Nat \ {0})
  BY HeadFits DEF PositionsFit
<1>1. CASE StartSync(w)
  <2>1. sync' \in [Workspaces -> SyncState]
    BY <1>1, <1>a, <1>b, SyncUpdates DEF StartSync
  <2> QED
    BY <1>1, <2>1 DEF TypeOK, StartSync, tables, limits
<1>2. CASE ConnectSSE(w)
  <2>1. sync' \in [Workspaces -> SyncState]
    <3>1. sync' = [sync EXCEPT ![w] = [@ EXCEPT !.pc = "ask", !.up = TRUE]]
      BY <1>2 DEF TypeOK, ConnectSSE
    <3> QED
      BY <1>a, <1>b, <3>1, SyncUpdates
  <2> QED
    BY <1>2, <2>1 DEF TypeOK, ConnectSSE, tables, limits
<1>3. CASE AskHistory(w)
  <2>1. sync' \in [Workspaces -> SyncState]
    <3>1. Known(w) + 1 \in Nat \ {0}
      BY <1>a DEF Known
    <3>2. sync' = [sync EXCEPT ![w] = [@ EXCEPT !.pc = "answer", !.next = Known(w) + 1]]
      BY <1>3 DEF TypeOK, AskHistory
    <3> QED
      BY <1>a, <1>b, <3>1, <3>2, SyncUpdates
  <2> QED
    BY <1>3, <2>1 DEF TypeOK, AskHistory, tables, limits
<1>4. CASE AnswerHistory(w)
  <2>1. sync' \in [Workspaces -> SyncState]
    <3>1. Answer(sync[w], w, "live") \in SyncState
      BY <1>a, SyncUpdates DEF Answer
    <3> QED
      BY <1>4, <1>b, <3>1 DEF AnswerHistory
  <2> QED
    BY <1>4, <2>1 DEF TypeOK, AnswerHistory, tables, limits
<1>5. CASE ReplayHistory(w)
  <2>1. sync' \in [Workspaces -> SyncState]
    <3>1. Proceed(sync[w], "live") \in SyncState
      BY <1>a, SyncUpdates DEF Proceed
    <3> QED
      BY <1>5, <1>b, <3>1 DEF ReplayHistory
  <2>2. sync[w].next \in 1..Len(log[w])
    BY <1>5, <1>a DEF PositionsFit, SyncFits, ReplayHistory, SyncState
  <2>3. /\ log' \in [Sites -> Seq(Event)]
        /\ owner' \in Sites \cup {None}
        /\ home' \in Sites \cup {None}
    BY <1>5, <2>2, ReplayTypes DEF ReplayHistory
  <2> QED
    BY <1>5, <2>1, <2>3 DEF TypeOK, ReplayHistory, limits
<1>6. CASE HistoryDies(w)
  <2>1. sync' \in [Workspaces -> SyncState]
    BY <1>6, <1>b, <1>c DEF HistoryDies
  <2>2. wire' \in [Workspaces -> Seq(Nat \ {0})]
    BY <1>6 DEF TypeOK, HistoryDies
  <2> QED
    BY <1>6, <2>1, <2>2 DEF TypeOK, HistoryDies, tables, limits
<1>7. CASE Receive(w)
  <2>1. wire' \in [Workspaces -> Seq(Nat \ {0})]
    BY <1>7, <1>d DEF TypeOK, Receive
  <2>2. /\ log' \in [Sites -> Seq(Event)]
        /\ owner' \in Sites \cup {None}
        /\ home' \in Sites \cup {None}
    BY <1>7, <1>d, ReplayTypes DEF Receive
  <2> QED
    BY <1>7, <2>1, <2>2 DEF TypeOK, Receive, limits
<1>8. CASE Drop(w)
  <2>1. wire' \in [Workspaces -> Seq(Nat \ {0})]
    BY <1>8, <1>d DEF TypeOK, Drop
  <2> QED
    BY <1>8, <2>1 DEF TypeOK, Drop, tables, limits
<1>9. CASE StreamEnds(w)
  <2>1. sync' \in [Workspaces -> SyncState]
    BY <1>9, <1>a, <1>b, SyncUpdates DEF StreamEnds
  <2> QED
    BY <1>9, <2>1 DEF TypeOK, StreamEnds, tables, limits
<1> QED
  BY <1>1, <1>2, <1>3, <1>4, <1>5, <1>6, <1>7, <1>8, <1>9 DEF Following

LEMMA WarpUpdates ==
  ASSUME NEW f \in WarpState, NEW n \in Nat
  PROVE  /\ \A pc \in {"claim", "move", "read", "steal"} : [f EXCEPT !.pc = pc] \in WarpState
         /\ [f EXCEPT !.pc = "claim", !.next = 1] \in WarpState
         /\ [f EXCEPT !.pc = "answer", !.next = n + 1] \in WarpState
         /\ [f EXCEPT !.pc = "replaying", !.upto = n] \in WarpState
         /\ [f EXCEPT !.had = n] \in WarpState
         /\ [f EXCEPT !.pc = "send", !.upto = n, !.rows = n] \in WarpState
         /\ \A pc \in {"claim", "steal"} : [f EXCEPT !.pc = pc, !.next = 1, !.upto = 0] \in WarpState
         /\ [f EXCEPT !.next = f.next + 1] \in WarpState
<1>1. \A pc \in {"answer", "replaying", "claim", "move", "read", "send", "steal"} :
        [f EXCEPT !.pc = pc] \in WarpState
  BY DEF WarpState
<1>2. \A g \in WarpState, k \in Nat \ {0} : [g EXCEPT !.next = k] \in WarpState
  BY DEF WarpState
<1>3. \A g \in WarpState, k \in Nat :
        /\ [g EXCEPT !.upto = k] \in WarpState
        /\ [g EXCEPT !.had = k] \in WarpState
        /\ [g EXCEPT !.rows = k] \in WarpState
  BY DEF WarpState
<1>n. 1 \in Nat \ {0} /\ 0 \in Nat /\ n + 1 \in Nat \ {0}
  OBVIOUS
<1>4. [[f EXCEPT !.pc = "claim"] EXCEPT !.next = 1] \in WarpState
  <2>1. [f EXCEPT !.pc = "claim"] \in WarpState
    BY <1>1
  <2> QED
    BY <2>1, <1>n, <1>2
<1>5. [[f EXCEPT !.pc = "answer"] EXCEPT !.next = n + 1] \in WarpState
  <2>1. [f EXCEPT !.pc = "answer"] \in WarpState
    BY <1>1
  <2> QED
    BY <2>1, <1>n, <1>2
<1>6. [[f EXCEPT !.pc = "replaying"] EXCEPT !.upto = n] \in WarpState
  BY <1>1, <1>3
<1>7. [[[f EXCEPT !.pc = "send"] EXCEPT !.upto = n] EXCEPT !.rows = n] \in WarpState
  BY <1>1, <1>3
<1>8. \A pc \in {"claim", "steal"} :
        [[[f EXCEPT !.pc = pc] EXCEPT !.next = 1] EXCEPT !.upto = 0] \in WarpState
  <2> TAKE pc \in {"claim", "steal"}
  <2>1. [f EXCEPT !.pc = pc] \in WarpState
    BY <1>1
  <2>2. [[f EXCEPT !.pc = pc] EXCEPT !.next = 1] \in WarpState
    BY <2>1, <1>n, <1>2
  <2> QED
    BY <2>2, <1>n, <1>3
<1>9. f.next + 1 \in Nat \ {0}
  BY DEF WarpState
<1> QED
  BY <1>1, <1>2, <1>3, <1>4, <1>5, <1>6, <1>7, <1>8, <1>9

LEMMA BreakingTypes ==
  ASSUME TypeOK, Breaks
  PROVE  world' \in Worlds /\ warps' \in 0..world'.warps /\ breaks' \in 0..world'.breaks
BY Bounds DEF TypeOK, Breaks

LEMMA FailureTypes ==
  ASSUME TypeOK, \/ \E w \in Workspaces : LoseConnection(w) \/ HistoryRefused(w) \/ RestartWorkspace(w)
                 \/ RestartHub
                 \/ WarpUnanswered
                 \/ WarpFails
  PROVE  TypeOK'
<1> USE Bounds, IdleTypes, BreakingTypes
<1>1. ASSUME NEW w \in Workspaces, Cut(w)
      PROVE  sync' \in [Workspaces -> SyncState] /\ wire' \in [Workspaces -> Seq(Nat \ {0})]
  <2>1. [sync[w] EXCEPT !.up = FALSE] \in SyncState
    BY SyncUpdates DEF TypeOK
  <2> QED
    BY <1>1, <2>1 DEF TypeOK, Cut
<1>2. ASSUME NEW w \in Workspaces, LoseConnection(w)
      PROVE  TypeOK'
  BY <1>1, <1>2 DEF TypeOK, LoseConnection, tables
<1>3. ASSUME NEW w \in Workspaces, HistoryRefused(w)
      PROVE  TypeOK'
  <2>1. sync' \in [Workspaces -> SyncState]
    BY <1>3 DEF TypeOK, HistoryRefused
  <2>2. wire' \in [Workspaces -> Seq(Nat \ {0})]
    BY <1>3 DEF TypeOK, HistoryRefused
  <2> QED
    BY <1>3, <2>1, <2>2 DEF TypeOK, HistoryRefused, tables
<1>4. ASSUME NEW w \in Workspaces, RestartWorkspace(w)
      PROVE  TypeOK'
  <2>1. request' \in RequestState
    BY <1>4 DEF TypeOK, RestartWorkspace
  <2>2. working' \in [Sites -> BOOLEAN] /\ unsent' \in [Workspaces -> SUBSET (Nat \ {0})]
    BY <1>4 DEF TypeOK, RestartWorkspace
  <2> QED
    BY <1>1, <1>4, <2>1, <2>2 DEF TypeOK, RestartWorkspace, tables
<1>5. CASE RestartHub
  <2>1. sync' \in [Workspaces -> SyncState]
    BY <1>5 DEF RestartHub
  <2>2. wire' \in [Workspaces -> Seq(Nat \ {0})] /\ working' \in [Sites -> BOOLEAN]
    BY <1>5 DEF TypeOK, RestartHub
  <2> QED
    BY <1>5, <2>1, <2>2 DEF TypeOK, RestartHub, tables
<1>6. CASE WarpUnanswered
  <2>1. warp' \in WarpState
    BY <1>6, WarpUpdates DEF TypeOK, WarpUnanswered
  <2> QED
    BY <1>6, <2>1 DEF TypeOK, WarpUnanswered, tables, links
<1>7. CASE WarpFails
  BY <1>7 DEF TypeOK, WarpFails, tables, links
<1> QED
  BY <1>2, <1>3, <1>4, <1>5, <1>6, <1>7

LEMMA RequestUpdates ==
  ASSUME NEW f \in RequestState, NEW n \in Nat
  PROVE  /\ [f EXCEPT !.pc = "handled", !.wrote = n] \in RequestState
         /\ [f EXCEPT !.pc = "fence", !.fence = n] \in RequestState
         /\ [f EXCEPT !.pc = "ok"] \in RequestState
<1>1. \A pc \in {"handled", "fence", "ok"} : [f EXCEPT !.pc = pc] \in RequestState
  BY DEF RequestState
<1>2. \A g \in RequestState : [g EXCEPT !.wrote = n] \in RequestState /\ [g EXCEPT !.fence = n] \in RequestState
  BY DEF RequestState
<1>3. [[f EXCEPT !.pc = "handled"] EXCEPT !.wrote = n] \in RequestState
  BY <1>1, <1>2
<1>4. [[f EXCEPT !.pc = "fence"] EXCEPT !.fence = n] \in RequestState
  BY <1>1, <1>2
<1> QED
  BY <1>1, <1>3, <1>4

LEMMA WritingTypes ==
  ASSUME TypeOK,
         \/ Prompt
         \/ \E s \in Sites : Write(s) \/ Finish(s)
         \/ \E w \in Workspaces : Requesting(w) \/ \E p \in unsent[w] : Notify(w, p)
         \/ Synced
         \/ EndRequest
  PROVE  TypeOK'
<1> USE Bounds, IdleTypes
<1>1. CASE Prompt
  BY <1>1 DEF TypeOK, Prompt, tables, links, limits
<1>2. ASSUME NEW s \in Sites, Write(s)
      PROVE  TypeOK'
  BY <1>2, PublishTypes DEF TypeOK, Write, links, limits
<1>3. ASSUME NEW s \in Sites, Finish(s)
      PROVE  TypeOK'
  BY <1>3 DEF TypeOK, Finish, tables, links, limits
<1>4. ASSUME NEW w \in Workspaces, NEW p \in unsent[w], Notify(w, p)
      PROVE  TypeOK'
  <2>1. p \in Nat \ {0} /\ unsent' \in [Workspaces -> SUBSET (Nat \ {0})]
    BY <1>4 DEF TypeOK, Notify
  <2>2. Append(wire[w], p) \in Seq(Nat \ {0})
    BY <2>1 DEF TypeOK
  <2>3. wire' \in [Workspaces -> Seq(Nat \ {0})]
    BY <1>4, <2>2 DEF TypeOK, Notify
  <2> QED
    BY <1>4, <2>1, <2>3 DEF TypeOK, Notify, tables, limits
<1>5. ASSUME NEW w \in Workspaces, Send(w)
      PROVE  TypeOK'
  <2>1. request' \in RequestState
    BY <1>5 DEF TypeOK, Send, RequestState
  <2> QED
    BY <1>5, <2>1 DEF TypeOK, Send, tables, links, limits
<1>6. ASSUME NEW w \in Workspaces, Handle(w)
      PROVE  TypeOK'
  <2>1. request' \in RequestState
    <3>1. request \in RequestState /\ Len(log[w]) + 1 \in Nat
      BY DEF TypeOK
    <3>2. request' = [request EXCEPT !.pc = "handled", !.wrote = Len(log[w]) + 1]
      BY <1>6 DEF Handle
    <3> QED
      BY <3>1, <3>2, RequestUpdates
  <2>2. working' \in [Sites -> BOOLEAN]
    BY <1>6 DEF TypeOK, Handle
  <2> QED
    BY <1>6, <2>1, <2>2, PublishTypes DEF TypeOK, Handle, links, limits
<1>7. ASSUME NEW w \in Workspaces, Respond(w)
      PROVE  TypeOK'
  <2>1. request' \in RequestState
    <3>1. request \in RequestState /\ Len(log[w]) \in Nat
      BY DEF TypeOK
    <3>2. request' = [request EXCEPT !.pc = "fence", !.fence = Len(log[w])]
      BY <1>7 DEF Respond, FenceOf
    <3> QED
      BY <3>1, <3>2, RequestUpdates
  <2> QED
    BY <1>7, <2>1 DEF TypeOK, Respond, tables, links, limits
<1>8. CASE Synced
  <2>1. request' \in RequestState
    BY <1>8 DEF TypeOK, Synced, RequestState
  <2> QED
    BY <1>8, <2>1 DEF TypeOK, Synced, tables, links, limits
<1>9. CASE EndRequest
  BY <1>9 DEF TypeOK, EndRequest, tables, links, limits
<1> QED
  BY <1>1, <1>2, <1>3, <1>4, <1>5, <1>6, <1>7, <1>8, <1>9 DEF Requesting

LEMMA WarpingTypes ==
  ASSUME TypeOK, WarpFits, Warping \/ \E s \in Sites : SessionWarp(s)
  PROVE  TypeOK'
<1> USE Bounds, IdleTypes
<1>a. /\ warp \in WarpState /\ warp.from \in Sites /\ warp.to \in Sites
      /\ warp.next \in Nat \ {0} /\ warp.upto \in Nat
  BY DEF TypeOK, WarpState
<1>b. Len(log[Hub]) \in Nat /\ Len(log[warp.from]) \in Nat
  BY <1>a DEF TypeOK
<1>1. ASSUME NEW s \in Sites, SessionWarp(s)
      PROVE  TypeOK'
  <2>1. warp' \in WarpState
    <3>1. home \in Sites
      BY <1>1 DEF TypeOK, SessionWarp
    <3>2. PICK pc \in {"read", "ask"} :
            warp' = [NoWarp EXCEPT !.pc = pc, !.from = home, !.to = s]
      BY <1>1 DEF SessionWarp
    <3>3. NoWarp \in WarpState
      OBVIOUS
    <3> QED
      BY <3>1, <3>2, <3>3 DEF WarpState
  <2>2. warps' \in 0..world'.warps
    <3>1. warps < world.warps /\ warps' = warps + 1 /\ world' = world
      BY <1>1 DEF SessionWarp
    <3> QED
      BY <3>1
  <2> QED
    BY <1>1, <2>1, <2>2 DEF TypeOK, SessionWarp, tables, links
<1>2. CASE WarpAsk
  <2>1. Known(warp.from) \in Nat
    BY <1>b DEF Known
  <2>2. warp' \in WarpState
    BY <1>2, <1>a, <2>1, WarpUpdates DEF WarpAsk
  <2> QED
    BY <1>2, <2>2 DEF TypeOK, WarpAsk, tables, links, limits
<1>3. CASE WarpAnswer
  <2>1. Answer(warp, warp.from, "claim") \in WarpState
    BY <1>a, <1>b, WarpUpdates DEF Answer
  <2>2. warp' \in WarpState
    BY <1>3, <1>b, <2>1, WarpUpdates DEF WarpAnswer
  <2> QED
    BY <1>3, <2>2 DEF TypeOK, WarpAnswer, tables, links, limits
<1>4. CASE WarpUnanswered
  BY <1>4, FailureTypes
<1>5. CASE WarpReplay
  <2>1. warp' \in WarpState
    BY <1>5, <1>a, WarpUpdates DEF WarpReplay, Proceed
  <2>2. warp.next \in 1..Len(log[warp.from])
    BY <1>5, <1>a, <1>b DEF WarpReplay, WarpFits
  <2>3. /\ log' \in [Sites -> Seq(Event)]
        /\ owner' \in Sites \cup {None}
        /\ home' \in Sites \cup {None}
    BY <1>5, <1>a, <2>2, ReplayTypes DEF WarpReplay
  <2> QED
    BY <1>5, <2>1, <2>3 DEF TypeOK, WarpReplay, links, limits
<1>6. CASE WarpReplayDies
  BY <1>6 DEF TypeOK, WarpReplayDies, tables, links, limits
<1>7. CASE Claim
  <2>1. warp' \in WarpState
    BY <1>7, <1>a, WarpUpdates DEF Claim
  <2> QED
    BY <1>7, <1>a, <2>1 DEF TypeOK, Claim, links, limits
<1>8. CASE ReadLog
  <2>1. warp' \in WarpState
    BY <1>8, <1>a, <1>b, WarpUpdates DEF ReadLog
  <2> QED
    BY <1>8, <2>1 DEF TypeOK, ReadLog, tables, links, limits
<1>9. CASE SendRow
  <2>1. warp' \in WarpState
    BY <1>9, <1>a, WarpUpdates DEF SendRow, Proceed
  <2>2. warp.next \in 1..Len(log[Hub])
    BY <1>9, <1>a, <1>b DEF SendRow, WarpFits
  <2>3. /\ log' \in [Sites -> Seq(Event)]
        /\ owner' \in Sites \cup {None}
        /\ home' \in Sites \cup {None}
    BY <1>9, <1>a, <2>2, ReplayTypes DEF SendRow
  <2> QED
    BY <1>9, <2>1, <2>3 DEF TypeOK, SendRow, links, limits
<1>10. CASE SendRefused
  BY <1>10 DEF TypeOK, SendRefused, tables, links, limits
<1>11. CASE Steal
  <2>1. warp' \in WarpState
    BY <1>11, <1>a, WarpUpdates DEF Steal
  <2> QED
    BY <1>11, <1>a, <2>1, PublishTypes DEF TypeOK, Steal, links, limits
<1>12. CASE SetWorkspace
  BY <1>12, <1>a, PublishTypes DEF TypeOK, SetWorkspace, links, limits
<1> QED
  BY <1>1, <1>2, <1>3, <1>4, <1>5, <1>6, <1>7, <1>8, <1>9, <1>10, <1>11, <1>12 DEF Warping

LEMMA TypeNext ==
  ASSUME TypeOK, PositionsFit, WarpFits, [Next]_vars
  PROVE  TypeOK'
<1>1. CASE UNCHANGED vars
  BY <1>1 DEF TypeOK, vars
<1>2. CASE Next
  BY <1>2, FollowingTypes, FailureTypes, WritingTypes, WarpingTypes DEF Next
<1> QED
  BY <1>1, <1>2

-----------------------------------------------------------------------------
(* What a step does to the logs.                                            *)

Appends(s, e) == log' = [log EXCEPT ![s] = Append(@, e)]

\* Nothing, a write, the record of a move, or a copy of the event that another
\* log has at the next position.
LogStep ==
  \/ log' = log
  \/ \E s \in Sites : Writer(s) /\ Appends(s, [by |-> s, seq |-> Len(log[s]) + 1, to |-> None])
  \/ \E s, to \in Sites :
       /\ log[s] # <<>>
       /\ to = s \/ HasMoved(to)
       /\ Appends(s, [by |-> s, seq |-> Len(log[s]) + 1, to |-> to])
  \/ \E s, t \in Sites :
       /\ Len(log[s]) < Len(log[t])
       /\ Appends(s, log[t][Len(log[s]) + 1])

LEMMA ReplayAppends ==
  ASSUME TypeOK, NEW s \in Sites, NEW t \in Sites, NEW p \in 1..Len(log[t]), NEW o \in Sites,
         Replay(s, p, log[t][p], o)
  PROVE  LogStep
<1>1. CASE Accepted(s, p, o)
  <2>1. Len(log[s]) \in Nat /\ Len(log[t]) \in Nat
    BY DEF TypeOK
  <2>2. p = Len(log[s]) + 1
    BY <1>1, <2>1 DEF Accepted, Gap
  <2>3. Appends(s, log[t][p])
    BY <1>1 DEF Replay, Appends
  <2> QED
    BY <2>1, <2>2, <2>3 DEF LogStep
<1>2. CASE ~Accepted(s, p, o)
  BY <1>2 DEF Replay, LogStep
<1> QED
  BY <1>1, <1>2

LEMMA LogSteps == IInv /\ [Next]_vars => LogStep /\ world' = world
<1> SUFFICES ASSUME IInv, [Next]_vars
             PROVE  LogStep /\ world' = world
  OBVIOUS
<1> USE Bounds DEF IInv
<1>a. /\ warp.from \in Sites /\ warp.to \in Sites
      /\ warp.next \in Nat \ {0} /\ warp.upto \in Nat
  BY DEF TypeOK, WarpState
<1>1. CASE UNCHANGED vars
  BY <1>1 DEF vars, LogStep
<1>2. CASE Prompt \/ Synced \/ EndRequest \/ WarpFails \/ RestartHub
  BY <1>2 DEF Prompt, Synced, EndRequest, WarpFails, RestartHub, Breaks, tables, limits, LogStep
<1>3. ASSUME NEW s \in Sites, Finish(s) \/ SessionWarp(s)
      PROVE  LogStep /\ world' = world
  BY <1>3 DEF Finish, SessionWarp, tables, limits, LogStep
<1>4. ASSUME NEW s \in Sites, Write(s)
      PROVE  LogStep /\ world' = world
  BY <1>4 DEF Write, Publish, WritersKnow, limits, LogStep, Appends
<1>5. ASSUME NEW w \in Workspaces,
             \/ \E p \in unsent[w] : Notify(w, p)
             \/ StartSync(w) \/ LoseConnection(w) \/ StreamEnds(w) \/ HistoryRefused(w) \/ RestartWorkspace(w)
             \/ Send(w) \/ Respond(w)
      PROVE  LogStep /\ world' = world
  BY <1>5 DEF Notify, StartSync, LoseConnection, StreamEnds, HistoryRefused, RestartWorkspace, Send,
       Respond, Breaks, tables, limits, LogStep
<1>6. ASSUME NEW w \in Workspaces, Handle(w)
      PROVE  LogStep /\ world' = world
  BY <1>6 DEF Handle, Publish, WritersKnow, limits, LogStep, Appends
<1>7. ASSUME NEW w \in Workspaces, Following(w)
      PROVE  LogStep /\ world' = world
  <2>1. CASE ReplayHistory(w)
    <3>1. sync[w].next \in 1..Len(log[w])
      BY <2>1 DEF TypeOK, PositionsFit, SyncFits, ReplayHistory, SyncState
    <3> QED
      BY <2>1, <3>1, ReplayAppends DEF ReplayHistory, limits
  <2>2. CASE Receive(w)
    <3>1. Head(wire[w]) \in 1..Len(log[w])
      BY <2>2, HeadFits DEF PositionsFit, Receive
    <3> QED
      BY <2>2, <3>1, ReplayAppends DEF Receive, limits
  <2>3. CASE ConnectSSE(w) \/ AskHistory(w) \/ AnswerHistory(w) \/ HistoryDies(w) \/ Drop(w)
    BY <2>3 DEF ConnectSSE, AskHistory, AnswerHistory, HistoryDies, Drop, tables, limits, LogStep
  <2> QED
    BY <1>7, <2>1, <2>2, <2>3 DEF Following
<1>8. CASE Warping
  <2>1. CASE WarpAsk \/ WarpAnswer \/ WarpUnanswered \/ WarpReplayDies \/ Claim \/ ReadLog \/ SendRefused
    BY <2>1 DEF WarpAsk, WarpAnswer, WarpUnanswered, WarpReplayDies, Claim, ReadLog, SendRefused, Breaks,
         tables, limits, LogStep
  <2>2. CASE WarpReplay
    <3>1. warp.next \in 1..Len(log[warp.from])
      BY <2>2, <1>a DEF TypeOK, WarpReplay, WarpFits
    <3> QED
      BY <2>2, <1>a, <3>1, ReplayAppends DEF WarpReplay, limits
  <2>3. CASE SendRow
    <3>1. warp.next \in 1..Len(log[Hub])
      BY <2>3, <1>a DEF TypeOK, SendRow, WarpFits
    <3> QED
      BY <2>3, <1>a, <3>1, ReplayAppends DEF SendRow, limits
  <2>4. CASE Steal
    BY <2>4, <1>a DEF Steal, Publish, WarpFits, limits, LogStep, Appends
  <2>5. CASE SetWorkspace
    BY <2>5, <1>a DEF SetWorkspace, Publish, WarpFits, limits, LogStep, Appends
  <2> QED
    BY <1>8, <2>1, <2>2, <2>3, <2>4, <2>5 DEF Warping
<1> QED
  BY <1>1, <1>2, <1>3, <1>4, <1>5, <1>6, <1>7, <1>8 DEF Next, Requesting

\* Logs only grow.
LEMMA LogGrows ==
  ASSUME TypeOK, LogStep
  PROVE  \A s \in Sites :
           /\ log'[s] \in Seq(Event) /\ Len(log'[s]) \in Nat
           /\ Len(log[s]) <= Len(log'[s])
           /\ \A i \in 1..Len(log[s]) : log'[s][i] = log[s][i]
<1>1. ASSUME NEW s \in Sites, NEW e \in Event, Appends(s, e), NEW u \in Sites
      PROVE  /\ log'[u] \in Seq(Event) /\ Len(log'[u]) \in Nat
             /\ Len(log[u]) <= Len(log'[u])
             /\ \A i \in 1..Len(log[u]) : log'[u][i] = log[u][i]
  <2>1. log[u] \in Seq(Event)
    BY DEF TypeOK
  <2>2. log'[u] = IF u = s THEN Append(log[u], e) ELSE log[u]
    BY <1>1 DEF Appends, TypeOK
  <2>3. /\ Append(log[u], e) \in Seq(Event) /\ Len(Append(log[u], e)) \in Nat
        /\ Len(log[u]) <= Len(Append(log[u], e))
        /\ \A i \in 1..Len(log[u]) : Append(log[u], e)[i] = log[u][i]
    BY <2>1
  <2> QED
    BY <2>1, <2>2, <2>3
<1>2. \A s \in Sites, to \in Sites \cup {None} : [by |-> s, seq |-> Len(log[s]) + 1, to |-> to] \in Event
  BY DEF TypeOK, Event
<1>3. \A s, t \in Sites : Len(log[s]) < Len(log[t]) => log[t][Len(log[s]) + 1] \in Event
  BY DEF TypeOK
<1>4. CASE log' = log
  BY <1>4 DEF TypeOK
<1> QED
  BY <1>1, <1>2, <1>3, <1>4 DEF LogStep

LEMMA MovesStay ==
  ASSUME TypeOK, LogStep, NEW s \in Sites, HasMoved(s)
  PROVE  HasMoved(s)'
<1>1. PICK i \in 2..Len(log[s]) : log[s][i].to # None
  BY DEF HasMoved
<1>2. Len(log[s]) \in Nat
  BY DEF TypeOK
<1>3. i \in 1..Len(log[s]) /\ Len(log[s]) <= Len(log'[s]) /\ log'[s][i] = log[s][i]
  BY <1>1, <1>2, LogGrows
<1>4. i \in 2..Len(log'[s])
  BY <1>1, <1>2, <1>3, LogGrows
<1> QED
  BY <1>1, <1>3, <1>4 DEF HasMoved

\* What an append leaves: the new event at the next position.
LEMMA AppendStep ==
  ASSUME TypeOK, NEW s \in Sites, NEW e \in Event, Appends(s, e)
  PROVE  /\ Len(log[s]) \in Nat
         /\ Len(log'[s]) = Len(log[s]) + 1
         /\ log'[s][Len(log[s]) + 1] = e
         /\ \A i \in 1..Len(log[s]) : log'[s][i] = log[s][i]
         /\ \A u \in Sites : u # s => log'[u] = log[u]
<1>1. log[s] \in Seq(Event)
  BY DEF TypeOK
<1>2. log'[s] = Append(log[s], e) /\ \A u \in Sites : u # s => log'[u] = log[u]
  BY DEF Appends, TypeOK
<1> QED
  BY <1>1, <1>2

\* What is quiet after a step was quiet before it.
LEMMA QuietBefore ==
  ASSUME TypeOK, LogStep, NEW p \in Nat, QuietUpTo(p)'
  PROVE  QuietUpTo(p)
<1> SUFFICES ASSUME NEW u \in Sites, NEW i \in 2..p, i <= Len(log[u])
             PROVE  log[u][i].to = None
  BY DEF QuietUpTo
<1>1. Len(log[u]) \in Nat
  BY DEF TypeOK
<1>2. i <= Len(log'[u]) /\ log'[u][i] = log[u][i]
  BY <1>1, LogGrows
<1> QED
  BY <1>2 DEF QuietUpTo

\* An event that gets a position nobody moved at or before is the creator's.
LEMMA StoryAppends ==
  ASSUME TypeOK, Story, LogStep, world' = world,
         NEW s \in Sites, NEW e \in Event, Appends(s, e), NEW n \in Nat, n = Len(log[s]) + 1,
         QuietUpTo(n)' => s = world.at \/ (n <= Len(log[world.at]) /\ e = log[world.at][n])
  PROVE  Story'
<1> SUFFICES ASSUME NEW u \in Sites, NEW p \in 1..Len(log'[u]), QuietUpTo(p)'
             PROVE  p <= Len(log'[world.at]) /\ log'[u][p] = log'[world.at][p]
  BY DEF Story
<1>l. \A v \in Sites : Len(log[v]) \in Nat /\ Len(log'[v]) \in Nat
  BY LogGrows DEF TypeOK
<1>a. /\ world.at \in Sites /\ Len(log[u]) \in Nat /\ Len(log[world.at]) \in Nat
      /\ Len(log'[u]) \in Nat /\ Len(log'[world.at]) \in Nat /\ p \in Nat
  BY <1>l, Bounds
<1>b. QuietUpTo(p)
  BY <1>a, QuietBefore
<1>1. CASE p <= Len(log[u])
  <2>1. p <= Len(log[world.at]) /\ log[u][p] = log[world.at][p]
    BY <1>1, <1>a, <1>b DEF Story
  <2> QED
    BY <1>1, <1>a, <2>1, LogGrows
<1>2. CASE p > Len(log[u])
  <2>1. u = s /\ p = n /\ log'[u][p] = e
    BY <1>2, <1>a, AppendStep
  <2>2. CASE s = world.at
    BY <1>a, <2>1, <2>2
  <2>3. CASE n <= Len(log[world.at]) /\ e = log[world.at][n]
    <3>1. n \in 1..Len(log[world.at])
      BY <1>a, <2>1, <2>3
    <3> QED
      BY <1>a, <2>1, <2>3, <3>1, LogGrows
  <2>4. s = world.at \/ (n <= Len(log[world.at]) /\ e = log[world.at][n])
    BY <2>1
  <2> QED
    BY <2>2, <2>3, <2>4
<1> QED
  BY <1>1, <1>2, <1>a

\* Moves stay known if what is appended is no move, or one that is known.
LEMMA MovesAppend ==
  ASSUME TypeOK, MovesAreKnown, LogStep, NEW s \in Sites, NEW e \in Event, Appends(s, e),
         NEW n \in Nat, n = Len(log[s]) + 1,
         \A v \in Sites : n >= 2 /\ e.to = v => HasMoved(v)'
  PROVE  MovesAreKnown'
<1> SUFFICES ASSUME NEW u \in Sites, NEW v \in Sites, NEW i \in 2..Len(log'[u]), log'[u][i].to = v
             PROVE  HasMoved(v)'
  BY DEF MovesAreKnown
<1>a. Len(log[u]) \in Nat /\ Len(log'[u]) \in Nat
  BY LogGrows DEF TypeOK
<1>1. CASE i <= Len(log[u])
  <2>1. i \in 2..Len(log[u]) /\ i \in 1..Len(log[u])
    BY <1>a, <1>1
  <2>2. log'[u][i] = log[u][i]
    BY <2>1, LogGrows
  <2> QED
    BY <2>1, <2>2, MovesStay DEF MovesAreKnown
<1>2. CASE i > Len(log[u])
  <2>1. u = s /\ i = n /\ log'[u][i] = e
    BY <1>a, <1>2, AppendStep
  <2> QED
    BY <2>1
<1> QED
  BY <1>a, <1>1, <1>2

LEMMA StoryNext ==
  ASSUME IInv, LogStep, world' = world
  PROVE  Story' /\ Created' /\ MovesAreKnown'
<1> USE Bounds DEF IInv
<1>a. \A u \in Sites : Len(log[u]) \in Nat /\ Len(log'[u]) \in Nat /\ Len(log[u]) <= Len(log'[u])
  BY LogGrows DEF TypeOK
<1>1. Created'
  <2>1. 1 \in 1..Len(log[world.at])
    BY <1>a DEF Created, TypeOK
  <2>2. log'[world.at] # <<>> /\ log'[world.at][1] = log[world.at][1]
    BY <1>a, <2>1, LogGrows
  <2> QED
    BY <2>2 DEF Created
<1>2. CASE log' = log
  <2>0. \A p \in Nat : QuietUpTo(p)' <=> QuietUpTo(p)
    BY <1>2 DEF QuietUpTo
  <2>1. Story'
    BY <1>2, <1>a, <2>0 DEF Story
  <2>2. MovesAreKnown'
    BY <1>2 DEF MovesAreKnown, HasMoved
  <2> QED
    BY <1>1, <2>1, <2>2
<1>3. ASSUME NEW s \in Sites, NEW e \in Event, e.to = None, Writer(s), Appends(s, e),
             NEW n \in Nat, n = Len(log[s]) + 1
      PROVE  Story' /\ MovesAreKnown'
  <2>1. QuietUpTo(n)' => s = world.at
    <3>1. ASSUME HasMoved(s), QuietUpTo(n)
          PROVE  FALSE
      BY <1>3, <1>a, <3>1 DEF HasMoved, QuietUpTo
    <3> QED
      BY <1>3, <3>1, QuietBefore DEF Writer
  <2>2. Story'
    BY <1>3, <2>1, StoryAppends
  <2>3. MovesAreKnown'
    BY <1>3, MovesAppend
  <2> QED
    BY <2>2, <2>3
<1>4. ASSUME NEW s \in Sites, NEW to \in Sites, log[s] # <<>>, to = s \/ HasMoved(to),
             NEW e \in Event, e.to = to, Appends(s, e), NEW n \in Nat, n = Len(log[s]) + 1
      PROVE  Story' /\ MovesAreKnown'
  <2>1. n >= 2
    BY <1>4, <1>a DEF TypeOK
  <2>2. Len(log'[s]) = n /\ log'[s][n] = e
    BY <1>4, AppendStep
  <2>3. ~QuietUpTo(n)'
    BY <1>4, <2>1, <2>2 DEF QuietUpTo
  <2>4. HasMoved(s)'
    BY <1>4, <2>1, <2>2 DEF HasMoved
  <2>5. HasMoved(to)'
    BY <1>4, <2>4, MovesStay
  <2>6. Story'
    BY <1>4, <2>3, StoryAppends
  <2>7. MovesAreKnown'
    BY <1>4, <2>5, MovesAppend
  <2> QED
    BY <2>6, <2>7
<1>5. ASSUME NEW s \in Sites, NEW t \in Sites, NEW n \in 1..Len(log[t]), n = Len(log[s]) + 1,
             NEW e \in Event, e = log[t][n], Appends(s, e)
      PROVE  Story' /\ MovesAreKnown'
  <2>1. n \in Nat
    BY <1>5
  <2>2. QuietUpTo(n)' => n <= Len(log[world.at]) /\ e = log[world.at][n]
    BY <1>5, <2>1, QuietBefore DEF Story
  <2>3. Story'
    BY <1>5, <2>1, <2>2, StoryAppends
  <2>4. \A v \in Sites : n >= 2 /\ e.to = v => HasMoved(v)'
    BY <1>5, MovesStay DEF MovesAreKnown
  <2>5. MovesAreKnown'
    BY <1>5, <2>1, <2>4, MovesAppend
  <2> QED
    BY <2>3, <2>5
<1>6. \A s \in Sites : Len(log[s]) + 1 \in Nat
  BY <1>a
<1>7. \A s \in Sites : \A to \in Sites \cup {None} :
        [by |-> s, seq |-> Len(log[s]) + 1, to |-> to] \in Event
  BY <1>a DEF Event
<1>8. \A s, t \in Sites : Len(log[s]) < Len(log[t]) =>
        Len(log[s]) + 1 \in 1..Len(log[t]) /\ log[t][Len(log[s]) + 1] \in Event
  BY <1>a DEF TypeOK
<1>9. CASE \E s \in Sites : Writer(s) /\ Appends(s, [by |-> s, seq |-> Len(log[s]) + 1, to |-> None])
  <2>1. PICK s \in Sites : Writer(s) /\ Appends(s, [by |-> s, seq |-> Len(log[s]) + 1, to |-> None])
    BY <1>9
  <2>2. PICK e \in Event : e = [by |-> s, seq |-> Len(log[s]) + 1, to |-> None]
    BY <1>7
  <2>3. PICK n \in Nat : n = Len(log[s]) + 1
    BY <1>6
  <2>4. e.to = None
    BY <2>2
  <2> QED
    BY <1>1, <1>3, <2>1, <2>2, <2>3, <2>4
<1>10. CASE \E s, to \in Sites :
         /\ log[s] # <<>>
         /\ to = s \/ HasMoved(to)
         /\ Appends(s, [by |-> s, seq |-> Len(log[s]) + 1, to |-> to])
  <2>1. PICK s \in Sites, to \in Sites :
          /\ log[s] # <<>>
          /\ to = s \/ HasMoved(to)
          /\ Appends(s, [by |-> s, seq |-> Len(log[s]) + 1, to |-> to])
    BY <1>10
  <2>2. PICK e \in Event : e = [by |-> s, seq |-> Len(log[s]) + 1, to |-> to]
    BY <1>7
  <2>3. PICK n \in Nat : n = Len(log[s]) + 1
    BY <1>6
  <2>4. e.to = to
    BY <2>2
  <2> QED
    BY <1>1, <1>4, <2>1, <2>2, <2>3, <2>4
<1>11. CASE \E s, t \in Sites : Len(log[s]) < Len(log[t]) /\ Appends(s, log[t][Len(log[s]) + 1])
  <2>1. PICK s \in Sites, t \in Sites :
          Len(log[s]) < Len(log[t]) /\ Appends(s, log[t][Len(log[s]) + 1])
    BY <1>11
  <2>2. PICK n \in 1..Len(log[t]) : n = Len(log[s]) + 1
    BY <1>8, <2>1
  <2>3. PICK e \in Event : e = log[t][n]
    BY <1>8, <2>1, <2>2
  <2> QED
    BY <1>1, <1>5, <2>1, <2>2, <2>3
<1> QED
  BY <1>1, <1>2, <1>9, <1>10, <1>11 DEF LogStep

\* Where logs only grow, what is known of their positions and writers stays.
LEMMA KnowledgeStays ==
  ASSUME TypeOK, LogStep, world' = world
  PROVE  /\ \A s \in Sites : Writer(s) => Writer(s)'
         /\ \A s \in Sites : log[s] # <<>> => log'[s] # <<>>
         /\ \A s \in Sites, n \in Nat : n <= Len(log[s]) => n <= Len(log'[s])
<1>1. \A s \in Sites : Len(log[s]) \in Nat /\ Len(log'[s]) \in Nat /\ Len(log[s]) <= Len(log'[s])
  BY LogGrows DEF TypeOK
<1>2. \A s \in Sites : log[s] # <<>> => Len(log[s]) > 0
  BY DEF TypeOK
<1> QED
  BY <1>1, <1>2, MovesStay DEF Writer

-----------------------------------------------------------------------------
(* The other variables: which steps touch them, and what holds after these. *)

Publishes == \E s \in Sites, to \in Sites \cup {None} : Publish(s, to)

Replays ==
  \E s, t \in Sites : \E p \in 1..Len(log[t]) : \E o \in Sites : Replay(s, p, log[t][p], o)

Frame ==
  /\ \/ unsent' = unsent
     \/ Publishes
     \/ \E w \in Workspaces : RestartWorkspace(w) \/ \E p \in unsent[w] : Notify(w, p)
  /\ \/ wire' = wire
     \/ \E w \in Workspaces :
          \/ \E p \in unsent[w] : Notify(w, p)
          \/ HistoryDies(w) \/ Receive(w) \/ Drop(w)
          \/ LoseConnection(w) \/ HistoryRefused(w) \/ RestartWorkspace(w)
     \/ RestartHub
  /\ \/ sync' = sync
     \/ \E w \in Workspaces :
          \/ StartSync(w) \/ ConnectSSE(w) \/ AskHistory(w) \/ AnswerHistory(w)
          \/ ReplayHistory(w) \/ HistoryDies(w) \/ StreamEnds(w)
          \/ LoseConnection(w) \/ HistoryRefused(w) \/ RestartWorkspace(w)
     \/ RestartHub
  /\ home' = home \/ SetWorkspace \/ Replays
  /\ \/ working' = working
     \/ Prompt
     \/ \E s \in Sites : Finish(s)
     \/ \E w \in Workspaces : Handle(w) \/ RestartWorkspace(w)
     \/ RestartHub
  /\ \/ request' = request
     \/ \E w \in Workspaces : Send(w) \/ Handle(w) \/ Respond(w) \/ RestartWorkspace(w)
     \/ Synced \/ EndRequest \/ RestartHub
  /\ \/ warp' = warp
     \/ \E s \in Sites : SessionWarp(s)
     \/ Warping \/ WarpFails \/ RestartHub
  /\ \/ owner' = owner
     \/ Replays
     \/ Claim
  /\ \/ warps' = warps
     \/ \E s \in Sites : SessionWarp(s)

LEMMA Frames == IInv /\ [Next]_vars => Frame
<1> SUFFICES ASSUME IInv, [Next]_vars
             PROVE  Frame
  OBVIOUS
<1> USE Bounds DEF IInv
<1>a. /\ warp.from \in Sites /\ warp.to \in Sites
      /\ warp.next \in Nat \ {0} /\ warp.upto \in Nat
  BY DEF TypeOK, WarpState
<1>1. CASE UNCHANGED vars
  BY <1>1 DEF vars, Frame
<1>2. CASE Prompt \/ Synced \/ EndRequest
  BY <1>2 DEF Prompt, Synced, EndRequest, tables, links, limits, Frame
<1>3. CASE WarpFails \/ RestartHub
  BY <1>3 DEF WarpFails, RestartHub, Breaks, tables, links, limits, Frame
<1>4. ASSUME NEW s \in Sites, Finish(s) \/ SessionWarp(s) \/ Write(s)
      PROVE  Frame
  <2>1. CASE Finish(s)
    BY <2>1 DEF Finish, tables, links, limits, Frame
  <2>2. CASE SessionWarp(s)
    BY <2>2 DEF SessionWarp, tables, links, limits, Frame
  <2>3. CASE Write(s)
    BY <2>3 DEF Write, Publish, Publishes, links, limits, Frame
  <2> QED
    BY <1>4, <2>1, <2>2, <2>3
<1>5. ASSUME NEW w \in Workspaces, \E p \in unsent[w] : Notify(w, p)
      PROVE  Frame
  BY <1>5 DEF Notify, tables, links, limits, Frame
<1>6. ASSUME NEW w \in Workspaces, StartSync(w) \/ LoseConnection(w) \/ StreamEnds(w) \/ HistoryRefused(w)
      PROVE  Frame
  BY <1>6 DEF StartSync, LoseConnection, StreamEnds, HistoryRefused, Breaks, tables, links, limits, Frame
<1>7. ASSUME NEW w \in Workspaces, RestartWorkspace(w)
      PROVE  Frame
  BY <1>7 DEF RestartWorkspace, Breaks, tables, Frame
<1>8. ASSUME NEW w \in Workspaces, Requesting(w)
      PROVE  Frame
  <2>1. CASE Send(w) \/ Respond(w)
    BY <2>1 DEF Send, Respond, tables, links, limits, Frame
  <2>2. CASE Handle(w)
    BY <2>2 DEF Handle, Publish, Publishes, links, limits, Frame
  <2> QED
    BY <1>8, <2>1, <2>2 DEF Requesting
<1>9. ASSUME NEW w \in Workspaces, Following(w)
      PROVE  Frame
  <2>1. CASE ReplayHistory(w)
    <3>1. sync[w].next \in 1..Len(log[w])
      BY <2>1 DEF TypeOK, PositionsFit, SyncFits, ReplayHistory, SyncState
    <3>2. Replays
      BY <2>1, <3>1 DEF ReplayHistory, Replays
    <3> QED
      BY <2>1, <3>2 DEF ReplayHistory, limits, Frame
  <2>2. CASE Receive(w)
    <3>1. Head(wire[w]) \in 1..Len(log[w])
      BY <2>2, HeadFits DEF PositionsFit, Receive
    <3>2. Replays
      BY <2>2, <3>1 DEF Receive, Replays
    <3> QED
      BY <2>2, <3>2 DEF Receive, limits, Frame
  <2>3. CASE ConnectSSE(w) \/ AskHistory(w) \/ AnswerHistory(w)
    BY <2>3 DEF ConnectSSE, AskHistory, AnswerHistory, tables, limits, Frame
  <2>4. CASE HistoryDies(w) \/ Drop(w)
    BY <2>4 DEF HistoryDies, Drop, tables, limits, Frame
  <2> QED
    BY <1>9, <2>1, <2>2, <2>3, <2>4 DEF Following
<1>10. CASE Warping
  <2>1. CASE WarpAsk \/ WarpAnswer \/ WarpReplayDies \/ ReadLog \/ SendRefused
    BY <1>10, <2>1 DEF WarpAsk, WarpAnswer, WarpReplayDies, ReadLog, SendRefused, tables, links, limits, Frame
  <2>2. CASE WarpUnanswered
    BY <1>10, <2>2 DEF WarpUnanswered, Breaks, tables, links, Frame
  <2>3. CASE Claim
    BY <1>10, <2>3 DEF Claim, links, limits, Frame
  <2>4. CASE WarpReplay
    <3>1. warp.next \in 1..Len(log[warp.from])
      BY <2>4, <1>a DEF TypeOK, WarpReplay, WarpFits
    <3>2. Replays
      BY <1>a, <2>4, <3>1 DEF WarpReplay, Replays
    <3> QED
      BY <1>10, <2>4, <3>2 DEF WarpReplay, links, limits, Frame
  <2>5. CASE SendRow
    <3>1. warp.next \in 1..Len(log[Hub])
      BY <2>5, <1>a DEF TypeOK, SendRow, WarpFits
    <3>2. Replays
      BY <1>a, <2>5, <3>1 DEF SendRow, Replays
    <3> QED
      BY <1>10, <2>5, <3>2 DEF SendRow, links, limits, Frame
  <2>6. CASE Steal
    <3>1. warp.to # Hub
      BY <2>6 DEF Steal, WarpFits
    <3> QED
      BY <1>a, <1>10, <2>6, <3>1 DEF Steal, Publish, Publishes, links, limits, Frame
  <2>7. CASE SetWorkspace
    BY <1>a, <1>10, <2>7 DEF SetWorkspace, Publish, Publishes, links, limits, Frame
  <2> QED
    BY <1>10, <2>1, <2>2, <2>3, <2>4, <2>5, <2>6, <2>7 DEF Warping
<1> QED
  BY <1>1, <1>2, <1>3, <1>4, <1>5, <1>6, <1>7, <1>8, <1>9, <1>10 DEF Next


LEMMA UnsentNext ==
  ASSUME TypeOK, UnsentFits, LogStep, world' = world, Frame
  PROVE  UnsentFits'
<1> USE Bounds
<1> SUFFICES ASSUME NEW w \in Workspaces, NEW p \in unsent'[w]
             PROVE  p <= Len(log'[w])
  BY DEF UnsentFits
<1>1. ASSUME p \in unsent[w]
      PROVE  p <= Len(log'[w])
  <2>1. p \in Nat /\ p <= Len(log[w])
    BY <1>1 DEF UnsentFits, TypeOK
  <2> QED
    BY <2>1, KnowledgeStays
<1>2. CASE Publishes
  <2>1. PICK s \in Sites, to \in Sites \cup {None} : Publish(s, to)
    BY <1>2 DEF Publishes
  <2>2. p \in unsent[w] \/ (s = w /\ p = Len(log[w]) + 1)
    BY <2>1 DEF Publish, TypeOK
  <2>3. CASE s = w /\ p = Len(log[w]) + 1
    <3>0. [by |-> s, seq |-> Len(log[s]) + 1, to |-> to] \in Event
      BY DEF TypeOK, Event
    <3>1. PICK e \in Event : e = [by |-> s, seq |-> Len(log[s]) + 1, to |-> to]
      BY <3>0
    <3>2. Appends(s, e)
      BY <2>1, <3>1 DEF Publish, Appends
    <3>3. Len(log'[w]) = Len(log[w]) + 1
      BY <2>3, <3>2, AppendStep
    <3> QED
      BY <2>3, <3>3, AppendStep, LogGrows
  <2> QED
    BY <1>1, <2>2, <2>3
<1>3. ASSUME NEW v \in Workspaces, RestartWorkspace(v)
      PROVE  p \in unsent[w]
  BY <1>3 DEF RestartWorkspace, TypeOK
<1>4. ASSUME NEW v \in Workspaces, NEW q \in unsent[v], Notify(v, q)
      PROVE  p \in unsent[w]
  <2>1. unsent' = [unsent EXCEPT ![v] = @ \ {q}]
    BY <1>4 DEF Notify
  <2>2. unsent'[w] \subseteq unsent[w]
    BY <2>1 DEF TypeOK
  <2> QED
    BY <2>2
<1>5. CASE unsent' = unsent
  BY <1>1, <1>5
<1> QED
  BY <1>1, <1>2, <1>3, <1>4, <1>5 DEF Frame

LEMMA WireNext ==
  ASSUME TypeOK, UnsentFits, WireFits, LogStep, world' = world, Frame
  PROVE  WireFits'
<1> USE Bounds
<1> SUFFICES ASSUME NEW w \in Workspaces, NEW i \in 1..Len(wire'[w])
             PROVE  wire'[w][i] <= Len(log'[w])
  BY DEF WireFits
<1>a. wire[w] \in Seq(Nat \ {0}) /\ Len(wire[w]) \in Nat
  BY DEF TypeOK
<1>1. ASSUME NEW q \in Nat, q <= Len(log[w])
      PROVE  q <= Len(log'[w])
  BY <1>1, KnowledgeStays
<1>2. ASSUME NEW j \in 1..Len(wire[w])
      PROVE  wire[w][j] \in Nat /\ wire[w][j] <= Len(log'[w])
  <2>1. wire[w][j] \in Nat
    BY <1>a
  <2>2. wire[w][j] <= Len(log[w])
    BY DEF WireFits
  <2> QED
    BY <1>1, <2>1, <2>2
<1>3. ASSUME NEW v \in Workspaces, NEW q \in unsent[v], Notify(v, q)
      PROVE  wire'[w][i] <= Len(log'[w])
  <2>1. CASE wire'[w] = wire[w]
    BY <1>2, <2>1
  <2>2. CASE v = w /\ wire'[w] = Append(wire[w], q)
    <3>1. q \in Nat /\ q <= Len(log'[w])
      BY <1>1, <2>2 DEF UnsentFits, TypeOK
    <3>2. Append(wire[w], q)[i] = IF i <= Len(wire[w]) THEN wire[w][i] ELSE q
      BY <1>a, <2>2
    <3>3. i \in Nat /\ i >= 1
      BY <1>a, <2>2
    <3>4. CASE i <= Len(wire[w])
      <4>1. i \in 1..Len(wire[w])
        BY <1>a, <3>3, <3>4
      <4> QED
        BY <1>2, <2>2, <3>2, <3>4, <4>1
    <3>5. CASE ~(i <= Len(wire[w]))
      BY <2>2, <3>1, <3>2, <3>5
    <3> QED
      BY <3>4, <3>5
  <2> QED
    BY <1>3, <2>1, <2>2 DEF Notify, TypeOK
<1>4. CASE wire'[w] = Tail(wire[w]) /\ wire[w] # <<>>
  <2>1. i + 1 \in 1..Len(wire[w]) /\ wire'[w][i] = wire[w][i + 1]
    BY <1>a, <1>4
  <2> QED
    BY <1>2, <2>1
<1>5. CASE wire'[w] = <<>>
  BY <1>5
<1>6. CASE wire'[w] = wire[w]
  BY <1>2, <1>6
<1>7. ASSUME NEW v \in Workspaces,
             \/ HistoryDies(v) \/ Receive(v) \/ Drop(v)
             \/ LoseConnection(v) \/ HistoryRefused(v) \/ RestartWorkspace(v)
      PROVE  wire'[w] = wire[w] \/ wire'[w] = <<>> \/ (wire'[w] = Tail(wire[w]) /\ wire[w] # <<>>)
  BY <1>7 DEF HistoryDies, Receive, Drop, LoseConnection, HistoryRefused, RestartWorkspace, Cut, TypeOK
<1>8. CASE RestartHub
  BY <1>5, <1>8 DEF RestartHub
<1> QED
  BY <1>3, <1>4, <1>5, <1>6, <1>7, <1>8 DEF Frame

LEMMA SyncNext ==
  ASSUME TypeOK, SyncFits, LogStep, world' = world, Frame
  PROVE  SyncFits'
<1> USE Bounds
<1> SUFFICES ASSUME NEW w \in Workspaces, sync'[w].pc = "replaying"
             PROVE  sync'[w].next <= sync'[w].upto /\ sync'[w].upto <= Len(log'[w])
  BY DEF SyncFits
<1>a. /\ sync[w] \in SyncState /\ sync[w].next \in Nat \ {0} /\ sync[w].upto \in Nat
      /\ Len(log[w]) \in Nat
  BY DEF TypeOK, SyncState
<1>1. CASE sync'[w] = sync[w]
  BY <1>1, <1>a, KnowledgeStays DEF SyncFits
<1>2. ASSUME NEW v \in Workspaces, AnswerHistory(v)
      PROVE  sync'[w].next <= sync'[w].upto /\ sync'[w].upto <= Len(log'[w])
  <2>1. CASE v = w
    <3>1. sync'[w] = Answer(sync[w], w, "live")
      BY <1>2, <2>1 DEF AnswerHistory, TypeOK
    <3>2. sync[w].next <= Len(log[w]) /\ sync'[w] = [sync[w] EXCEPT !.pc = "replaying", !.upto = Len(log[w])]
      BY <3>1, <1>a DEF Answer, SyncState
    <3>3. sync'[w].next = sync[w].next /\ sync'[w].upto = Len(log[w])
      BY <3>2, <1>a DEF SyncState
    <3> QED
      BY <1>a, <3>2, <3>3, KnowledgeStays
  <2>2. CASE v # w
    BY <1>1, <1>2, <2>2 DEF AnswerHistory, TypeOK
  <2> QED
    BY <2>1, <2>2
<1>3. ASSUME NEW v \in Workspaces, ReplayHistory(v)
      PROVE  sync'[w].next <= sync'[w].upto /\ sync'[w].upto <= Len(log'[w])
  <2>1. CASE v = w
    <3>1. sync'[w] = Proceed(sync[w], "live")
      BY <1>3, <2>1 DEF ReplayHistory, TypeOK
    <3>2. sync[w].next < sync[w].upto /\ sync'[w] = [sync[w] EXCEPT !.next = @ + 1]
      BY <3>1, <1>a DEF Proceed, SyncState
    <3>3. sync'[w].next = sync[w].next + 1 /\ sync'[w].upto = sync[w].upto /\ sync[w].pc = "replaying"
      BY <3>2, <1>a DEF SyncState
    <3> QED
      BY <1>a, <3>2, <3>3, KnowledgeStays DEF SyncFits
  <2>2. CASE v # w
    BY <1>1, <1>3, <2>2 DEF ReplayHistory, TypeOK
  <2> QED
    BY <2>1, <2>2
<1>4. ASSUME NEW v \in Workspaces, LoseConnection(v) \/ RestartWorkspace(v)
      PROVE  sync'[w].next <= sync'[w].upto /\ sync'[w].upto <= Len(log'[w])
  <2>1. Cut(v)
    BY <1>4 DEF LoseConnection, RestartWorkspace
  <2>2. sync'[w] = sync[w] \/ sync'[w] = [sync[w] EXCEPT !.up = FALSE]
    BY <2>1 DEF Cut, TypeOK
  <2>3. sync'[w].pc = sync[w].pc /\ sync'[w].next = sync[w].next /\ sync'[w].upto = sync[w].upto
    BY <2>2, <1>a DEF SyncState
  <2> QED
    BY <1>a, <2>3, KnowledgeStays DEF SyncFits
<1>5. ASSUME NEW v \in Workspaces,
             \/ StartSync(v) \/ ConnectSSE(v) \/ AskHistory(v)
             \/ HistoryDies(v) \/ StreamEnds(v) \/ HistoryRefused(v)
      PROVE  sync'[w] = sync[w]
  <2>1. CASE v # w
    BY <1>5, <2>1 DEF StartSync, ConnectSSE, AskHistory, HistoryDies, StreamEnds, HistoryRefused, TypeOK
  <2>2. CASE v = w
    <3>1. sync'[w].pc # "replaying"
      BY <1>5, <2>2, <1>a DEF StartSync, ConnectSSE, AskHistory, HistoryDies, StreamEnds, HistoryRefused,
           IdleSync, TypeOK, SyncState
    <3> QED
      BY <3>1
  <2> QED
    BY <2>1, <2>2
<1>6. CASE RestartHub
  BY <1>6 DEF RestartHub, IdleSync
<1>7. CASE sync' = sync
  BY <1>1, <1>7
<1> QED
  BY <1>1, <1>2, <1>3, <1>4, <1>5, <1>6, <1>7 DEF Frame

LEMMA HomeNext ==
  ASSUME IInv, LogStep, world' = world, Frame
  PROVE  home' # None => Writer(home)' /\ log'[Hub] # <<>>
<1> USE Bounds DEF IInv
<1>a. /\ \A s \in Sites : Writer(s) => Writer(s)'
      /\ \A s \in Sites : log[s] # <<>> => log'[s] # <<>>
  BY KnowledgeStays
<1>1. CASE home' = home
  <2>1. home \in Sites \cup {None}
    BY DEF TypeOK
  <2>2. home # None => Writer(home) /\ log[Hub] # <<>>
    BY DEF WritersKnow
  <2>3. ASSUME NEW h \in Sites, home = h
        PROVE  Writer(home)'
    <3>1. Writer(h)'
      BY <1>a, <2>2, <2>3
    <3> QED
      BY <1>1, <2>3, <3>1 DEF Writer, HasMoved
  <2> QED
    BY <1>1, <1>a, <2>1, <2>2, <2>3
<1>2. CASE SetWorkspace
  <2>1. /\ warp.to \in Sites /\ log[Hub] # <<>> /\ (warp.to # Hub => HasMoved(warp.to))
        /\ Publish(Hub, warp.to)
    BY <1>2 DEF SetWorkspace, WarpFits, TypeOK, WarpState
  <2>2. PICK v \in Sites : v = warp.to
    BY <2>1
  <2>3. home' = v
    BY <2>1, <2>2 DEF Publish
  <2>4. CASE v = Hub
    <3>n. Len(log[Hub]) + 1 \in Nat \ {0}
      BY DEF TypeOK
    <3>0. [by |-> Hub, seq |-> Len(log[Hub]) + 1, to |-> v] \in Event
      BY <3>n DEF Event
    <3>1. PICK e \in Event : e = [by |-> Hub, seq |-> Len(log[Hub]) + 1, to |-> v]
      BY <3>0
    <3>2. Appends(Hub, e)
      BY <2>1, <2>2, <3>1 DEF Publish, Appends
    <3>3. Len(log'[Hub]) = Len(log[Hub]) + 1 /\ log'[Hub][Len(log[Hub]) + 1] = e /\ Len(log[Hub]) \in Nat
      BY <3>2, AppendStep
    <3>4. Len(log[Hub]) + 1 \in 2..Len(log'[Hub])
      BY <2>1, <3>3 DEF TypeOK
    <3>5. HasMoved(Hub)'
      BY <2>4, <3>1, <3>3, <3>4 DEF HasMoved
    <3> QED
      BY <1>a, <2>1, <2>3, <2>4, <3>5 DEF Writer, HasMoved
  <2>5. CASE v # Hub
    <3>1. Writer(v)'
      BY <1>a, <2>1, <2>2, <2>5 DEF Writer
    <3> QED
      BY <1>a, <2>1, <2>3, <3>1 DEF Writer, HasMoved
  <2> QED
    BY <2>4, <2>5
<1>3. CASE Replays /\ home' # home
  <2>1. PICK s \in Sites, t \in Sites : \E p \in 1..Len(log[t]) : \E o \in Sites : Replay(s, p, log[t][p], o)
    BY <1>3 DEF Replays
  <2>2. PICK p \in 1..Len(log[t]) : \E o \in Sites : Replay(s, p, log[t][p], o)
    BY <2>1
  <2>3. PICK o \in Sites : Replay(s, p, log[t][p], o)
    BY <2>2
  <2>4. s = Hub /\ Accepted(s, p, o) /\ log[t][p].to # None /\ home' = log[t][p].to
    BY <1>3, <2>3 DEF Replay
  <2>5. log[t][p] \in Event /\ p \in Nat /\ Len(log[t]) \in Nat
    BY DEF TypeOK
  <2>6. PICK v \in Sites : v = log[t][p].to
    BY <2>4, <2>5 DEF Event
  <2>7. Appends(Hub, log[t][p])
    BY <2>3, <2>4 DEF Replay, Appends
  <2>8. log'[Hub] # <<>>
    <3>1. Len(log'[Hub]) = Len(log[Hub]) + 1 /\ Len(log[Hub]) \in Nat
      BY <2>5, <2>7, AppendStep
    <3> QED
      BY <3>1
  <2>9. Writer(v)
    <3>1. CASE p = 1
      <4>1. QuietUpTo(1)
        BY DEF QuietUpTo
      <4>2. log[t][1] = log[world.at][1]
        BY <2>2, <3>1, <4>1 DEF Story
      <4> QED
        BY <2>6, <3>1, <4>2 DEF Created, Writer
    <3>2. CASE p # 1
      <4>1. p \in 2..Len(log[t])
        BY <2>2, <2>5, <3>2
      <4> QED
        BY <2>6, <4>1 DEF MovesAreKnown, Writer
    <3> QED
      BY <3>1, <3>2
  <2>10. Writer(v)'
    BY <1>a, <2>9
  <2> QED
    BY <2>4, <2>6, <2>8, <2>10 DEF Writer, HasMoved
<1> QED
  BY <1>1, <1>2, <1>3 DEF Frame

LEMMA WritersNext ==
  ASSUME IInv, LogStep, world' = world, Frame
  PROVE  WritersKnow'
<1> USE Bounds DEF IInv
<1>a. \A s \in Sites : Writer(s) => Writer(s)'
  BY KnowledgeStays
<1>1. home' # None => Writer(home)' /\ log'[Hub] # <<>>
  BY HomeNext
<1>2. ASSUME NEW s \in Sites, working'[s]
      PROVE  Writer(s)'
  <2>1. CASE working[s]
    BY <1>a, <2>1 DEF WritersKnow
  <2>2. CASE Prompt /\ ~working[s]
    <3>1. s = Hub /\ home = Hub
      BY <1>2, <2>2 DEF Prompt, TypeOK
    <3>2. Writer(s)
      BY <3>1 DEF WritersKnow
    <3> QED
      BY <1>a, <3>2
  <2>3. ASSUME NEW w \in Workspaces, Handle(w), ~working[s]
        PROVE  Writer(s)'
    <3>1. s = w /\ request.to = w /\ request.pc # "idle"
      BY <1>2, <2>3 DEF Handle, TypeOK
    <3>2. Writer(s)
      BY <3>1 DEF WritersKnow
    <3> QED
      BY <1>a, <3>2
  <2>4. ASSUME \/ \E t \in Sites : Finish(t)
               \/ \E w \in Workspaces : RestartWorkspace(w)
               \/ RestartHub
        PROVE  working[s]
    BY <1>2, <2>4 DEF Finish, RestartWorkspace, RestartHub, TypeOK
  <2>5. CASE working' = working
    BY <1>2, <2>1, <2>5
  <2> QED
    BY <2>1, <2>2, <2>3, <2>4, <2>5 DEF Frame
<1>3. ASSUME request'.pc # "idle"
      PROVE  Writer(request.to)'
  <2>a. request \in RequestState /\ request.to \in Sites
    BY DEF TypeOK, RequestState
  <2>1. PICK v \in Sites : v = request.to
    BY <2>a
  <2>2. CASE request'.to = request.to /\ request.pc # "idle"
    <3>1. Writer(v)'
      BY <1>a, <2>1, <2>2 DEF WritersKnow
    <3> QED
      BY <2>1, <2>2, <3>1 DEF Writer, HasMoved
  <2>3. ASSUME NEW w \in Workspaces, Send(w)
        PROVE  Writer(request.to)'
    <3>1. home = w /\ request'.to = w
      BY <2>3 DEF Send, NoRequest
    <3>2. Writer(w)'
      BY <1>a, <3>1 DEF WritersKnow
    <3> QED
      BY <3>1, <3>2 DEF Writer, HasMoved
  <2>4. ASSUME NEW w \in Workspaces, Handle(w) \/ Respond(w) \/ RestartWorkspace(w)
        PROVE  request'.to = request.to /\ request.pc # "idle"
    <3>1. CASE Handle(w)
      BY <2>a, <3>1 DEF Handle, RequestState
    <3>2. CASE Respond(w)
      BY <2>a, <3>2 DEF Respond, RequestState
    <3>3. CASE RestartWorkspace(w)
      BY <1>3, <2>a, <3>3 DEF RestartWorkspace, NoRequest
    <3> QED
      BY <2>4, <3>1, <3>2, <3>3
  <2>5. CASE Synced \/ EndRequest \/ RestartHub
    BY <1>3, <2>a, <2>2, <2>5 DEF Synced, EndRequest, RestartHub, NoRequest, RequestState
  <2>6. CASE request' = request
    BY <1>3, <2>2, <2>6
  <2> QED
    BY <2>2, <2>3, <2>4, <2>5, <2>6 DEF Frame
<1> QED
  BY <1>1, <1>2, <1>3 DEF WritersKnow

LEMMA WarpNext ==
  ASSUME IInv, LogStep, world' = world, Frame
  PROVE  WarpFits'
<1> USE Bounds DEF IInv
<1>a. /\ warp \in WarpState /\ warp.from \in Sites /\ warp.to \in Sites
      /\ warp.next \in Nat \ {0} /\ warp.upto \in Nat
  BY DEF TypeOK, WarpState
<1>b. \A s \in Sites : Len(log[s]) \in Nat /\ Len(log'[s]) \in Nat /\ Len(log[s]) <= Len(log'[s])
  BY LogGrows DEF TypeOK
<1>c. /\ \A s \in Sites : log[s] # <<>> => log'[s] # <<>>
      /\ \A s \in Sites, n \in Nat : n <= Len(log[s]) => n <= Len(log'[s])
  BY KnowledgeStays
<1>d. PICK f \in Sites, t \in Sites : warp.from = f /\ warp.to = t
  BY <1>a
<1>e. \A s \in Sites : HasMoved(s) => HasMoved(s)'
  BY MovesStay
<1>1. CASE warp' = warp
  <2>1. warp.pc = "move" /\ t # Hub => HasMoved(t)'
    BY <1>d, <1>e DEF WarpFits
  <2> QED
    BY <1>1, <1>a, <1>c, <1>d, <2>1 DEF WarpFits, HasMoved
<1>2. CASE warp' = NoWarp
  BY <1>2 DEF NoWarp, WarpFits
<1>3. ASSUME NEW s \in Sites, SessionWarp(s)
      PROVE  WarpFits'
  <2>1. home \in Sites /\ s # home /\ log[Hub] # <<>>
    BY <1>3 DEF SessionWarp, TypeOK, WritersKnow
  <2>2. /\ warp'.pc = IF home = Hub THEN "read" ELSE "ask"
        /\ warp'.from = home /\ warp'.to = s /\ warp'.next = 1
    BY <1>3 DEF SessionWarp, NoWarp
  <2>3. home # Hub => home \in Workspaces
    BY <2>1 DEF Sites
  <2>4. home = Hub => s \in Workspaces
    BY <2>1 DEF Sites
  <2> QED
    BY <1>c, <2>1, <2>2, <2>3, <2>4 DEF WarpFits
<1>4. CASE WarpAsk \/ WarpUnanswered
  <2>1. /\ warp'.pc \in {"answer", "claim"} /\ warp.pc \in {"ask", "answer"}
        /\ warp'.from = warp.from /\ warp'.to = warp.to
        /\ warp'.pc = "claim" => warp'.next = 1
    BY <1>4, <1>a DEF WarpAsk, WarpUnanswered, WarpState
  <2> QED
    BY <2>1, <1>c DEF WarpFits
<1>5. CASE WarpAnswer
  <2>1. /\ warp.pc = "answer"
        /\ warp'.from = warp.from /\ warp'.to = warp.to
        /\ \/ warp'.pc = "claim" /\ warp'.next = 1
           \/ /\ warp'.pc = "replaying"
              /\ warp'.next = warp.next /\ warp.next <= Len(log[warp.from])
              /\ warp'.upto = Len(log[warp.from])
    BY <1>5, <1>a DEF WarpAnswer, Answer, WarpState
  <2> QED
    BY <2>1, <1>a, <1>b, <1>c DEF WarpFits
<1>6. CASE WarpReplay
  <2>1. /\ warp.pc = "replaying"
        /\ warp'.from = warp.from /\ warp'.to = warp.to
        /\ \/ warp'.pc = "claim" /\ warp'.next = 1
           \/ /\ warp'.pc = "replaying"
              /\ warp.next < warp.upto /\ warp'.next = warp.next + 1 /\ warp'.upto = warp.upto
    BY <1>6, <1>a DEF WarpReplay, Proceed, WarpState
  <2>2. warp.from \in Workspaces /\ log'[Hub] # <<>> /\ warp.upto <= Len(log[warp.from])
    BY <2>1, <1>c DEF WarpFits
  <2>3. warp.upto <= Len(log'[warp.from])
    BY <2>2, <1>a, <1>b
  <2>4. warp'.pc = "replaying" => warp'.next <= warp'.upto
    BY <2>1, <1>a
  <2> QED
    BY <2>1, <2>2, <2>3, <2>4 DEF WarpFits
<1>7. CASE Claim \/ ReadLog
  <2>1. /\ warp.pc \in {"claim", "read"}
        /\ warp'.from = warp.from /\ warp'.to = warp.to /\ warp'.next = warp.next
        /\ \/ warp'.pc = "move" /\ warp.to = Hub
           \/ warp'.pc = "read" /\ warp.to # Hub
           \/ warp.pc = "read" /\ warp'.pc = "send" /\ warp'.upto = Len(log[Hub])
    BY <1>7, <1>a DEF Claim, ReadLog, WarpState
  <2>2. warp.to # Hub => warp.to \in Workspaces
    BY <1>a DEF Sites
  <2>3. 1 <= Len(log[Hub])
    BY <2>1, <1>b DEF WarpFits, TypeOK
  <2> QED
    BY <2>1, <2>2, <2>3, <1>a, <1>b, <1>c DEF WarpFits
<1>8. CASE SendRow
  <2>1. /\ warp.pc = "send"
        /\ warp'.from = warp.from /\ warp'.to = warp.to
        /\ \/ warp'.pc = "steal" /\ warp'.next = 1
           \/ /\ warp'.pc = "send"
              /\ warp.next < warp.upto /\ warp'.next = warp.next + 1 /\ warp'.upto = warp.upto
    BY <1>8, <1>a DEF SendRow, Proceed, WarpState
  <2>2. log'[t] # <<>>
    <3>1. PICK p \in 1..Len(log[Hub]) : p = warp.next
      BY <1>a, <1>b, <2>1 DEF WarpFits
    <3>2. Replay(t, p, log[Hub][p], t) /\ ~Dies(t, p, log[Hub][p], t) /\ t \in Workspaces
      BY <1>8, <1>d, <3>1 DEF SendRow, WarpFits
    <3>3. CASE p <= Len(log[t])
      <4>1. log[t] # <<>>
        BY <1>b, <3>1, <3>3 DEF TypeOK
      <4> QED
        BY <1>c, <4>1
    <3>4. CASE p > Len(log[t])
      <4>1. Accepted(t, p, t)
        BY <3>2, <3>4 DEF Accepted, Dies, Fenced
      <4>2. Appends(t, log[Hub][p])
        BY <3>2, <4>1 DEF Replay, Appends
      <4>3. log[Hub][p] \in Event
        BY <3>1 DEF TypeOK
      <4>4. Len(log'[t]) = Len(log[t]) + 1
        BY <4>2, <4>3, AppendStep
      <4> QED
        BY <1>b, <4>4
    <3> QED
      BY <1>b, <3>1, <3>3, <3>4
  <2> QED
    <3>1. warp'.pc = "send" => warp'.next <= warp'.upto /\ warp'.upto <= Len(log'[Hub])
      <4>1. warp.upto <= Len(log[Hub])
        BY <2>1 DEF WarpFits
      <4>2. warp.upto <= Len(log'[Hub])
        BY <1>a, <1>b, <4>1
      <4> QED
        BY <1>a, <2>1, <4>2
    <3>2. log'[Hub] # <<>> /\ warp.to \in Workspaces
      BY <1>c, <2>1 DEF WarpFits
    <3> QED
      BY <1>d, <2>1, <2>2, <3>1, <3>2 DEF WarpFits
<1>9. CASE Steal
  <2>1. /\ warp.pc = "steal" /\ warp'.pc = "move"
        /\ warp'.from = warp.from /\ warp'.to = warp.to
        /\ Publish(t, t)
    BY <1>9, <1>a, <1>d DEF Steal, WarpState
  <2>2. HasMoved(t)'
    <3>n. Len(log[t]) + 1 \in Nat \ {0}
      BY <1>b
    <3>0. [by |-> t, seq |-> Len(log[t]) + 1, to |-> t] \in Event
      BY <3>n DEF Event
    <3>1. PICK e \in Event : e = [by |-> t, seq |-> Len(log[t]) + 1, to |-> t]
      BY <3>0
    <3>2. Appends(t, e)
      BY <2>1, <3>1 DEF Publish, Appends
    <3>3. Len(log'[t]) = Len(log[t]) + 1 /\ log'[t][Len(log[t]) + 1] = e /\ Len(log[t]) \in Nat
      BY <3>2, AppendStep
    <3>4. log[t] # <<>>
      BY <1>d, <2>1 DEF WarpFits
    <3>5. Len(log[t]) + 1 \in 2..Len(log'[t])
      BY <3>3, <3>4 DEF TypeOK
    <3> QED
      BY <3>1, <3>3, <3>5 DEF HasMoved
  <2>3. HasMoved(warp.to)'
    BY <1>d, <2>1, <2>2 DEF HasMoved
  <2> QED
    BY <2>1, <2>3, <1>c DEF WarpFits
<1>10. CASE WarpReplayDies \/ SendRefused \/ SetWorkspace \/ WarpFails \/ RestartHub
  BY <1>2, <1>10 DEF WarpReplayDies, SendRefused, SetWorkspace, WarpFails, RestartHub
<1> QED
  BY <1>1, <1>3, <1>4, <1>5, <1>6, <1>7, <1>8, <1>9, <1>10 DEF Frame, Warping

-----------------------------------------------------------------------------
LEMMA InvInit == Init => IInv
<1> SUFFICES ASSUME Init
             PROVE  IInv
  OBVIOUS
<1> USE Bounds, TypeInit
<1>1. /\ log[world.at] = <<[by |-> world.at, seq |-> 1, to |-> world.at]>>
      /\ \A s \in Sites : s # world.at => log[s] = <<>>
  BY DEF Init
<1>2. Created
  BY <1>1 DEF Created
<1>3. \A s \in Sites : s # world.at => Len(log[s]) = 0
  BY <1>1
<1>4. Len(log[world.at]) = 1
  BY <1>1
<1>5. Story
  <2> SUFFICES ASSUME NEW s \in Sites, NEW p \in 1..Len(log[s])
               PROVE  p <= Len(log[world.at]) /\ log[s][p] = log[world.at][p]
    BY DEF Story
  <2>1. s = world.at
    BY <1>3
  <2>2. log[s] = log[world.at]
    BY <2>1
  <2>3. p \in Int /\ p <= Len(log[s])
    OBVIOUS
  <2> QED
    BY <1>4, <2>2, <2>3
<1>6. MovesAreKnown
  BY <1>3, <1>4 DEF MovesAreKnown
<1>7. PositionsFit
  BY DEF Init, IdleSync, PositionsFit, UnsentFits, WireFits, SyncFits
<1>8. WritersKnow
  BY <1>1 DEF Init, NoRequest, WritersKnow, Writer
<1>9. WarpFits
  BY DEF Init, NoWarp, WarpFits
<1> QED
  BY <1>2, <1>5, <1>6, <1>7, <1>8, <1>9 DEF IInv

LEMMA InvNext == IInv /\ [Next]_vars => IInv'
<1> SUFFICES ASSUME IInv, [Next]_vars
             PROVE  IInv'
  OBVIOUS
<1>1. LogStep /\ world' = world
  BY LogSteps
<1>2. Frame
  BY Frames
<1>3. TypeOK'
  BY TypeNext DEF IInv
<1>4. Story' /\ Created' /\ MovesAreKnown'
  BY <1>1, StoryNext
<1>5. PositionsFit'
  BY <1>1, <1>2, UnsentNext, WireNext, SyncNext DEF IInv, PositionsFit
<1>6. WritersKnow' /\ WarpFits'
  BY <1>1, <1>2, WritersNext, WarpNext
<1> QED
  BY <1>3, <1>4, <1>5, <1>6 DEF IInv

\* The invariant holds in every behaviour: positions below the first move have
\* one writer, and whoever writes later has been told to (commitDurableEvent,
\* sessionWarp).
THEOREM Inductive == Spec => []IInv
<1>1. IInv /\ UNCHANGED vars => IInv'
  BY InvNext
<1> QED
  BY InvInit, InvNext, PTL DEF Spec

\* Every variable keeps its type, however often sites fail and sessions move.
THEOREM TypeCorrect == Spec => []TypeOK
<1>1. IInv => TypeOK
  BY DEF IInv
<1> QED
  BY <1>1, Inductive, PTL

\* Below the first move two logs agree on the positions both have.
LEMMA Agreement ==
  ASSUME IInv, NEW s \in Sites, NEW t \in Sites, NEW p \in 1..Len(log[s]), p <= Len(log[t]), QuietUpTo(p)
  PROVE  log[s][p] = log[t][p]
<1>1. Len(log[s]) \in Nat /\ Len(log[t]) \in Nat
  BY DEF IInv, TypeOK
<1>2. p \in 1..Len(log[t])
  BY <1>1
<1> QED
  BY <1>2 DEF IInv, Story

\* Whatever is lost, repeated, reordered or refused, two sites hold the same
\* event at a position below the session's first move (event.ts's total order
\* "with a simple sequence id", across databases).
THEOREM SitesAgree == Spec => []OneStory
<1>1. IInv => OneStory
  BY Agreement DEF OneStory, QuietUpTo
<1> QED
  BY <1>1, Inductive, PTL

-----------------------------------------------------------------------------
(* What the hub is told, and what a move takes along.                       *)

\* What a request wrote is stored, and covered by its fence.
RequestFits ==
  /\ request.pc # "idle" => request.to \in Workspaces
  /\ request.pc \in {"handled", "fence", "ok"} => request.wrote <= Len(log[request.to])
  /\ request.pc \in {"fence", "ok"} => request.wrote <= request.fence
  /\ request.pc = "ok" => request.fence <= Len(log[Hub])

\* Nothing of a move is recorded before the first one claims the session.
First == warps = 0 \/ (warps = 1 /\ warp.pc \in {"ask", "answer", "replaying"})

Quiet ==
  /\ \A s \in Sites : ~HasMoved(s)
  /\ \A w \in Workspaces : w # world.at => log[w] = <<>>
  /\ owner \in {None, world.at}
  /\ home \in {None, world.at}

BeforeMoves ==
  /\ warps = 0 => warp.pc = "idle"
  /\ First => Quiet /\ (warp.pc # "idle" => warp.from = world.at)

\* The target has the rows it was sent.
WarpCopies ==
  /\ warp.pc \in {"ask", "answer", "replaying", "claim", "read"} => warp.rows = 0
  /\ warp.pc = "send" => warp.upto = warp.rows /\ SameUpTo(warp.to, Hub, warp.next - 1)
  /\ warp.pc \in {"steal", "move"} => SameUpTo(warp.to, Hub, warp.rows)

\* The first move takes along what the source had at its final sync.
WarpTakes ==
  /\ warp.pc \in {"ask", "answer"} => warp.had = 0
  /\ warps = 1 =>
       /\ warp.pc \in {"answer", "replaying"} => warp.next <= Len(log[Hub]) + 1
       /\ warp.pc = "replaying" => warp.upto = warp.had
       /\ warp.pc \in {"claim", "read", "send", "steal", "move"} => SameUpTo(Hub, warp.from, warp.had)
       /\ warp.pc \in {"send", "steal"} => warp.had <= warp.rows
       /\ warp.pc = "move" /\ warp.to # Hub => warp.had <= warp.rows

TInv ==
  /\ RequestFits
  /\ BeforeMoves
  /\ WarpCopies
  /\ WarpTakes

\* A replay at the hub of what a workspace has, on its behalf.
HubReplays == \E t \in Workspaces : \E p \in 1..Len(log[t]) : Replay(Hub, p, log[t][p], t)

Writes == \E s \in Sites : Writer(s) /\ Publish(s, None)

TablesStep == UNCHANGED tables \/ HubReplays \/ Writes \/ SendRow \/ Steal \/ SetWorkspace \/ Claim

LEMMA TablesSteps == IInv /\ [Next]_vars => TablesStep
<1> SUFFICES ASSUME IInv, [Next]_vars
             PROVE  TablesStep
  OBVIOUS
<1> USE Bounds DEF IInv
<1>1. CASE UNCHANGED vars
  BY <1>1 DEF vars, tables, TablesStep
<1>2. CASE Prompt \/ Synced \/ EndRequest \/ WarpFails \/ RestartHub
  BY <1>2 DEF Prompt, Synced, EndRequest, WarpFails, RestartHub, TablesStep
<1>3. ASSUME NEW s \in Sites, Finish(s) \/ SessionWarp(s)
      PROVE  TablesStep
  BY <1>3 DEF Finish, SessionWarp, TablesStep
<1>4. ASSUME NEW s \in Sites, Write(s)
      PROVE  TablesStep
  BY <1>4 DEF Write, WritersKnow, Writes, TablesStep
<1>5. ASSUME NEW w \in Workspaces,
             \/ \E p \in unsent[w] : Notify(w, p)
             \/ StartSync(w) \/ LoseConnection(w) \/ StreamEnds(w) \/ HistoryRefused(w) \/ RestartWorkspace(w)
             \/ Send(w) \/ Respond(w)
      PROVE  TablesStep
  BY <1>5 DEF Notify, StartSync, LoseConnection, StreamEnds, HistoryRefused, RestartWorkspace, Send,
       Respond, TablesStep
<1>6. ASSUME NEW w \in Workspaces, Handle(w)
      PROVE  TablesStep
  <2>1. Writer(w) /\ Publish(w, None) /\ w \in Sites
    BY <1>6 DEF Handle, WritersKnow
  <2> QED
    BY <2>1 DEF Writes, TablesStep
<1>7. ASSUME NEW w \in Workspaces, Following(w)
      PROVE  TablesStep
  <2>1. CASE ReplayHistory(w)
    <3>1. sync[w].next \in 1..Len(log[w])
      BY <2>1 DEF TypeOK, PositionsFit, SyncFits, ReplayHistory, SyncState
    <3> QED
      BY <2>1, <3>1 DEF ReplayHistory, HubReplays, TablesStep
  <2>2. CASE Receive(w)
    <3>1. Head(wire[w]) \in 1..Len(log[w])
      BY <2>2, HeadFits DEF PositionsFit, Receive
    <3> QED
      BY <2>2, <3>1 DEF Receive, HubReplays, TablesStep
  <2>3. CASE ConnectSSE(w) \/ AskHistory(w) \/ AnswerHistory(w) \/ HistoryDies(w) \/ Drop(w)
    BY <2>3 DEF ConnectSSE, AskHistory, AnswerHistory, HistoryDies, Drop, TablesStep
  <2> QED
    BY <1>7, <2>1, <2>2, <2>3 DEF Following
<1>8. CASE Warping
  <2>1. CASE WarpAsk \/ WarpAnswer \/ WarpUnanswered \/ WarpReplayDies \/ ReadLog \/ SendRefused
    BY <2>1 DEF WarpAsk, WarpAnswer, WarpUnanswered, WarpReplayDies, ReadLog, SendRefused, TablesStep
  <2>2. CASE WarpReplay
    <3>a. /\ warp.next \in Nat \ {0} /\ warp.upto \in Nat /\ Len(log[warp.from]) \in Nat
      BY DEF TypeOK, WarpState
    <3>b. /\ warp.next <= warp.upto /\ warp.upto <= Len(log[warp.from])
          /\ warp.from \in Workspaces
      BY <2>2 DEF WarpReplay, WarpFits
    <3>1. warp.next \in 1..Len(log[warp.from]) /\ warp.from \in Workspaces
      BY <3>a, <3>b
    <3> QED
      BY <2>2, <3>1 DEF WarpReplay, HubReplays, TablesStep
  <2> QED
    BY <1>8, <2>1, <2>2 DEF Warping, TablesStep
<1> QED
  BY <1>1, <1>2, <1>3, <1>4, <1>5, <1>6, <1>7, <1>8 DEF Next, Requesting

\* The first n positions stay the same.
LEMMA SameStays ==
  ASSUME TypeOK, LogStep, NEW s \in Sites, NEW t \in Sites, NEW n \in Int, SameUpTo(s, t, n)
  PROVE  SameUpTo(s, t, n)'
<1>1. Len(log[s]) \in Nat /\ Len(log[t]) \in Nat
  BY DEF TypeOK
<1>2. /\ Len(log[s]) <= Len(log'[s]) /\ Len(log[t]) <= Len(log'[t])
      /\ Len(log'[s]) \in Nat /\ Len(log'[t]) \in Nat
  BY LogGrows
<1>3. ASSUME NEW p \in 1..n
      PROVE  log'[s][p] = log'[t][p]
  <2>1. p \in 1..Len(log[s]) /\ p \in 1..Len(log[t]) /\ log[s][p] = log[t][p]
    BY <1>1 DEF SameUpTo
  <2> QED
    BY <2>1, LogGrows
<1> QED
  BY <1>1, <1>2, <1>3 DEF SameUpTo

\* Before the first claim only the creator writes, and only the hub copies.
LEMMA QuietStays ==
  ASSUME IInv, Quiet, LogStep, world' = world, UNCHANGED tables \/ HubReplays \/ Writes
  PROVE  Quiet'
<1> USE Bounds DEF IInv
<1>a. \A s \in Sites : Len(log[s]) \in Nat
  BY DEF TypeOK
<1>1. CASE UNCHANGED tables
  BY <1>1 DEF tables, Quiet, HasMoved
<1>2. ASSUME NEW s \in Sites, NEW e \in Event, Appends(s, e), Len(log[s]) + 1 >= 2 => e.to = None,
             s \in Workspaces => s = world.at
      PROVE  /\ \A u \in Sites : ~HasMoved(u)'
             /\ \A w \in Workspaces : w # world.at => log'[w] = <<>>
  <2>1. /\ Len(log'[s]) = Len(log[s]) + 1
        /\ log'[s][Len(log[s]) + 1] = e
        /\ \A i \in 1..Len(log[s]) : log'[s][i] = log[s][i]
        /\ \A u \in Sites : u # s => log'[u] = log[u]
    BY <1>2, AppendStep
  <2>2. ASSUME NEW i \in 2..Len(log'[s])
        PROVE  log'[s][i].to = None
    <3>1. CASE i <= Len(log[s])
      <4>1. i \in 2..Len(log[s]) /\ i \in 1..Len(log[s])
        BY <1>a, <3>1
      <4>2. log'[s][i] = log[s][i]
        BY <2>1, <4>1
      <4>3. ~HasMoved(s)
        BY DEF Quiet
      <4> QED
        BY <4>1, <4>2, <4>3 DEF HasMoved
    <3>2. CASE i > Len(log[s])
      <4>1. i = Len(log[s]) + 1 /\ i >= 2
        BY <1>a, <2>1, <3>2
      <4> QED
        BY <1>2, <2>1, <4>1
    <3> QED
      BY <1>a, <3>1, <3>2
  <2>3. ASSUME NEW u \in Sites
        PROVE  ~HasMoved(u)'
    <3>1. CASE u = s
      BY <2>2, <3>1 DEF HasMoved
    <3>2. CASE u # s
      <4>1. log'[u] = log[u]
        BY <2>1, <3>2
      <4> QED
        BY <4>1 DEF Quiet, HasMoved
    <3> QED
      BY <3>1, <3>2
  <2> QED
    BY <1>2, <2>1, <2>3 DEF Quiet
<1>3. CASE Writes
  <2>1. PICK s \in Sites : Writer(s) /\ Publish(s, None)
    BY <1>3 DEF Writes
  <2>2. s = world.at
    BY <2>1 DEF Writer, Quiet
  <2>n. Len(log[s]) + 1 \in Nat \ {0}
    BY <1>a
  <2>3. [by |-> s, seq |-> Len(log[s]) + 1, to |-> None] \in Event
    BY <2>n DEF Event
  <2>4. PICK e \in Event : e = [by |-> s, seq |-> Len(log[s]) + 1, to |-> None]
    BY <2>3
  <2>5. Appends(s, e) /\ e.to = None /\ home' = home /\ owner' = owner
    BY <2>1, <2>4 DEF Publish, Appends
  <2> QED
    BY <1>2, <2>2, <2>5 DEF Quiet
<1>4. CASE HubReplays
  <2>1. PICK t \in Workspaces : \E p \in 1..Len(log[t]) : Replay(Hub, p, log[t][p], t)
    BY <1>4 DEF HubReplays
  <2>2. PICK p \in 1..Len(log[t]) : Replay(Hub, p, log[t][p], t)
    BY <2>1
  <2>3. t = world.at
    BY <2>2 DEF Quiet
  <2>4. PICK e \in Event : e = log[t][p]
    BY <2>2 DEF TypeOK
  <2>5. p # 1 => e.to = None
    <3>1. p # 1 => p \in 2..Len(log[t])
      BY <1>a
    <3> QED
      BY <2>4, <3>1 DEF Quiet, HasMoved
  <2>6. p = 1 => e.to = world.at
    BY <2>3, <2>4 DEF Created
  <2>7. owner' \in {None, world.at} /\ home' \in {None, world.at}
    BY <2>2, <2>3, <2>4, <2>5, <2>6 DEF Replay, Quiet
  <2>8. CASE Accepted(Hub, p, t)
    <3>1. Appends(Hub, e)
      BY <2>2, <2>4, <2>8 DEF Replay, Appends
    <3>2. p = Len(log[Hub]) + 1
      BY <1>a, <2>2, <2>8 DEF Accepted, Gap
    <3> QED
      BY <1>2, <2>5, <2>7, <3>1, <3>2 DEF Quiet
  <2>9. CASE ~Accepted(Hub, p, t)
    <3>1. log' = log
      BY <2>2, <2>9 DEF Replay
    <3> QED
      BY <2>7, <3>1 DEF Quiet, HasMoved
  <2> QED
    BY <2>8, <2>9
<1> QED
  BY <1>1, <1>3, <1>4

LEMMA RequestFitsNext ==
  ASSUME IInv, RequestFits, LogStep, world' = world, Frame
  PROVE  RequestFits'
<1> USE Bounds DEF IInv
<1>a. /\ request \in RequestState /\ request.to \in Sites
      /\ request.wrote \in Nat /\ request.fence \in Nat
  BY DEF TypeOK, RequestState
<1>b. \A s \in Sites : Len(log[s]) \in Nat /\ Len(log'[s]) \in Nat /\ Len(log[s]) <= Len(log'[s])
  BY LogGrows DEF TypeOK
<1>1. CASE request' = request
  <2>1. PICK v \in Sites : v = request.to
    BY <1>a
  <2>2. Len(log[v]) <= Len(log'[v]) /\ Len(log[Hub]) <= Len(log'[Hub])
    BY <1>b
  <2>3. request.pc \in {"handled", "fence", "ok"} => request.wrote <= Len(log'[v])
    BY <1>a, <1>b, <2>1, <2>2 DEF RequestFits
  <2>4. request.pc = "ok" => request.fence <= Len(log'[Hub])
    BY <1>a, <1>b, <2>2 DEF RequestFits
  <2> QED
    BY <1>1, <2>1, <2>3, <2>4 DEF RequestFits
<1>2. CASE request' = NoRequest
  BY <1>2 DEF NoRequest, RequestFits
<1>3. ASSUME NEW w \in Workspaces, Send(w)
      PROVE  RequestFits'
  BY <1>3 DEF Send, NoRequest, RequestFits
<1>4. ASSUME NEW w \in Workspaces, Handle(w)
      PROVE  RequestFits'
  <2>1. /\ request.to = w /\ request'.pc = "handled" /\ request'.to = w
        /\ request'.wrote = Len(log[w]) + 1
    BY <1>4, <1>a DEF Handle, RequestState
  <2>n. Len(log[w]) + 1 \in Nat \ {0}
    BY <1>b
  <2>2. [by |-> w, seq |-> Len(log[w]) + 1, to |-> None] \in Event
    BY <2>n DEF Event
  <2>3. PICK e \in Event : e = [by |-> w, seq |-> Len(log[w]) + 1, to |-> None]
    BY <2>2
  <2>4. Appends(w, e)
    BY <1>4, <2>3 DEF Handle, Publish, Appends
  <2>5. Len(log'[w]) = Len(log[w]) + 1
    BY <2>4, AppendStep
  <2> QED
    BY <1>b, <2>1, <2>5 DEF RequestFits
<1>5. ASSUME NEW w \in Workspaces, Respond(w)
      PROVE  RequestFits'
  <2>1. /\ request.pc = "handled" /\ request.to = w /\ request'.pc = "fence" /\ request'.to = w
        /\ request'.wrote = request.wrote /\ request'.fence = Len(log[w])
        /\ log' = log
    BY <1>5, <1>a DEF Respond, FenceOf, RequestState, tables
  <2> QED
    BY <1>a, <1>b, <2>1 DEF RequestFits
<1>6. CASE Synced
  <2>1. /\ request.pc = "fence" /\ Len(log[Hub]) >= request.fence
        /\ request'.pc = "ok" /\ request'.to = request.to
        /\ request'.wrote = request.wrote /\ request'.fence = request.fence
        /\ log' = log
    BY <1>6, <1>a DEF Synced, RequestState, tables
  <2> QED
    BY <1>a, <1>b, <2>1 DEF RequestFits
<1>7. CASE EndRequest \/ RestartHub \/ \E w \in Workspaces : RestartWorkspace(w)
  BY <1>1, <1>2, <1>7 DEF EndRequest, RestartHub, RestartWorkspace
<1> QED
  BY <1>1, <1>3, <1>4, <1>5, <1>6, <1>7 DEF Frame

LEMMA BeforeNext ==
  ASSUME IInv, TInv, [Next]_vars, LogStep, world' = world, Frame
  PROVE  BeforeMoves'
<1> USE Bounds DEF IInv, TInv
<1>a. warp \in WarpState
  BY DEF TypeOK
<1>1. CASE warps' = warps /\ warp' = warp
  <2>1. First' = First
    BY <1>1 DEF First
  <2>2. First => UNCHANGED tables \/ HubReplays \/ Writes
    BY <1>1, TablesSteps DEF TablesStep, First, BeforeMoves, SendRow, Steal, SetWorkspace, Claim
  <2>3. First => Quiet'
    BY <2>2, QuietStays DEF BeforeMoves
  <2> QED
    BY <1>1, <2>1, <2>3 DEF BeforeMoves
<1>2. ASSUME NEW s \in Sites, SessionWarp(s)
      PROVE  BeforeMoves'
  <2>1. /\ warps' = warps + 1 /\ home # None /\ warp'.from = home
        /\ warp'.pc \in {"read", "ask"} /\ UNCHANGED tables
    BY <1>2 DEF SessionWarp, NoWarp
  <2>2. First' => warps = 0
    BY <2>1 DEF First
  <2>3. First' => Quiet' /\ home = world.at
    BY <2>1, <2>2, QuietStays DEF BeforeMoves, First, Quiet
  <2> QED
    BY <2>1, <2>3 DEF BeforeMoves
<1>3. CASE warps' = warps /\ (Warping \/ WarpFails \/ RestartHub)
  <2>1. warps' = 0 => warp'.pc = "idle"
    BY <1>3 DEF BeforeMoves, Warping, WarpFails, RestartHub, NoWarp, WarpAsk, WarpAnswer, WarpUnanswered,
         WarpReplay, WarpReplayDies, Claim, ReadLog, SendRow, SendRefused, Steal, SetWorkspace
  <2>2. ASSUME First', warps' = 0
        PROVE  First /\ (UNCHANGED tables \/ HubReplays \/ Writes) /\ warp'.pc = "idle"
    BY <1>3, <2>1, <2>2, TablesSteps DEF TablesStep, First, BeforeMoves, SendRow, Steal, SetWorkspace, Claim
  <2>3. ASSUME First', warps' # 0
        PROVE  First /\ (UNCHANGED tables \/ HubReplays \/ Writes) /\ warp'.from = warp.from /\ warp.pc # "idle"
    <3>1. warps = 1 /\ warp'.pc \in {"ask", "answer", "replaying"}
      BY <1>3, <2>3 DEF First
    <3>2. WarpAsk \/ WarpAnswer \/ WarpReplay
      <4>1. ~(WarpReplayDies \/ SendRefused \/ SetWorkspace \/ WarpFails \/ RestartHub)
        BY <3>1 DEF WarpReplayDies, SendRefused, SetWorkspace, WarpFails, RestartHub, NoWarp
      <4>2. ~(WarpUnanswered \/ Claim \/ ReadLog \/ Steal)
        BY <1>a, <3>1 DEF WarpUnanswered, Claim, ReadLog, Steal, WarpState
      <4>3. ~SendRow
        BY <1>a, <3>1 DEF SendRow, Proceed, WarpState
      <4> QED
        BY <1>3, <4>1, <4>2, <4>3 DEF Warping
    <3>3. warp.pc \in {"ask", "answer", "replaying"} /\ warp'.from = warp.from
      BY <1>a, <3>2 DEF WarpAsk, WarpAnswer, Answer, WarpReplay, Proceed, WarpState
    <3>4. UNCHANGED tables \/ HubReplays \/ Writes
      BY <3>3, TablesSteps DEF TablesStep, SendRow, Steal, SetWorkspace, Claim
    <3> QED
      BY <3>1, <3>3, <3>4 DEF First
  <2>4. First' => Quiet'
    BY <2>2, <2>3, QuietStays DEF BeforeMoves
  <2> QED
    BY <2>1, <2>2, <2>3, <2>4 DEF BeforeMoves
<1>4. ASSUME Warping \/ WarpFails \/ RestartHub
      PROVE  warps' = warps
  BY <1>4 DEF Warping, WarpFails, RestartHub, Breaks, limits, WarpAsk, WarpAnswer, WarpUnanswered,
       WarpReplay, WarpReplayDies, Claim, ReadLog, SendRow, SendRefused, Steal, SetWorkspace
<1> QED
  BY <1>1, <1>2, <1>3, <1>4 DEF Frame

\* A row that is sent and not refused is then at its position in the target.
LEMMA SendStores ==
  ASSUME IInv, LogStep, SendRow, NEW t \in Workspaces, t = warp.to,
         NEW n \in Nat, n = warp.next, SameUpTo(t, Hub, n - 1)
  PROVE  SameUpTo(t, Hub, n)'
<1> USE Bounds DEF IInv
<1>a. \A s \in Sites : Len(log[s]) \in Nat /\ Len(log'[s]) \in Nat /\ Len(log[s]) <= Len(log'[s])
  BY LogGrows DEF TypeOK
<1>1. /\ n \in 1..Len(log[Hub])
      /\ ~Dies(t, n, log[Hub][n], t) /\ Replay(t, n, log[Hub][n], t)
  <2>1. n \in Nat \ {0} /\ warp.upto \in Nat /\ warp.pc = "send"
    BY DEF TypeOK, WarpState, SendRow
  <2>2. n \in 1..Len(log[Hub])
    BY <1>a, <2>1 DEF WarpFits
  <2> QED
    BY <2>2 DEF SendRow
<1>2. SameUpTo(t, Hub, n - 1)'
  BY SameStays
<1>3. n <= Len(log'[t]) /\ log'[t][n] = log[Hub][n]
  <2>1. CASE n <= Len(log[t])
    <3>1. n \in 1..Len(log[t]) /\ log[t][n] = log[Hub][n]
      BY <1>1, <1>a, <2>1 DEF Dies
    <3>2. log'[t][n] = log[t][n]
      BY <3>1, LogGrows
    <3> QED
      BY <1>a, <2>1, <3>1, <3>2
  <2>2. CASE n > Len(log[t])
    <3>1. Accepted(t, n, t) /\ n = Len(log[t]) + 1
      <4>1. ~Fenced(t, t)
        BY DEF Fenced
      <4>2. ~Gap(t, n)
        BY <1>1, <4>1 DEF Dies
      <4>3. n \in Int /\ Len(log[t]) \in Nat
        BY <1>1, <1>a
      <4>4. n = Len(log[t]) + 1
        BY <2>2, <4>2, <4>3 DEF Gap
      <4> QED
        BY <2>2, <4>1, <4>2, <4>4 DEF Accepted
    <3>r. log[Hub] \in Seq(Event)
      BY DEF TypeOK
    <3>2. PICK e \in Event : e = log[Hub][n]
      BY <1>1, <3>r
    <3>3. Appends(t, e)
      BY <1>1, <3>1, <3>2 DEF Replay, Appends
    <3> QED
      <4>1. Len(log'[t]) = Len(log[t]) + 1 /\ log'[t][Len(log[t]) + 1] = e
        BY <3>3, AppendStep
      <4> QED
        BY <1>a, <3>1, <3>2, <4>1
  <2> QED
    BY <1>a, <2>1, <2>2
<1>4. n <= Len(log'[Hub]) /\ log'[Hub][n] = log[Hub][n]
  BY <1>1, <1>a, LogGrows
<1> QED
  BY <1>2, <1>3, <1>4 DEF SameUpTo

LEMMA CopiesNext ==
  ASSUME IInv, TInv, LogStep, world' = world, Frame
  PROVE  WarpCopies'
<1> USE Bounds DEF IInv, TInv
<1>a. /\ warp \in WarpState /\ warp.from \in Sites /\ warp.to \in Sites
      /\ warp.next \in Nat \ {0} /\ warp.upto \in Nat /\ warp.rows \in Nat
  BY DEF TypeOK, WarpState
<1>b. \A s \in Sites : Len(log[s]) \in Nat /\ Len(log'[s]) \in Nat /\ Len(log[s]) <= Len(log'[s])
  BY LogGrows DEF TypeOK
<1>d. PICK t \in Sites, r \in Nat, n \in Nat : warp.to = t /\ warp.rows = r /\ warp.next = n
  BY <1>a
<1>1. CASE warp' = warp
  <2>1. warp.pc = "send" => SameUpTo(t, Hub, n - 1)'
    BY <1>d, SameStays DEF WarpCopies
  <2>2. warp.pc \in {"steal", "move"} => SameUpTo(t, Hub, r)'
    BY <1>d, SameStays DEF WarpCopies
  <2> QED
    BY <1>1, <1>d, <2>1, <2>2 DEF WarpCopies, SameUpTo
<1>2. CASE warp' = NoWarp
  BY <1>2 DEF NoWarp, WarpCopies
<1>3. ASSUME NEW s \in Sites, SessionWarp(s)
      PROVE  WarpCopies'
  BY <1>3 DEF SessionWarp, NoWarp, WarpCopies
<1>4. CASE WarpAsk \/ WarpAnswer \/ WarpUnanswered \/ WarpReplay
  <2>1. /\ warp.pc \in {"ask", "answer", "replaying"}
        /\ warp'.pc \in {"answer", "replaying", "claim"} /\ warp'.rows = warp.rows
    BY <1>4, <1>a DEF WarpAsk, WarpAnswer, Answer, WarpUnanswered, WarpReplay, Proceed, WarpState
  <2> QED
    BY <2>1 DEF WarpCopies
<1>5. CASE Claim
  <2>1. /\ warp.rows = 0 /\ warp'.rows = 0
        /\ warp'.pc = "read" \/ (warp'.pc = "move" /\ warp'.to = Hub)
    BY <1>5, <1>a DEF Claim, WarpCopies, WarpState
  <2> QED
    BY <1>b, <2>1 DEF WarpCopies, SameUpTo
<1>6. CASE ReadLog
  <2>1. /\ warp'.pc = "send" /\ warp'.next = 1 /\ warp'.to = t
        /\ warp'.upto = Len(log[Hub]) /\ warp'.rows = Len(log[Hub])
    BY <1>6, <1>a, <1>d DEF ReadLog, WarpFits, WarpState
  <2> QED
    BY <1>b, <2>1 DEF WarpCopies, SameUpTo
<1>7. CASE SendRow
  <2>1. /\ warp.pc = "send" /\ warp'.to = t /\ warp'.rows = r /\ t \in Workspaces
        /\ warp.upto = r /\ n <= r
        /\ \/ warp'.pc = "steal" /\ n >= r
           \/ warp'.pc = "send" /\ warp'.next = n + 1 /\ warp'.upto = r
    BY <1>7, <1>a, <1>d DEF SendRow, Proceed, WarpFits, WarpCopies, WarpState
  <2>2. SameUpTo(t, Hub, n)'
    BY <1>7, <1>d, <2>1, SendStores DEF WarpCopies
  <2>3. CASE warp'.pc = "steal" /\ n >= r
    <3>1. n = r
      BY <2>1, <2>3
    <3> QED
      BY <2>1, <2>2, <2>3, <3>1 DEF WarpCopies, SameUpTo
  <2>4. CASE warp'.pc = "send" /\ warp'.next = n + 1 /\ warp'.upto = r
    <3>1. warp'.next - 1 = n
      BY <2>4
    <3> QED
      BY <2>1, <2>2, <2>4, <3>1 DEF WarpCopies, SameUpTo
  <2> QED
    BY <2>1, <2>3, <2>4
<1>8. CASE Steal
  <2>1. warp.pc = "steal" /\ warp'.pc = "move" /\ warp'.to = t /\ warp'.rows = r
    BY <1>8, <1>a, <1>d DEF Steal, WarpState
  <2>2. SameUpTo(t, Hub, r)'
    BY <1>d, <2>1, SameStays DEF WarpCopies
  <2> QED
    BY <2>1, <2>2 DEF WarpCopies, SameUpTo
<1>9. CASE WarpReplayDies \/ SendRefused \/ SetWorkspace \/ WarpFails \/ RestartHub
  BY <1>2, <1>9 DEF WarpReplayDies, SendRefused, SetWorkspace, WarpFails, RestartHub
<1> QED
  BY <1>1, <1>3, <1>4, <1>5, <1>6, <1>7, <1>8, <1>9 DEF Frame, Warping

\* Where nothing has moved, logs agree on the positions both have.
LEMMA QuietAgreement ==
  ASSUME IInv, Quiet, NEW s \in Sites, NEW t \in Sites, NEW n \in Nat,
         n <= Len(log[s]), n <= Len(log[t])
  PROVE  SameUpTo(s, t, n)
<1>1. \A u \in Sites : Len(log[u]) \in Nat
  BY DEF IInv, TypeOK
<1>2. ASSUME NEW p \in 1..n
      PROVE  log[s][p] = log[t][p]
  <2>1. QuietUpTo(p)
    <3> SUFFICES ASSUME NEW u \in Sites, NEW i \in 2..p, i <= Len(log[u])
                 PROVE  log[u][i].to = None
      BY DEF QuietUpTo
    <3>1. i \in 2..Len(log[u])
      BY <1>1
    <3> QED
      BY <3>1 DEF Quiet, HasMoved
  <2>2. p \in 1..Len(log[s]) /\ p <= Len(log[t])
    BY <1>1
  <2> QED
    BY <2>1, <2>2, Agreement
<1> QED
  BY <1>2 DEF SameUpTo

LEMMA TakesNext ==
  ASSUME IInv, IInv', TInv, [Next]_vars, LogStep, world' = world, Frame
  PROVE  WarpTakes'
<1> USE Bounds DEF TInv
<1>a. /\ warp \in WarpState /\ warp.from \in Sites /\ warp.to \in Sites
      /\ warp.next \in Nat \ {0} /\ warp.upto \in Nat /\ warp.rows \in Nat /\ warp.had \in Nat
  BY DEF IInv, TypeOK, WarpState
<1>b. \A s \in Sites : Len(log[s]) \in Nat /\ Len(log'[s]) \in Nat /\ Len(log[s]) <= Len(log'[s])
  BY LogGrows DEF IInv, TypeOK
<1>t. TypeOK /\ Hub \in Sites
  BY DEF IInv, Sites
<1>d. PICK f \in Sites, h \in Nat : warp.from = f /\ warp.had = h
  BY <1>a
<1>e. warps = 1 /\ warp.pc \in {"claim", "read", "send", "steal", "move"} => SameUpTo(Hub, f, h)'
  BY <1>d, <1>t, SameStays DEF WarpTakes
<1>1. CASE warp' = warp /\ warps' = warps
  <2>1. warps = 1 /\ warp.pc \in {"answer", "replaying"} => warp.next <= Len(log'[Hub]) + 1
    BY <1>a, <1>b, <1>t DEF WarpTakes
  <2> QED
    BY <1>1, <1>d, <1>e, <2>1 DEF WarpTakes, SameUpTo
<1>2. CASE warp' = NoWarp
  BY <1>2 DEF NoWarp, WarpTakes
<1>3. ASSUME NEW s \in Sites, SessionWarp(s)
      PROVE  WarpTakes'
  <2>1. warp'.pc \in {"ask", "read"} /\ warp'.had = 0 /\ warp'.from \in Sites /\ (warp'.pc = "read" => warp'.from = Hub)
    BY <1>3, <1>t DEF SessionWarp, NoWarp, TypeOK
  <2> QED
    BY <1>b, <2>1 DEF WarpTakes, SameUpTo
<1>4. CASE WarpAsk
  <2>1. /\ warp'.pc = "answer" /\ warp'.had = 0
        /\ warp'.next = Known(warp.from) + 1 /\ log' = log
    BY <1>4, <1>a DEF WarpAsk, WarpTakes, WarpState, tables
  <2> QED
    BY <1>b, <2>1 DEF WarpTakes, Known
<1>5. CASE WarpAnswer
  <2>1. /\ warp.pc = "answer" /\ warp'.from = f /\ warp'.had = Len(log[f]) /\ UNCHANGED tables /\ warps' = warps
        /\ \/ /\ warp.next > Len(log[f]) /\ warp'.pc = "claim"
           \/ /\ warp.next <= Len(log[f]) /\ warp'.pc = "replaying"
              /\ warp'.next = warp.next /\ warp'.upto = Len(log[f])
    BY <1>5, <1>a, <1>b, <1>d DEF WarpAnswer, Answer, WarpState, limits
  <2>2. warps = 1 => Quiet /\ warp.next <= Len(log[Hub]) + 1
    BY <2>1 DEF WarpTakes, BeforeMoves, First
  <2>3. ASSUME warps = 1, warp.next > Len(log[f])
        PROVE  SameUpTo(Hub, f, Len(log[f]))
    <3>1. Len(log[f]) <= Len(log[Hub])
      BY <1>a, <1>b, <2>2, <2>3
    <3> QED
      BY <1>b, <1>t, <2>2, <2>3, <3>1, QuietAgreement
  <2> QED
    BY <2>1, <2>2, <2>3, <1>b DEF WarpTakes, SameUpTo, tables
<1>6. CASE WarpUnanswered
  <2>1. warp'.pc = "claim" /\ warp'.had = 0 /\ warp'.from = f
    BY <1>6, <1>a, <1>d DEF WarpUnanswered, WarpTakes, WarpState
  <2> QED
    BY <1>b, <2>1 DEF WarpTakes, SameUpTo
<1>7. CASE WarpReplay
  <2>1. /\ warp.pc = "replaying" /\ warp'.from = f /\ warp'.had = h /\ warps' = warps
        /\ \/ /\ warp.next >= warp.upto /\ warp'.pc = "claim"
           \/ /\ warp'.pc = "replaying"
              /\ warp'.next = warp.next + 1 /\ warp'.upto = warp.upto
    BY <1>7, <1>a, <1>d DEF WarpReplay, Proceed, WarpState, limits
  <2>2. ASSUME warps = 1
        PROVE  warp.next <= Len(log'[Hub]) /\ Quiet' /\ h = warp.upto /\ warp.next <= h /\ h <= Len(log'[f])
    <3>1. Quiet /\ f = world.at /\ h = warp.upto
      BY <1>d, <2>1, <2>2 DEF WarpTakes, BeforeMoves, First
    <3>2. warp.next <= h /\ h <= Len(log[f]) /\ f \in Workspaces
      BY <1>a, <1>d, <2>1, <3>1 DEF IInv, WarpFits
    <3>3. PICK p \in 1..Len(log[f]) : p = warp.next
      BY <1>a, <1>b, <3>2
    <3>4. Replay(Hub, p, log[f][p], f) /\ ~Dies(Hub, p, log[f][p], f)
      BY <1>7, <1>d, <3>3 DEF WarpReplay
    <3>5. ~Fenced(Hub, f)
      BY <3>1 DEF Quiet, Fenced
    <3>6. ~Gap(Hub, p)
      BY <3>4, <3>5 DEF Dies
    <3>7. p <= Len(log'[Hub])
      <4>1. CASE p <= Len(log[Hub])
        BY <1>b, <1>t, <3>3, <4>1
      <4>2. CASE p > Len(log[Hub])
        <5>1. Accepted(Hub, p, f)
          BY <3>5, <3>6, <4>2 DEF Accepted
        <5>2. PICK e \in Event : e = log[f][p]
          BY <1>t DEF TypeOK
        <5>3. Appends(Hub, e)
          BY <3>4, <5>1, <5>2 DEF Replay, Appends
        <5>4. Len(log'[Hub]) = Len(log[Hub]) + 1
          BY <1>t, <5>3, AppendStep
        <5> QED
          BY <1>b, <3>6, <5>4 DEF Gap
      <4> QED
        BY <1>b, <4>1, <4>2
    <3>8. HubReplays
      BY <3>2, <3>4 DEF HubReplays
    <3>9. Quiet'
      BY <3>1, <3>8, QuietStays
    <3> QED
      BY <1>b, <3>1, <3>2, <3>3, <3>7, <3>9
  <2>3. ASSUME warps = 1, warp.next >= warp.upto
        PROVE  SameUpTo(Hub, f, h)'
    <3>1. h <= Len(log'[Hub]) /\ h <= Len(log'[f]) /\ Quiet'
      BY <1>a, <1>b, <2>2, <2>3
    <3>2. ASSUME NEW p \in 1..h
          PROVE  log'[Hub][p] = log'[f][p]
      <4>1. QuietUpTo(p)'
        <5> SUFFICES ASSUME NEW u \in Sites, NEW i \in 2..p, i <= Len(log'[u])
                     PROVE  log'[u][i].to = None
          BY DEF QuietUpTo
        <5>1. i \in 2..Len(log'[u])
          BY <1>b
        <5> QED
          BY <3>1, <5>1 DEF Quiet, HasMoved
      <4>2. p \in 1..Len(log'[Hub]) /\ p \in 1..Len(log'[f])
        BY <1>b, <1>t, <3>1
      <4> QED
        BY <1>t, <4>1, <4>2 DEF IInv, Story
    <3> QED
      BY <3>1, <3>2 DEF SameUpTo
  <2> QED
    BY <1>a, <1>b, <2>1, <2>2, <2>3 DEF WarpTakes, SameUpTo
<1>8. CASE Claim \/ ReadLog \/ SendRow \/ Steal
  <2>1. /\ warp.pc \in {"claim", "read", "send", "steal"}
        /\ warp'.from = f /\ warp'.had = h /\ warps' = warps
        /\ \/ warp'.pc = "read"
           \/ warp.pc = "read" /\ warp'.pc = "send" /\ warp'.rows = Len(log[Hub])
           \/ warp'.pc = "move" /\ warp'.to = Hub
           \/ warp.pc \in {"send", "steal"} /\ warp'.pc \in {"send", "steal", "move"} /\ warp'.rows = warp.rows
    <3>1. CASE Claim
      BY <3>1, <1>a, <1>d DEF Claim, WarpState, limits
    <3>2. CASE ReadLog
      BY <3>2, <1>a, <1>d DEF ReadLog, WarpState, limits
    <3>3. CASE SendRow
      BY <3>3, <1>a, <1>d DEF SendRow, Proceed, WarpState, limits
    <3>4. CASE Steal
      BY <3>4, <1>a, <1>d DEF Steal, WarpState, limits
    <3> QED
      BY <1>8, <3>1, <3>2, <3>3, <3>4
  <2>2. warps = 1 => SameUpTo(Hub, f, h)' /\ h <= Len(log[Hub])
    BY <1>d, <1>e, <2>1 DEF WarpTakes, SameUpTo
  <2>3. warps = 1 /\ warp.pc \in {"send", "steal"} => h <= warp.rows
    BY <1>d DEF WarpTakes
  <2>4. warps' = 1 => SameUpTo(Hub, warp.from, warp.had)'
    BY <2>1, <2>2 DEF SameUpTo
  <2> QED
    BY <2>1, <2>2, <2>3, <2>4 DEF WarpTakes
<1>9. CASE WarpReplayDies \/ SendRefused \/ SetWorkspace \/ WarpFails \/ RestartHub
  BY <1>2, <1>9 DEF WarpReplayDies, SendRefused, SetWorkspace, WarpFails, RestartHub
<1> QED
  BY <1>1, <1>3, <1>4, <1>5, <1>6, <1>7, <1>8, <1>9 DEF Frame, Warping

LEMMA TakingInit == Init => TInv
<1> SUFFICES ASSUME Init
             PROVE  TInv
  OBVIOUS
<1> USE Bounds, TypeInit
<1>1. /\ log[world.at] = <<[by |-> world.at, seq |-> 1, to |-> world.at]>>
      /\ \A s \in Sites : s # world.at => log[s] = <<>>
  BY DEF Init
<1>2. \A s \in Sites : s # world.at => Len(log[s]) = 0
  BY <1>1
<1>3. Len(log[world.at]) = 1
  BY <1>1
<1>4. Quiet
  BY <1>1, <1>2, <1>3 DEF Init, Quiet, HasMoved
<1> QED
  BY <1>4 DEF Init, NoRequest, NoWarp, TInv, RequestFits, BeforeMoves, WarpCopies, WarpTakes

LEMMA TakingNext == IInv /\ TInv /\ [Next]_vars => TInv'
<1> SUFFICES ASSUME IInv, TInv, [Next]_vars
             PROVE  TInv'
  OBVIOUS
<1>1. LogStep /\ world' = world /\ Frame /\ IInv'
  BY LogSteps, Frames, InvNext
<1>2. RequestFits' /\ BeforeMoves'
  BY <1>1, RequestFitsNext, BeforeNext DEF TInv
<1>3. WarpCopies' /\ WarpTakes'
  BY <1>1, CopiesNext, TakesNext
<1> QED
  BY <1>2, <1>3 DEF TInv

\* The part about moves and requests holds in every behaviour.
THEOREM Taking == Spec => []TInv
<1>1. IInv /\ TInv /\ UNCHANGED vars => TInv'
  BY TakingNext
<1> QED
  BY TakingInit, TakingNext, Inductive, PTL DEF Spec

\* When a proxied request is answered, the hub has what it wrote, at the same
\* positions, as long as the session never moved (waitForSync, "state fully
\* synced").
THEOREM ReadsWrites == Spec => []ReadYourWrites
<1>1. IInv /\ TInv => ReadYourWrites
  <2> SUFFICES ASSUME IInv, TInv, request.pc = "ok", warps = 0
               PROVE  SameUpTo(request.to, Hub, request.wrote)
    BY DEF ReadYourWrites
  <2>1. /\ request.to \in Sites /\ request.wrote \in Nat /\ request.fence \in Nat
        /\ Hub \in Sites /\ Len(log[Hub]) \in Nat
    BY Bounds DEF IInv, TypeOK, RequestState
  <2>2. request.wrote <= Len(log[request.to]) /\ request.wrote <= Len(log[Hub])
    BY <2>1 DEF TInv, RequestFits
  <2>3. Quiet
    BY DEF TInv, BeforeMoves, First
  <2> QED
    BY <2>1, <2>2, <2>3, QuietAgreement
<1> QED
  BY <1>1, Inductive, Taking, PTL

\* Before the hub records a move, the target has the rows the hub read for it;
\* at a session's first move these include all that the source had at the
\* final sync (sessionWarp).
THEOREM WarpKeeps == Spec => []WarpKeepsHistory
<1>1. IInv /\ TInv => WarpKeepsHistory
  <2> SUFFICES ASSUME IInv, TInv, warp.pc = "move"
               PROVE  /\ SameUpTo(warp.to, Hub, warp.rows)
                      /\ warps = 1 => SameUpTo(warp.to, warp.from, warp.had)
    BY DEF WarpKeepsHistory
  <2>1. /\ warp.rows \in Nat /\ warp.had \in Nat
        /\ \A s \in Sites : Len(log[s]) \in Nat
        /\ Hub \in Sites /\ warp.to \in Sites /\ warp.from \in Sites
    BY Bounds DEF IInv, TypeOK, WarpState
  <2>2. SameUpTo(warp.to, Hub, warp.rows)
    BY DEF TInv, WarpCopies
  <2>3. ASSUME warps = 1
        PROVE  SameUpTo(warp.to, warp.from, warp.had)
    <3>1. SameUpTo(Hub, warp.from, warp.had) /\ (warp.to # Hub => warp.had <= warp.rows)
      BY <2>3 DEF TInv, WarpTakes
    <3> QED
      BY <2>1, <2>2, <3>1 DEF SameUpTo
  <2> QED
    BY <2>2, <2>3
<1> QED
  BY <1>1, Inductive, Taking, PTL

=============================================================================
