--------------------------- MODULE WorkspaceSync ---------------------------
(***************************************************************************)
(* One session and the sites that hold its event log: the hub (the control *)
(* plane a user's clients talk to) and remote workspaces, each a server    *)
(* with a database of its own.  The hub follows a workspace over a live    *)
(* connection and a history request (control-plane/workspace.ts), proxies  *)
(* requests to the site where the session lives and waits until it has     *)
(* what they wrote (server/shared/fence.ts), and moves the session between *)
(* sites (sessionWarp), in many steps over two databases.                  *)
(*                                                                         *)
(* A transaction is one action, as in EventLog.  An event is identified by *)
(* its writer and the position its writer gave it.                         *)
(***************************************************************************)
EXTENDS Integers, FiniteSets, Sequences

CONSTANTS
  Workspaces,   (* remote workspaces                                       *)
  Hub,          (* the control plane; as a home: no workspace              *)
  None,         (* no owner, no home, and what an event that moves nothing sets *)
  MaxUnsent,    (* bound: publishers of a workspace between commit and notification *)
  Worlds        (* the behaviours looked at, see World                     *)

Sites == Workspaces \cup {Hub}

\* The session is created at a site, and the hub is told of some workspaces.
\* Three bounds: a log that is len long is written to by moves only, warps
\* counts the requests to move the session, breaks the lost connections, failed
\* requests and restarts.
World == [at : Sites, among : SUBSET Workspaces, len : Nat, warps : Nat, breaks : Nat]

ASSUME WorkspaceSyncAssumption ==
  /\ Hub \notin Workspaces
  /\ None \notin Sites
  /\ MaxUnsent \in Nat
  /\ Worlds \subseteq World

VARIABLES
  world,    (* the world of this behaviour                                 *)
  log,      (* per site, the session's rows of event                       *)
  owner,    (* at the hub, event_sequence.owner_id                         *)
  home,     (* at the hub, session.workspace_id                            *)
  working,  (* per site, whether a turn of the session runs there          *)
  unsent,   (* per workspace, committed events not yet notified            *)
  sync,     (* per workspace, the hub's fiber that follows it              *)
  wire,     (* per workspace, live events sent and not yet looked at       *)
  dropped,  (* per workspace, whether the connection had an event refused  *)
  request,  (* a proxied request                                           *)
  warp,     (* a request to move the session                               *)
  warps,    (* how many there were                                         *)
  breaks    (* how many failures there were                                *)

tables == <<log, owner, home>>
links  == <<sync, wire, dropped>>
limits == <<world, warps, breaks>>
vars   == <<world, log, owner, home, working, unsent, sync, wire, dropped,
            request, warp, warps, breaks>>

-----------------------------------------------------------------------------
\* to is the home an event sets: session.created, and session.updated of
\* setWorkspace.  Any other event leaves it alone.
Event == [by : Sites, seq : Nat \ {0}, to : Sites \cup {None}]

\* up tells whether the live connection stands; next..upto is what is left of
\* an answer of /sync/history.
IdleSync == [pc |-> "off", up |-> FALSE, next |-> 1, upto |-> 0]

NoRequest == [pc |-> "idle", to |-> Hub, wrote |-> 0, fence |-> 0]

\* next..upto is what is left of a history to replay at the hub, or of the
\* hub's rows to replay at the target.  had is how much of the source's log
\* the hub has taken in before it claimed the session, rows what it then sends.
NoWarp == [pc |-> "idle", from |-> Hub, to |-> Hub, next |-> 1, upto |-> 0, had |-> 0, rows |-> 0]

Init ==
  /\ world \in Worlds
  /\ log = [s \in Sites |-> IF s = world.at THEN <<[by |-> s, seq |-> 1, to |-> s]>> ELSE <<>>]
  /\ home = IF world.at = Hub THEN Hub ELSE None
  /\ owner = None
  /\ working = [s \in Sites |-> FALSE]
  /\ unsent = [w \in Workspaces |-> {}]
  /\ sync = [w \in Workspaces |-> IdleSync]
  /\ wire = [w \in Workspaces |-> <<>>]
  /\ dropped = [w \in Workspaces |-> FALSE]
  /\ request = NoRequest
  /\ warp = NoWarp
  /\ warps = 0
  /\ breaks = 0

-----------------------------------------------------------------------------
(* Writing: a site appends whatever the owner says.                         *)

\* Events of a workspace are notified after their commit.
Publish(s, to) ==
  /\ log' = [log EXCEPT ![s] = Append(@, [by |-> s, seq |-> Len(log[s]) + 1, to |-> to])]
  /\ home' = IF s = Hub /\ to # None THEN to ELSE home
  /\ unsent' = IF s = Hub THEN unsent ELSE [unsent EXCEPT ![s] = @ \cup {Len(log[s]) + 1}]
  /\ UNCHANGED owner

HasRoom(s) ==
  /\ Len(log[s]) < world.len
  /\ s # Hub => Cardinality(unsent[s]) < MaxUnsent

\* A prompt is answered where the session lives; here, at the hub.
Prompt ==
  /\ home = Hub
  /\ ~working[Hub]
  /\ working' = [working EXCEPT ![Hub] = TRUE]
  /\ UNCHANGED <<tables, unsent, links, request, warp, limits>>

\* A turn records what it does, also when the session has moved on.
Write(s) ==
  /\ working[s]
  /\ HasRoom(s)
  /\ Publish(s, None)
  /\ UNCHANGED <<working, links, request, warp, limits>>

Finish(s) ==
  /\ working[s]
  /\ working' = [working EXCEPT ![s] = FALSE]
  /\ UNCHANGED <<tables, unsent, links, request, warp, limits>>

\* The listeners of a workspace hear of an event: it goes out on the live
\* connection if there is one.  Two publishers may get here in either order.
Notify(w, p) ==
  /\ p \in unsent[w]
  /\ unsent' = [unsent EXCEPT ![w] = @ \ {p}]
  /\ wire' = IF sync[w].up THEN [wire EXCEPT ![w] = Append(@, p)] ELSE wire
  /\ UNCHANGED <<tables, working, sync, dropped, request, warp, limits>>

-----------------------------------------------------------------------------
(* Replaying: commitDurableEvent of the event e at position p, for owner o.  *)
(* Owners are told apart at the hub only: at a workspace every replay names *)
(* the workspace itself.                                                    *)

Fenced(s, o) == s = Hub /\ owner \notin {None, o}

Stored(s, p, e) == p <= Len(log[s]) /\ log[s][p] = e

\* Faulty variant of Gap: the position is not compared.
GapNever(s, p) == FALSE

Gap(s, p) == p > Len(log[s]) + 1

\* Faulty variant of Dies: what is stored at the position is not compared.
DiesOfGaps(s, p, e, o) == Gap(s, p) /\ ~Fenced(s, o)

Dies(s, p, e, o) ==
  \/ p <= Len(log[s]) /\ log[s][p] # e
  \/ Gap(s, p) /\ ~Fenced(s, o)

Accepted(s, p, o) == p > Len(log[s]) /\ ~Gap(s, p) /\ ~Fenced(s, o)

Replay(s, p, e, o) ==
  /\ log' = IF Accepted(s, p, o) THEN [log EXCEPT ![s] = Append(@, e)] ELSE log
  /\ owner' = IF s = Hub /\ owner = None /\ (Accepted(s, p, o) \/ Stored(s, p, e)) THEN o ELSE owner
  /\ home' = IF s = Hub /\ Accepted(s, p, o) /\ e.to # None THEN e.to ELSE home

-----------------------------------------------------------------------------
(* Following a workspace: syncWorkspaceLoop.                                *)

StartSync(w) ==
  /\ sync[w].pc = "off"
  /\ w \in world.among
  /\ sync' = [sync EXCEPT ![w].pc = "connecting"]
  /\ UNCHANGED <<tables, working, unsent, wire, dropped, request, warp, limits>>

\* The live connection comes first; what it brings waits until the history is in.
ConnectSSE(w) ==
  /\ sync[w].pc = "connecting"
  /\ sync' = [sync EXCEPT ![w].pc = "ask", ![w].up = TRUE]
  /\ dropped' = [dropped EXCEPT ![w] = FALSE]
  /\ UNCHANGED <<tables, working, unsent, wire, request, warp, limits>>

\* Faulty variant of Known: the position asked from is taken for one it has.
KnownAndNext(w) == IF home = w THEN Len(log[Hub]) + 1 ELSE 0

\* syncHistory asks for what follows its own log, of sessions it knows to live
\* in the workspace, and for everything of others.
Known(w) == IF home = w THEN Len(log[Hub]) ELSE 0

AskHistory(w) ==
  /\ sync[w].pc = "ask"
  /\ sync' = [sync EXCEPT ![w].pc = "answer", ![w].next = Known(w) + 1]
  /\ UNCHANGED <<tables, working, unsent, wire, dropped, request, warp, limits>>

\* Where a replay of a history goes on: with the next event, or with pc.
Proceed(f, pc) ==
  IF f.next < f.upto THEN [f EXCEPT !.next = @ + 1] ELSE [f EXCEPT !.pc = pc, !.next = 1, !.upto = 0]

Answer(f, w, pc) ==
  IF f.next <= Len(log[w])
  THEN [f EXCEPT !.pc = "replaying", !.upto = Len(log[w])]
  ELSE [f EXCEPT !.pc = pc, !.next = 1]

AnswerHistory(w) ==
  /\ sync[w].pc = "answer"
  /\ sync' = [sync EXCEPT ![w] = Answer(@, w, "live")]
  /\ UNCHANGED <<tables, working, unsent, wire, dropped, request, warp, limits>>

ReplayHistory(w) ==
  LET p == sync[w].next IN
  /\ sync[w].pc = "replaying"
  /\ ~Dies(Hub, p, log[w][p], w)
  /\ Replay(Hub, p, log[w][p], w)
  /\ sync' = [sync EXCEPT ![w] = Proceed(@, "live")]
  /\ UNCHANGED <<working, unsent, wire, dropped, request, warp, limits>>

\* A defect is not caught: it ends the fiber, not the attempt.
HistoryDies(w) ==
  LET p == sync[w].next IN
  /\ sync[w].pc = "replaying"
  /\ Dies(Hub, p, log[w][p], w)
  /\ sync' = [sync EXCEPT ![w] = IdleSync]
  /\ wire' = [wire EXCEPT ![w] = <<>>]
  /\ UNCHANGED <<tables, working, unsent, dropped, request, warp, limits>>

Receive(w) ==
  LET p == Head(wire[w]) IN
  /\ sync[w].pc = "live"
  /\ wire[w] # <<>>
  /\ ~Dies(Hub, p, log[w][p], w)
  /\ Replay(Hub, p, log[w][p], w)
  /\ wire' = [wire EXCEPT ![w] = Tail(@)]
  /\ UNCHANGED <<working, unsent, sync, dropped, request, warp, limits>>

\* A live event whose replay dies is logged and skipped.
Drop(w) ==
  LET p == Head(wire[w]) IN
  /\ sync[w].pc = "live"
  /\ wire[w] # <<>>
  /\ Dies(Hub, p, log[w][p], w)
  /\ wire' = [wire EXCEPT ![w] = Tail(@)]
  /\ dropped' = [dropped EXCEPT ![w] = TRUE]
  /\ UNCHANGED <<tables, working, unsent, sync, request, warp, limits>>

-----------------------------------------------------------------------------
(* Failures.                                                                *)

Breaks ==
  /\ breaks < world.breaks
  /\ breaks' = breaks + 1
  /\ UNCHANGED <<world, warps>>

\* What was on its way when a connection is lost is lost.
Cut(w) ==
  /\ sync' = [sync EXCEPT ![w].up = FALSE]
  /\ wire' = [wire EXCEPT ![w] = <<>>]

LoseConnection(w) ==
  /\ Breaks
  /\ sync[w].up
  /\ Cut(w)
  /\ UNCHANGED <<tables, working, unsent, dropped, request, warp>>

\* After a stream that ends the loop connects again; one that fails ends it.
StreamEnds(w) ==
  /\ sync[w].pc = "live"
  /\ ~sync[w].up
  /\ \E pc \in {"connecting", "off"} : sync' = [sync EXCEPT ![w].pc = pc]
  /\ UNCHANGED <<tables, working, unsent, wire, dropped, request, warp, limits>>

HistoryRefused(w) ==
  /\ Breaks
  /\ sync[w].pc = "answer"
  /\ sync' = [sync EXCEPT ![w] = [IdleSync EXCEPT !.pc = "connecting"]]
  /\ wire' = [wire EXCEPT ![w] = <<>>]
  /\ UNCHANGED <<tables, working, unsent, dropped, request, warp>>

RestartWorkspace(w) ==
  /\ Breaks
  /\ working' = [working EXCEPT ![w] = FALSE]
  /\ unsent' = [unsent EXCEPT ![w] = {}]
  /\ Cut(w)
  /\ request' = IF request.to = w /\ request.pc \in {"sent", "handled"} THEN NoRequest ELSE request
  /\ UNCHANGED <<tables, dropped, warp>>

RestartHub ==
  /\ Breaks
  /\ working' = [working EXCEPT ![Hub] = FALSE]
  /\ sync' = [w \in Workspaces |-> IdleSync]
  /\ wire' = [w \in Workspaces |-> <<>>]
  /\ request' = NoRequest
  /\ warp' = NoWarp
  /\ UNCHANGED <<tables, unsent, dropped>>

-----------------------------------------------------------------------------
(* A proxied request that writes: proxyRemote, fence.                       *)

Send(w) ==
  /\ request.pc = "idle"
  /\ home = w
  /\ sync[w].pc # "off"
  /\ request' = [NoRequest EXCEPT !.pc = "sent", !.to = w]
  /\ UNCHANGED <<tables, working, unsent, links, warp, limits>>

\* The workspace records the request, and starts a turn.
Handle(w) ==
  /\ request.pc = "sent"
  /\ request.to = w
  /\ HasRoom(w)
  /\ Publish(w, None)
  /\ working' = [working EXCEPT ![w] = TRUE]
  /\ request' = [request EXCEPT !.pc = "handled", !.wrote = Len(log[w]) + 1]
  /\ UNCHANGED <<links, warp, limits>>

\* Faulty variant of FenceOf: the state before the request is sent.
FenceBefore(w) == request.wrote - 1

\* What the response says of the session's sequence.
FenceOf(w) == Len(log[w])

Respond(w) ==
  /\ request.pc = "handled"
  /\ request.to = w
  /\ request' = [request EXCEPT !.pc = "fence", !.fence = FenceOf(w)]
  /\ UNCHANGED <<tables, working, unsent, links, warp, limits>>

Synced ==
  /\ request.pc = "fence"
  /\ Len(log[Hub]) >= request.fence
  /\ request' = [request EXCEPT !.pc = "ok"]
  /\ UNCHANGED <<tables, working, unsent, links, warp, limits>>

\* The client has its answer, or the request failed, or the fence timed out.
EndRequest ==
  /\ request.pc # "idle"
  /\ request' = NoRequest
  /\ UNCHANGED <<tables, working, unsent, links, warp, limits>>

-----------------------------------------------------------------------------
(* Moving the session: sessionWarp.                                         *)

\* A session that lives at the hub is neither synced nor claimed.
SessionWarp(to) ==
  /\ warp.pc = "idle"
  /\ warps < world.warps
  /\ to \in world.among \cup {Hub}
  /\ home \notin {None, to}
  /\ warps' = warps + 1
  /\ warp' = [NoWarp EXCEPT !.pc = IF home = Hub THEN "read" ELSE "ask", !.from = home, !.to = to]
  /\ UNCHANGED <<tables, working, unsent, links, request, world, breaks>>

WarpAsk ==
  /\ warp.pc = "ask"
  /\ warp' = [warp EXCEPT !.pc = "answer", !.next = Known(warp.from) + 1]
  /\ UNCHANGED <<tables, working, unsent, links, request, limits>>

WarpAnswer ==
  /\ warp.pc = "answer"
  /\ warp' = [Answer(warp, warp.from, "claim") EXCEPT !.had = Len(log[warp.from])]
  /\ UNCHANGED <<tables, working, unsent, links, request, limits>>

\* A final sync that fails is logged, and the warp goes on.
WarpUnanswered ==
  /\ Breaks
  /\ warp.pc = "answer"
  /\ warp' = [warp EXCEPT !.pc = "claim", !.next = 1]
  /\ UNCHANGED <<tables, working, unsent, links, request>>

WarpReplay ==
  LET p == warp.next IN
  /\ warp.pc = "replaying"
  /\ ~Dies(Hub, p, log[warp.from][p], warp.from)
  /\ Replay(Hub, p, log[warp.from][p], warp.from)
  /\ warp' = Proceed(warp, "claim")
  /\ UNCHANGED <<working, unsent, links, request, limits>>

WarpReplayDies ==
  LET p == warp.next IN
  /\ warp.pc = "replaying"
  /\ Dies(Hub, p, log[warp.from][p], warp.from)
  /\ warp' = NoWarp
  /\ UNCHANGED <<tables, working, unsent, links, request, limits>>

Claim ==
  /\ warp.pc = "claim"
  /\ owner' = warp.to
  /\ warp' = [warp EXCEPT !.pc = IF warp.to = Hub THEN "move" ELSE "read"]
  /\ UNCHANGED <<log, home, working, unsent, links, request, limits>>

ReadLog ==
  /\ warp.pc = "read"
  /\ warp' = [warp EXCEPT !.pc = "send", !.upto = Len(log[Hub]), !.rows = Len(log[Hub])]
  /\ UNCHANGED <<tables, working, unsent, links, request, limits>>

\* The target replays the rows it is sent, of its own session or a new one.
SendRow ==
  LET p == warp.next IN
  /\ warp.pc = "send"
  /\ ~Dies(warp.to, p, log[Hub][p], warp.to)
  /\ Replay(warp.to, p, log[Hub][p], warp.to)
  /\ warp' = Proceed(warp, "steal")
  /\ UNCHANGED <<working, unsent, links, request, limits>>

\* The target refuses a row where it has another.
SendRefused ==
  LET p == warp.next IN
  /\ warp.pc = "send"
  /\ Dies(warp.to, p, log[Hub][p], warp.to)
  /\ warp' = NoWarp
  /\ UNCHANGED <<tables, working, unsent, links, request, limits>>

\* The target records that the session lives with it.
Steal ==
  /\ warp.pc = "steal"
  /\ Publish(warp.to, warp.to)
  /\ warp' = [warp EXCEPT !.pc = "move"]
  /\ UNCHANGED <<working, links, request, limits>>

\* And so does the hub.
SetWorkspace ==
  /\ warp.pc = "move"
  /\ Publish(Hub, warp.to)
  /\ warp' = NoWarp
  /\ UNCHANGED <<working, links, request, limits>>

\* The patch is refused by the hub's checkout, or a request to the target fails.
WarpFails ==
  /\ Breaks
  /\ warp.pc \in {"send", "steal", "move"}
  /\ warp' = NoWarp
  /\ UNCHANGED <<tables, working, unsent, links, request>>

-----------------------------------------------------------------------------
Following(w) ==
  \/ ConnectSSE(w)
  \/ AskHistory(w)
  \/ AnswerHistory(w)
  \/ ReplayHistory(w)
  \/ HistoryDies(w)
  \/ Receive(w)
  \/ Drop(w)

Requesting(w) ==
  \/ Send(w)
  \/ Handle(w)
  \/ Respond(w)

Warping ==
  \/ WarpAsk
  \/ WarpAnswer
  \/ WarpUnanswered
  \/ WarpReplay
  \/ WarpReplayDies
  \/ Claim
  \/ ReadLog
  \/ SendRow
  \/ SendRefused
  \/ Steal
  \/ SetWorkspace

Next ==
  \/ Prompt
  \/ \E s \in Sites : Write(s) \/ Finish(s) \/ SessionWarp(s)
  \/ \E w \in Workspaces :
       \/ \E p \in unsent[w] : Notify(w, p)
       \/ StartSync(w)
       \/ Following(w)
       \/ LoseConnection(w)
       \/ StreamEnds(w)
       \/ HistoryRefused(w)
       \/ RestartWorkspace(w)
       \/ Requesting(w)
  \/ Synced
  \/ EndRequest
  \/ Warping
  \/ WarpFails
  \/ RestartHub

Spec == Init /\ [][Next]_vars

\* A workspace notifies what it committed, and the hub's fiber goes on once it
\* is connected.
Fairness ==
  \A w \in Workspaces :
    /\ WF_vars(\E p \in unsent[w] : Notify(w, p))
    /\ WF_vars(Following(w) /\ sync[w].pc # "connecting")

FairSpec == Spec /\ Fairness

-----------------------------------------------------------------------------
SyncState ==
  [pc : {"off", "connecting", "ask", "answer", "replaying", "live"},
   up : BOOLEAN, next : Nat \ {0}, upto : Nat]

RequestState ==
  [pc : {"idle", "sent", "handled", "fence", "ok"}, to : Sites, wrote : Nat, fence : Nat]

WarpState ==
  [pc : {"idle", "ask", "answer", "replaying", "claim", "read", "send", "steal", "move"},
   from : Sites, to : Sites, next : Nat \ {0}, upto : Nat, had : Nat, rows : Nat]

TypeOK ==
  /\ world \in Worlds
  /\ log \in [Sites -> Seq(Event)]
  /\ owner \in Sites \cup {None}
  /\ home \in Sites \cup {None}
  /\ working \in [Sites -> BOOLEAN]
  /\ unsent \in [Workspaces -> SUBSET (Nat \ {0})]
  /\ sync \in [Workspaces -> SyncState]
  /\ wire \in [Workspaces -> Seq(Nat \ {0})]
  /\ dropped \in [Workspaces -> BOOLEAN]
  /\ request \in RequestState
  /\ warp \in WarpState
  /\ warps \in 0..world.warps
  /\ breaks \in 0..world.breaks

\* The logs of two sites say the same of the first n positions.
SameUpTo(s, t, n) ==
  /\ n <= Len(log[s])
  /\ n <= Len(log[t])
  /\ \A p \in 1..n : log[s][p] = log[t][p]

\* "We implement total ordering with a simple sequence id": whatever is lost,
\* repeated, reordered or refused on the way, two sites hold the same event at
\* a position, up to the first move that any of them knows of.
OneStory ==
  \A s, t \in Sites : \A p \in 1..Len(log[s]) :
    /\ p <= Len(log[t])
    /\ \A u \in Sites, i \in 2..p : i <= Len(log[u]) => log[u][i].to = None
    => log[s][p] = log[t][p]

\* "state fully synced": when a proxied request is answered, the hub has what
\* the request wrote (of a session that never moved).
ReadYourWrites ==
  request.pc = "ok" /\ warps = 0 =>
    SameUpTo(request.to, Hub, request.wrote)

\* Before the hub calls a session moved, the target has everything the hub had
\* when it read its rows, at the same positions.  At a session's first move
\* that includes everything the source had when it answered the final sync.
WarpKeepsHistory ==
  warp.pc = "move" =>
    /\ SameUpTo(warp.to, Hub, warp.rows)
    /\ warps = 1 => SameUpTo(warp.to, warp.from, warp.had)

\* A workspace's events reach the hub, through history or live, unless the
\* connection is lost, a live event was refused, or the session moved.
CatchesUp ==
  \A w \in Workspaces, n \in {l.len : l \in Worlds} :
    (/\ Len(log[w]) >= n
     /\ sync[w].pc \notin {"off", "connecting"}
     /\ warps = 0)
      ~> (\/ Len(log[Hub]) >= n
          \/ ~sync[w].up
          \/ dropped[w]
          \/ warps > 0)

=============================================================================
