--------------------------- MODULE MCWorkspaceSync ---------------------------
(* An instance of WorkspaceSync for TLC.                                    *)
EXTENDS WorkspaceSync

CONSTANTS w1, w2

\* A session that stays in its workspace, with failures; one that moves once,
\* with failures, out of a workspace or of the hub; one that moves twice, to
\* anywhere, or back and forth with writes in between.
StaysOrMoves ==
  {[at |-> w1, among |-> {w1}, len |-> 3, warps |-> 0, breaks |-> 1]}
    \cup {[at |-> s, among |-> Workspaces, len |-> 2, warps |-> 1, breaks |-> 1] : s \in {w1, Hub}}
    \cup {[at |-> w1, among |-> Workspaces, len |-> 2, warps |-> 2, breaks |-> 0]}
    \cup {[at |-> Hub, among |-> {w1}, len |-> 3, warps |-> 2, breaks |-> 0]}
=============================================================================
