----------------------- MODULE SessionInboxRefinement -----------------------
(***************************************************************************)
(* The inbox of SessionInbox, with its clients, drains and reverts,        *)
(* implements PromptQueue: the recorded prompts are its rows, in the order *)
(* of their admission, and the conversation is the user messages in the    *)
(* order of their sequences.                                               *)
(***************************************************************************)
EXTENDS SessionInbox

Content(from) == [prompt |-> from.prompt, delivery |-> from.delivery]

Rows == {i \in Ids : inbox[i] # None}

Shown == {i \in Ids : message[i] # 0}

Queue == INSTANCE PromptQueue WITH
  Contents     <- [prompt : Prompts, delivery : Deliveries],
  prompt       <- [i \in Rows |-> Content(inbox[i])],
  arrived      <- {p \in Rows \X Rows : inbox[p[1]].admitted < inbox[p[2]].admitted},
  conversation <- Shown,
  earlier      <- {p \in Shown \X Shown : message[p[1]] < message[p[2]]},
  told         <- {[id |-> client[c].id, content |-> Content(client[c])] :
                     c \in {d \in Clients : client[d].pc = "accepted"}},
  rewinding    <- reverts > 0

\* Whatever clients, drains, reverts and failures do, an id keeps its prompt, a
\* client is told the truth, and the conversation grows at its end by prompts
\* that waited, in their order, and shrinks at its end by reverts.
ImplementsPromptQueue == Queue!Spec

=============================================================================
