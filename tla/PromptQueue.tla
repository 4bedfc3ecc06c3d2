---------------------------- MODULE PromptQueue ----------------------------
(***************************************************************************)
(* What the inbox of a session promises, without clients' retries, drains, *)
(* sequences or tables.  An id names one prompt, and a client is told that *)
(* its prompt is recorded only when it is.  A recorded prompt waits until  *)
(* it is shown to the model, once, at the end of the conversation, and     *)
(* prompts of one delivery are shown as they arrived.  A rewind takes back *)
(* the end of the conversation and the latest of what waits; from the      *)
(* first request for one on, prompts may overtake each other, and one that *)
(* was taken back may still be shown.                                      *)
(***************************************************************************)
CONSTANTS
  Ids,
  Contents      (* what a prompt says, and its delivery                    *)

VARIABLES
  prompt,       (* the recorded prompts, by id                             *)
  arrived,      (* which of them arrived before which                      *)
  conversation, (* the ids of the conversation                             *)
  earlier,      (* which of them come before which                         *)
  told,         (* answers on their way: prompts that are recorded         *)
  rewinding     (* a rewind was requested                                  *)

vars == <<prompt, arrived, conversation, earlier, told, rewinding>>

Recorded == DOMAIN prompt

Waiting == Recorded \ conversation

Told(i, content) == [id |-> i, content |-> content]

\* Some of the conversation is not prompts.
Init ==
  /\ prompt = [i \in {} |-> i]
  /\ arrived = {}
  /\ conversation \in SUBSET Ids
  /\ earlier = {}
  /\ told = {}
  /\ rewinding = FALSE

\* i comes to be recorded, after all others.
Record(i, content) ==
  /\ i \notin Recorded
  /\ i \notin conversation
  /\ prompt' = [j \in Recorded \cup {i} |-> IF j = i THEN content ELSE prompt[j]]
  /\ arrived' = arrived \cup (Recorded \X {i})

\* i comes to be at the end of the conversation.
Extend(i) ==
  /\ i \notin conversation
  /\ conversation' = conversation \cup {i}
  /\ earlier' = earlier \cup (conversation \X {i})

Accept(i, content) ==
  /\ told' = told \cup {Told(i, content)}
  /\ Record(i, content)
  /\ UNCHANGED <<conversation, earlier, rewinding>>

\* A repeated request is answered with what is recorded.
Tell(i) ==
  /\ i \in Recorded
  /\ told' = told \cup {Told(i, prompt[i])}
  /\ UNCHANGED <<prompt, arrived, conversation, earlier, rewinding>>

Answered(answer) ==
  /\ told' = told \ {answer}
  /\ UNCHANGED <<prompt, arrived, conversation, earlier, rewinding>>

\* No prompt of the same delivery has waited longer.
IsNext(i) ==
  \A j \in Waiting : prompt[j].delivery = prompt[i].delivery => <<j, i>> \notin arrived

Show(i) ==
  /\ i \in Waiting
  /\ rewinding \/ IsNext(i)
  /\ Extend(i)
  /\ UNCHANGED <<prompt, arrived, told, rewinding>>

\* A prompt that was taken back while it was about to be shown.
ShowTakenBack(i, content) ==
  /\ rewinding
  /\ Extend(i)
  /\ Record(i, content)
  /\ UNCHANGED <<told, rewinding>>

RequestRewind ==
  /\ rewinding' = TRUE
  /\ UNCHANGED <<prompt, arrived, conversation, earlier, told>>

\* The conversation loses its end, and of what waits all but kept goes too.
Rewind(kept) ==
  /\ rewinding
  /\ conversation' \in SUBSET conversation
  /\ \A p \in earlier : p[2] \in conversation' => p[1] \in conversation'
  /\ \A p \in arrived : p[2] \in kept /\ p[1] \in Waiting => p[1] \in kept
  /\ earlier' = earlier \cap (conversation' \X conversation')
  /\ prompt' = [i \in kept \cup (Recorded \cap conversation') |-> prompt[i]]
  /\ arrived' = arrived \cap (Recorded' \X Recorded')
  /\ UNCHANGED <<told, rewinding>>

Next ==
  \/ RequestRewind
  \/ \E i \in Ids : Tell(i) \/ Show(i)
  \/ \E i \in Ids, content \in Contents : Accept(i, content) \/ ShowTakenBack(i, content)
  \/ \E answer \in told : Answered(answer)
  \/ \E kept \in SUBSET Waiting : Rewind(kept)

Spec == Init /\ [][Next]_vars

=============================================================================
