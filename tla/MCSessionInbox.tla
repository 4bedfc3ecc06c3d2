--------------------------- MODULE MCSessionInbox ---------------------------
(* Instances of SessionInbox for TLC.                                       *)
EXTENDS SessionInboxRefinement, TLC

One(S) == {CHOOSE x \in S : TRUE}

\* One drain and no revert: one client, whose prompts may wake the session, puts
\* up to two steers before a queued prompt; or all clients race for all ids but
\* one.
OnlyPrompts ==
  {[taken |-> {}, prompts |-> One(Clients) \X Ids, resume |-> TRUE,
    drains |-> 1, admitted |-> 3, reverts |-> 0, failures |-> 0],
   [taken |-> {}, prompts |-> Clients \X (Ids \ One(Ids)), resume |-> FALSE,
    drains |-> 1, admitted |-> 2, reverts |-> 0, failures |-> 0]}

Around(messages, promoting, admitting, requests, failing) ==
  [taken |-> messages, prompts |-> Clients \X Ids, resume |-> FALSE,
   drains |-> promoting, admitted |-> admitting, reverts |-> requests, failures |-> failing]

\* Around a message that is not a prompt, two processes promote while a revert
\* is staged and committed, or one while two are, the second at a boundary the
\* first takes away; or one promotes, and may fail, two prompts while three
\* requests stage, clear or commit a revert.  Drains start at any time, woken or
\* resumed.
PromotersOrReverts ==
  {Around({i}, 2, 2, 2, 0) : i \in Ids}
    \cup {Around({i}, 1, 1, 4, 0) : i \in Ids}
    \cup {Around({}, 1, 2, 3, 1)}

Symmetry ==
  Permutations(Clients) \cup Permutations(Runners) \cup Permutations(Prompts) \cup Permutations(Ids)
=============================================================================
