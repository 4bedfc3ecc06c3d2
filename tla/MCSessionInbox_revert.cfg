\* Two drains promote, or one fails, while reverts are staged and committed.
SPECIFICATION Spec
CONSTANTS
  Ids = {m1, m2}
  Prompts = {p1}
  Times = {0}
  Clients = {c1}
  Runners = {r1, r2}
  None = None
  Worlds <- PromotersOrReverts
SYMMETRY Symmetry
INVARIANTS InboxMatchesConversation ModelSeesSteers
PROPERTIES ImplementsPromptQueue
