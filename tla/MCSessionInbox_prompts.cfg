\* A client admits three prompts, or two race to admit prompts under two ids,
\* while a drain promotes.
SPECIFICATION FairSpec
CONSTANTS
  Ids = {m1, m2, m3}
  Prompts = {p1}
  Times = {0}
  Clients = {c1, c2}
  Runners = {r1}
  None = None
  Worlds <- OnlyPrompts
INVARIANTS OneContentPerId PromotedInOrder
PROPERTIES PendingIsPromoted
