\* A session's log at the hub and two workspaces, followed over connections
\* that break, read back through proxied requests, and moved between the sites.
SPECIFICATION FairSpec
CONSTANTS
  w1 = w1  w2 = w2
  Workspaces = {w1, w2}
  Hub = Hub
  None = None
  MaxUnsent = 2
  Worlds <- StaysOrMoves
INVARIANTS OneStory ReadYourWrites WarpKeepsHistory
PROPERTIES CatchesUp
