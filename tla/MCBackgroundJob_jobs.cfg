SPECIFICATION FairSpec
CONSTANTS
  Jobs = {j1, j2}
  Callers = {c1}
  Promoters = {p1}
  NoJob = NoJob
  MaxStarts = 2
  MaxExtends = 1
CHECK_DEADLOCK FALSE
INVARIANTS WorkIsSerialized CompletesWithLatest PromotedEndIsInjected
PROPERTIES EndsOnce PromotionReleases
