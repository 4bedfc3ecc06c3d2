SPECIFICATION FairSpec
CONSTANTS
  Keys = {k1}
  Callers = {c1, c2, c3}
  NoKey = NoKey
  MaxWork = 2
  MaxCalls = 5
INVARIANTS OneDrainPerKey ActiveIsExact FollowUpKept
PROPERTIES WorkIsConsumed CallersReturn
