SPECIFICATION Spec
CONSTANTS
  Keys = {k1}
  Callers = {c1, c2}
  NoKey = NoKey
  MaxWork = 1
  MaxCalls = 4
INVARIANTS ResumeDuringCleanupStarts
