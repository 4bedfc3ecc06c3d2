\* As MCFileLock_lock.cfg, without fairness: is there one cleanup at a time?
SPECIFICATION Spec
CONSTANTS
  Procs = {p1, p2, p3}
  None = None
  MaxCrashes = 2
SYMMETRY Symmetry
INVARIANTS OneCleanup
