\* Processes contend for the lock, hold it for as long as they like, and die
\* wherever they are.  The properties say nothing of what follows the race of
\* effect-flock.ts that takes a live lock or breaker: there the search stops.
SPECIFICATION FairSpec
CONSTANTS
  Procs = {p1, p2, p3}
  None = None
  MaxCrashes = 2
CONSTRAINT Unharmed
INVARIANTS  LiveBreakerIsKept
 
