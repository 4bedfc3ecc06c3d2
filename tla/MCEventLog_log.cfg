\* A fiber publishes and replays batches for either of two owners, and
\* aggregates are claimed and removed, over two aggregates that share the event
\* ids, while a consumer follows one of them.
SPECIFICATION FairSpec
CONSTANTS
  a1 = a1  a2 = a2  o1 = o1  o2 = o2  f1 = f1  r1 = r1
  Aggregates = {a1, a2}
  Owners = {o1, o2}
  NoOwner = NoOwner
  Ids = {i1, i2}
  Data = {d1}
  Fibers = {f1}
  Readers = {r1}
  Follows <- OneFollows
  MaxSeq = 1
  MaxBatch = 2
  MaxRemoves = 1
INVARIANTS LogContiguous IdsUnique
PROPERTIES OwnershipFences EveryEventDelivered ImplementsAppendLog
