SPECIFICATION Spec
CONSTANTS
  p1 = p1  p2 = p2  p3 = p3  q1 = q1  s1 = s1  s2 = s2  x = x  y = y
  Requests = {p1, p2, p3, q1}
  Questions = {q1}
  Posts = {p3}
  Sessions = {s1, s2}
  SessionOf <- SessionsOf
  Resources = {x, y}
  Needs <- NeedsOf
  Saves <- SavesOf
  Configs <- SomeConfigs
  Repliers = {t1, t2}
  None = None
  MaxReplies = 2
SYMMETRY Symmetry
CHECK_DEADLOCK FALSE
INVARIANTS ListedIsOpen AnsweredAsPublished RejectStaysInSession
PROPERTIES RepliesReachEveryone
