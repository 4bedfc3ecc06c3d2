\* One source that can be removed and one that cannot; what they render may stop
\* decoding.
SPECIFICATION EpochSpec
CONSTANTS
  instructions = instructions  environment = environment  a = a  b = b
  Keys = {instructions, environment}
  Values = {a, b}
  Removable = {instructions}
  Legacy = {b}
  Absent = Absent
  Unavailable = Unavailable
  None = None
  Worlds <- OneSourceOrTwo
INVARIANTS EpochMatchesHistory RequestTellsContext
