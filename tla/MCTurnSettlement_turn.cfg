SPECIFICATION FairSpec
CONSTANTS
  Calls = {c1, c2}
  NoCall = NoCall
  LastStep = 2
  MaxTurns = 3
CHECK_DEADLOCK FALSE
INVARIANTS SettledOnce NoCallLeftBehind TurnSettlesCalls ExecutesWhileRunning AssistantCloses
PROPERTIES InterruptEnds
