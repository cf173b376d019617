SPECIFICATION Spec
CONSTANTS
  Files = {ideas}
  KeyIdeas = ideas
  Texts = {x}
  NoText = missing
  Requests <- Elsewhere
  Callers = {c1, c2}
  Tabs = {t1}
  MaxTurns = 2
  MaxSaves = 1
  Kept = 1
INVARIANTS OneTurn StopIsNotMissed NoTurnOutlivesClose
PROPERTIES StoppedTurnEnds
CHECK_DEADLOCK FALSE
