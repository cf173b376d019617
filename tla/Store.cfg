SPECIFICATION Spec
CONSTANTS
  Processes = {p, q}
  Nodes = {x}
  Turns = {t}
  MaxTries = 4
  Keys = {r1, r2}
  MaxWrites = 4
  MaxBlocks = 4
  MaxAttempts = 4
  Parents = {m1, m2}
  NewNodes = {w1, w2}
  MaxItems = 2
  MaxRuns = 1
  Projects = {k1, k2}
  MaxOpens = 2
  MaxStamps = 2
  MaxMarkers = 4
  Exported = {e1, e2}
  MaxSteps = 5
  Ids = {c1, c2}
  MaxLines = 2
  MaxChanges = 1
  NoOne = NoOne
SYMMETRY Alike
CHECK_DEADLOCK FALSE
INVARIANTS FilesFollow OneAfterAnother ImportStands
PROPERTIES KeptForGood MemoryKept EndingsStand
