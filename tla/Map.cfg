SPECIFICATION MapSpec
CONSTANTS
  a = a
  b = b
  c = c
  human = human
  agent = agent
  nobody = nobody
  x1 = x1
  x2 = x2
  y1 = y1
  j1 = j1
  j2 = j2
  Nodes <- Three
  Actors <- People
  Researcher <- human
  Nobody <- nobody
  NewKinds <- Kinds
  Judged <- Two
SYMMETRY Alike
INVARIANTS AcyclicMap ChecksStand
PROPERTIES HolderRespected AcceptanceNotLostSilently
CHECK_DEADLOCK FALSE
