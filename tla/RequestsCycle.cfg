SPECIFICATION Spec
CONSTANTS
  Nodes = {x, y}
  Worked = {x, y}
  Requesters = {r, s}
  Media = {"latex", "computation"}
  Ops = {"edges", "medium"}
  MaxTime = 5
CHECK_DEADLOCK FALSE
INVARIANTS AcyclicMap
