SPECIFICATION Spec
CONSTANTS
  Nodes = {x, y}
  Worked = {x}
  Requesters = {r, s}
  Media = {"latex", "computation"}
  Ops = {"text", "edges", "files", "snapshots", "medium", "verdict", "review", "verify", "evidence"}
  MaxTime = 4
SYMMETRY Symmetry
CHECK_DEADLOCK FALSE
INVARIANTS CountedAsShown PassedAnswersAll
PROPERTIES GatedFreezesWhatPassed
