SPECIFICATION Spec
CONSTANTS
  NBuilds = 3
  Runs = {}
  None = None
  Cut = Cut
  Manuscripts = {m1}
  Bibs = {b1, b2}
  Uncited = {}
  MaxPasses = 3
CHECK_DEADLOCK FALSE
INVARIANTS SettledIsUpToDate
