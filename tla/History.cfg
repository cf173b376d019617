SPECIFICATION Spec
CONSTANTS
  Processes = {p1, p2}
  Nodes = {"n1", "n2"}
  NewIds = {d1, d2}
  Legacy <- ThreeRows
  Nobody = nobody
  TornWrites = TRUE
  MaxTorn = 1
INVARIANTS OneOrder CountedWhileReadable
PROPERTIES LockGivenUp ImplementsLog
