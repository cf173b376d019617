SPECIFICATION Spec
CONSTANTS
  Nodes = {n1, n2}
  Defs = {d1}
  Texts = {t1, t2}
  Importers = {i1}
  MaxRows = 1
  None = None
CHECK_DEADLOCK FALSE
PROPERTIES SaysTheSame
