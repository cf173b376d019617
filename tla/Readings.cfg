SPECIFICATION ReadingsSpec
CONSTANTS
  Nodes = {x, y}
  Imports = {y}
  Ids = {i1}
  Nobody = nobody
  Drafts = {f1, f2}
  FirstDraft = f1
  Judged = {x}
  Sealable = {x, y}
  Doubted = {x, y}
  x = x
  y = y
  c = c
  z = z
  i1 = i1
  i2 = i2
  f1 = f1
  i = i
  l = l
  m = m
  t = t
  c1 = c1
  c2 = c2
  s1 = s1
  r1 = r1
  r2 = r2
  p1 = p1
  p2 = p2
  n1 = n1
  n2 = n2
  t1 = t1
  t2 = t2
  t3 = t3
  reader = reader
SYMMETRY Alike
CHECK_DEADLOCK FALSE
INVARIANTS MapReadRight
PROPERTIES UnsealReleasesListed OnlyClicksVerify VoidForGood ScopesRight RulesRight
