SPECIFICATION Spec
CONSTANTS
  Nodes = {n1, n2, n3}
  Defs = {d1}
  Texts = {t1, t2}
  Importers = {i1}
  MaxRows = 4
  MaxNamed = 2
  MaxSealed = 1
  MaxDecided = 2
  Claimed = {q1}
  Theorems = {e1}
  MaxWrites = 3
  Processes = {p1, p2}
  OldRecords = {k1}
  Malformed = {m1}
  Forged = {f1}
  Reviews = {r1}
  Topics = {o1}
  Members = {a1, a2}
  Branches = {b1, b2}
  Assets = {s1}
  MaxEdits = 2
  Policies <- TwoPolicies
  MaxActions = 2
  MaxRecords = 3
  Runners = {c1, c2}
  Pursuits = {u1}
  NodeTurns = {g1}
  ReaderTurns = {h1}
  MaxSteps = 3
  Ids = {"one", "other"}
  Judgements = {"under_review", "dismissed"}
  Repaired = {"repaired"}
  MaxDone = 5
  Sayings = {v1, v2}
  MaxChanges = 2
  MaxSnapshots = 2
  MaxVersions = 2
  MaxTouches = 1
  MaxDamage = 1
  Callers = {c1}
  None = None
SYMMETRY NodeSymmetry
CHECK_DEADLOCK FALSE
INVARIANTS ShownStood OldRecordsKept WorkFollows BugsFollowed PinTells
PROPERTIES TextStands VaultStands
