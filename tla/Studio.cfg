SPECIFICATION StudioSpec
CONSTANTS
  NBuilds = 2
  Runs = {r1}
  None = None
  Cut = Cut
  Manuscripts = {m1, m2}
  Bibs = {b1, b2}
  Uncited = {m2}
  FirstText = m1
  FirstBib = b1
  MaxPasses = 2
  Fetches = {f1}
  MaxTexts = 2
  MaxGens = 3
  MaxSaves = 1
  MaxWrites = 2
  MaxEvents = 2
  MaxBuilds = 2
  Calls = {c1}
  MaxPieces = 2
  MaxMessages = 2
  MaxBatch = 3
  MaxItems = 3
CHECK_DEADLOCK FALSE
INVARIANTS SettledUnlessLoose NothingOutlivesClose DrawnWhole
PROPERTIES BuildsGiveTheLockBack NothingLost
