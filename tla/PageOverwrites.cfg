SPECIFICATION Spec
CONSTANTS
  Fetches = {f1}
  Others = {"page"}
  MaxTexts = 3
  MaxGens = 3
  MaxSaves = 1
  MaxWrites = 3
CHECK_DEADLOCK FALSE
PROPERTIES UnseenIsSpared
