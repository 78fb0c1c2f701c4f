SPECIFICATION Spec

CONSTANTS
  NumObjects = 2
  NumJobs = 2
  Workers = {w1, w2}
  w1 = w1
  w2 = w2
  None = None
  BatchSize = 1
  MinTracked = 2
  MaxPercent = 50
  MaxMessages = 1
  MaxChanges = 0
  MaxCuts = 0
  MaxDeaths = 0
  MaxOverruns = 1
SYMMETRY Symmetry

CHECK_DEADLOCK FALSE

PROPERTY DeletesOnlyMissing
