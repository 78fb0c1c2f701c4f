SPECIFICATION Spec

CONSTANTS
  NumObjects = 2
  NumJobs = 2
  Workers = {w1, w2}
  w1 = w1
  w2 = w2
  None = None
  BatchSize = 1
  MinTracked = 2
  MaxPercent = 50
  MaxMessages = 1
  MaxChanges = 2
  MaxCuts = 1
  MaxDeaths = 1
  MaxOverruns = 0
SYMMETRY Symmetry

CHECK_DEADLOCK FALSE

INVARIANT JobsSafe
PROPERTY PruneSafe
PROPERTY CompleteMirrors
PROPERTY OutcomeStands
