CONSTANTS
  d1 = d1
  m1 = m1
  NoJob = NoJob
  Docs = {d1}
  Deliveries = {m1}
  Recoverers = {}
  MaxDepth = 1
  MaxAttempts = 1
  MaxContent = 1
  MaxCancels = 1
  MaxCrashes = 0
  MaxLosses = 0
  MaxRecoveries = 0
  MaxLapses = 0
  MaxMaint = 0
  MaxTruncates = 0
  MaxFaults = 0
  Faults = {}
  OverlapAdmin = TRUE
  PromptFinalize = TRUE
SPECIFICATION Spec
INVARIANT
  NoOrphanVectors
