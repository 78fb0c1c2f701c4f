CONSTANTS
  d1 = d1
  m1 = m1
  m2 = m2
  NoJob = NoJob
  Docs = {d1}
  Deliveries = {m1,m2}
  Recoverers = {}
  MaxDepth = 2
  MaxAttempts = 2
  MaxContent = 2
  MaxCancels = 1
  MaxCrashes = 0
  MaxLosses = 0
  MaxRecoveries = 0
  MaxLapses = 0
  MaxMaint = 0
  MaxTruncates = 0
  MaxFaults = 0
  Faults = {}
  OverlapAdmin = FALSE
  PromptFinalize = TRUE
SPECIFICATION Spec
INVARIANT
  ResyncReplaces
