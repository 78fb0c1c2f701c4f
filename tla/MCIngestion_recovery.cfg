CONSTANTS
  d1 = d1
  m1 = m1
  m2 = m2
  r1 = r1
  NoJob = NoJob
  Docs = {d1}
  Deliveries = {m1,m2}
  Recoverers = {r1}
  MaxDepth = 2
  MaxAttempts = 1
  MaxContent = 1
  MaxCancels = 0
  MaxCrashes = 0
  MaxLosses = 0
  MaxRecoveries = 1
  MaxLapses = 0
  MaxMaint = 0
  MaxTruncates = 0
  MaxFaults = 0
  Faults = {}
  OverlapAdmin = FALSE
  PromptFinalize = TRUE
SPECIFICATION Spec
INVARIANT
  ReadyIsSearchable
