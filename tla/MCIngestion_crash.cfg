CONSTANTS
  d1 = d1
  m1 = m1
  m2 = m2
  m3 = m3
  r1 = r1
  NoJob = NoJob
  Docs = {d1}
  Deliveries = {m1,m2,m3}
  Recoverers = {r1}
  MaxDepth = 2
  MaxAttempts = 2
  MaxContent = 1
  MaxCancels = 1
  MaxCrashes = 1
  MaxLosses = 1
  MaxRecoveries = 1
  MaxLapses = 0
  MaxMaint = 0
  MaxTruncates = 0
  MaxFaults = 0
  Faults = {}
  OverlapAdmin = FALSE
  PromptFinalize = TRUE
SPECIFICATION Spec
INVARIANTS
  CrashSafe
