CONSTANTS
  d1 = d1
  d2 = d2
  m1 = m1
  m2 = m2
  m3 = m3
  NoJob = NoJob
  Docs = {d1,d2}
  Deliveries = {m1,m2,m3}
  Recoverers = {}
  MaxDepth = 1
  MaxAttempts = 2
  MaxContent = 1
  MaxCancels = 1
  MaxCrashes = 0
  MaxLosses = 0
  MaxRecoveries = 0
  MaxLapses = 0
  MaxMaint = 0
  MaxTruncates = 1
  MaxFaults = 2
  Faults = {"transient", "permanent", "insert", "send", "storage"}
  OverlapAdmin = FALSE
  PromptFinalize = TRUE
SPECIFICATION Spec
SYMMETRY Symmetry
INVARIANTS
  SlotsExact
  NoOrphanVectors
  ReadyIsSearchable
  EndsClean
PROPERTY
  SettledIsFinal
