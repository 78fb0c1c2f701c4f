CONSTANTS
  d1 = d1
  m1 = m1
  m2 = m2
  m3 = m3
  NoJob = NoJob
  Docs = {d1}
  Deliveries = {m1,m2,m3}
  Recoverers = {}
  MaxDepth = 2
  MaxAttempts = 2
  MaxContent = 2
  MaxCancels = 1
  MaxCrashes = 0
  MaxLosses = 1
  MaxRecoveries = 0
  MaxLapses = 0
  MaxMaint = 1
  MaxTruncates = 0
  MaxFaults = 1
  Faults = {"transient", "permanent", "insert", "cleanup", "finalize", "send", "storage", "abort"}
  OverlapAdmin = FALSE
  PromptFinalize = TRUE
SPECIFICATION FairSpec
INVARIANTS
  ReadyIsCurrent
PROPERTY
  EventuallySettled
