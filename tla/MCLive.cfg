CONSTANTS
  None = None
  Batches = {"b1", "b2", "b3"}
  Ceilings = {1, 2}
  MaxRetries = 2
  MaxFaults = 1
SPECIFICATION LiveSpec
INVARIANT CallsBounded
PROPERTIES SyncSettles GateLetsThrough SessionSettles EventuallySettled
CHECK_DEADLOCK FALSE
