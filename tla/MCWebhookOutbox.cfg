SPECIFICATION Spec
CONSTANTS
  d1 = d1
  d2 = d2
  t1 = t1
  t2 = t2
  NoTick = NoTick
  Rows = {d1, d2}
  Ticks = {t1, t2}
  Limit = 1
  MaxAttempts = 2
  MaxBoots = 1
  MaxCrashes = 1
  MaxLapses = 1
  MaxLosses = 1
  MaxFaults = 1
SYMMETRY Symmetry
INVARIANTS CallsCounted AttemptsBounded OneAttempt TickAlive ChainsBounded
PROPERTIES SettledIsFinal
CHECK_DEADLOCK FALSE
