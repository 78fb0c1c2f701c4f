CONSTANTS
  Clients = {c1, c2, c3, c4}
  c1 = c1
  c2 = c2
  c3 = c3
  c4 = c4
  Users = {"u1", "u2"}
  Sessions = {"s1", "s2"}
  Keys = {"k1"}
  KeyOwner = "u1"
  Requests = {1, 2}
  NoUser = "none"
  MaxRequests = 2
  MaxFaults = 1
  Readers = {"r1", "r2"}
  Writers = {"w1", "w2"}
  Process <- ProcessOf
  NoReader = "none"
  MaxReads = 2
  MaxWrites = 2
  MaxExpiries = 1
  Nothing = Nothing
  MaxDepth = 2
  MaxStrays = 2
  Callers = {"c1", "c2"}
  Bodies = {"b1", "b2"}
  MaxAttempts = 2
  MaxSends = 3
  MaxLapses = 1
  MaxDeaths = 1
  Values = {1, 2, 3}
  Bootstrap = 1
  NoSetting = 0
  Edits = {1, 2}
  Calls = {1, 2}
  MaxRestarts = 1
  Starters = {"p1", "p2"}
  NoProcess = "none"
  MaxOutages = 1
  MaxChecks = 2
  MaxRuns = 2
  MaxTasks = 2
  MaxBusFaults = 1
  SourceIds = {1, 2}
  Buckets = {"A", "B"}
  KeyPairs = {"k1", "k2"}
  Endpoints = {"e1", "e2"}
  Askers = {1, 2}
  MaxAsks = 3
  Replicas = {"p1", "p2"}
  Models <- ModelsOf
  MaxSaves = 2
  MaxRewriteFaults = 1
  Turns = {1, 2}
  MaxKeys = 2
  MaxDeltas = 1
  MaxClients = 1
  MaxChatFaults = 1
  Contents = {"a", "b"}
  Editors = {"r1", "r2"}
  NoEditor = "none"
  MaxEdits = 3
  MaxLibraryFaults = 1
  Items = {"i1"}
  MaxTries = 2
  MaxUploads = 2
  MaxEvents = 2
  MaxStatements = 5
  MaxRecords = 3
  QueueMax = 2
  BatchMax = 2
  MaxLogFaults = 1
SPECIFICATION ServicesSpec
INVARIANTS
  SlotsCounted
  RightsHold
  
  
  
  
  
  
  
PROPERTIES
  ImplementsBoundedSlots
  
  CancelsHold
  
  
  RecordsHold
  SecretsHold
  StartsSound
CHECK_DEADLOCK FALSE
