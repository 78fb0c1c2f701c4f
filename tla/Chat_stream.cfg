CONSTANTS
  Turns = {1}
  MaxKeys = 1
  MaxDeltas = 2
  MaxClients = 1
  MaxChatFaults = 1
SPECIFICATION ChatSpec
INVARIANT StreamComplete
CHECK_DEADLOCK FALSE
