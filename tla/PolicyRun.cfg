SPECIFICATION PFairSpec
CONSTANTS
  Kinds = {"basic"}
  MaxTask = 2
  SessionOf <- OneSession
  Workers = {w1}
  MaxSteps = 1
  MaxQueue = 2
  MaxChunks <- NoChunks
  PageSize = 1
  MaxAdmin = 1
  MaxFaults = 1
  Required = {"tool"}
  Reserve = 2
  ToolCost = 1
  Costs = {3}
  GlobalCap = 5
  UserCap = 4
  MaxDay = 1
INVARIANTS Balanced ContinuationsForgotten
PROPERTIES RevokedNeverSent PolicyQueueMoves ExecutesEffects
CHECK_DEADLOCK FALSE
