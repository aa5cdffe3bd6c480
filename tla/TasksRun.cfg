SPECIFICATION Spec
CONSTANTS
  Kinds = {"basic", "e2ee", "named"}
  MaxTask = 2
  SessionOf <- OneSession
  Workers = {w1, w2}
  MaxSteps = 2
  MaxQueue = 2
  MaxChunks <- OneStreams
  PageSize = 1
  MaxAdmin = 2
  MaxFaults = 1
INVARIANTS Forgotten OneAtATime FreshGenerations ProgressWhole
PROPERTIES NoLateAnswer
CHECK_DEADLOCK FALSE
