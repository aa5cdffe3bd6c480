SPECIFICATION FairSpec
CONSTANTS
  Requests <- AllRequests
  HandlerOf <- Handlers
  Approvals = {2, 3}
  MaxMessages = 2
  MaxPending = 2
  PageLimit = 2
  MaxFrames = 1
  MaxFaults = 1
INVARIANTS EffectOnce GenerationOnce StillReadable
PROPERTIES WorkEnds ExecutesRequests
