CONSTANTS
  notes = notes
  wiki = wiki
  MaxCalls = 2
  Nonces = {1, 2, 3}
  RequestOf <- MCRequestOf
  Resource <- MCResource
  MaxAdmin = 2
  MaxFaults = 1
SPECIFICATION FairSpec
INVARIANTS NothingAfterRevocation NothingRemembered
PROPERTY BothServed
CHECK_DEADLOCK FALSE
