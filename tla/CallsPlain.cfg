CONSTANTS
  None = None
  alice = alice
  bob = bob
  ai = ai
  da = da
  db = db
  People = {alice, bob}
  Agents = {ai}
  Devices = {da, db}
  Owner <- MCOwner
  E2EE = FALSE
  Signals <- Plain
  MaxCalls = 1
  MaxAdmin = 2
  MaxFaults = 1
SPECIFICATION FairSpec
INVARIANT AnswersTrue
PROPERTY CallsEnd
