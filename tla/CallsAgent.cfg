CONSTANTS
  None = None
  alice = alice
  bob = bob
  ai = ai
  da = da
  db = db
  People = {alice, bob}
  Agents = {ai}
  Devices = {da, db}
  Owner <- MCOwner
  E2EE = FALSE
  Signals <- Accept
  MaxCalls = 1
  MaxAdmin = 3
  MaxFaults = 0
SPECIFICATION FairSpec
PROPERTY BetweenActive
