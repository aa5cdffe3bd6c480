CONSTANTS
  None = None
  alice = alice
  bob = bob
  ai = ai
  da = da
  db = db
  People = {alice, bob}
  Agents = {}
  Devices = {da, db}
  Owner <- MCOwner
  E2EE = TRUE
  Signals <- Secret
  MaxCalls = 2
  MaxAdmin = 2
  MaxFaults = 0
SPECIFICATION Spec
INVARIANTS OneCall NoMediaInRekey
