CONSTANTS
  c1 = c1
  alice = alice
  bob = bob
  da = da
  db = db
  Chats = {c1}
  Users = {alice, bob}
  Devices = {da, db}
  Owner <- MCOwner
  Joined <- MCJoined
  Packages = {1}
  PackageOf <- MCPackageOf
  QuotaKP = 1
  PageLimit = 1
  MaxCommits <- MCMaxCommits
  MaxQueued = 1
  MaxAdmin = 2
SPECIFICATION Spec
INVARIANTS RosterCurrent PackageOnce WelcomesLeadIn InboxWhole
PROPERTY ReadersStillMembers
CHECK_DEADLOCK FALSE
