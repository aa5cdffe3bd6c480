CONSTANTS
  good = good
  bad = bad
  None = None
  Uploads = {u1}
  Chunks = 2
  Contents = {good, bad}
  Declared <- MCDeclared
  Size <- MCSize
  Messages = {m1, m2}
  Readers = {r1, r2}
  Reserve = 2
  MaxStorage = 2
  MaxFaults = 4
SPECIFICATION FairSpec
INVARIANTS ServedAsDeclared AttachmentsKept
PROPERTIES Resumable Reclaimed
