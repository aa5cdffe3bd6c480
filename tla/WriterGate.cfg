CONSTANTS
  chat = chat
  dev = dev
  o1 = o1
  o2 = o2
  o3 = o3
  o4 = o4
  b1 = b1
  b2 = b2
  NoMessage = NoMessage
  Clients = {c1, c2}
  Chats = {chat}
  E2EE = {chat}
  Devices = {dev}
  Ops = {o1, o2, o3, o4}
  Bodies = {b1, b2}
  Size <- MCSize
  Requests <- LargeRequests
  Capacity = 1
  MaxBatch = 2
  MaxBytes = 5
  AdminLimit = 2
  Faults = {"refuse", "close"}
SPECIFICATION FairSpec
PROPERTIES GatedCommit EveryWaitEnds
