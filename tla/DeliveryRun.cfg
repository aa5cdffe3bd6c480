CONSTANTS
  Conns = {k1}
  Chats = {ch1}
  Old = 1
  MaxSeq = 3
  PageLimit = 2
  MaxPages = 2
  Kinds = {"change"}
  Afters = {1}
  Silent = TRUE
  Retention = TRUE
  Membership = TRUE
  AllHistory = TRUE
SPECIFICATION FairSpec
INVARIANTS NoLostWake NothingSkipped OnlyEntitled
PROPERTIES CatchesUp
