CONSTANTS
  p1 = p1
  a = a
  b = b
  NoAccount = NoAccount
  Accounts <- MCAccounts
  Polls <- MCPolls
  MaxPairs = 2
  MaxFailures = 1
  MaxKills = 1
SPECIFICATION Spec
INVARIANTS OneRefresh StorageFollowsMemory
PROPERTIES RevokedBuysNothing RefreshingEnds
CHECK_DEADLOCK FALSE
