CONSTANTS
  t1 = t1
  t2 = t2
  Ids = {1, 2}
  Approvals = {2}
  Tasks <- MCTasks
  PageSize = 50
  MaxTaps = 1
  MaxFailures = 1
SPECIFICATION InboxSpec
INVARIANTS CountMatchesList ShownLocallyOnce ListedIsKnown
PROPERTY ListSettles
CHECK_DEADLOCK FALSE
