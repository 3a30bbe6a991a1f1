SPECIFICATION Spec
CONSTANTS
  Users = {p, m, n}
  Events = {e1}
  Requests = {q1}
  Managers = {m, n}
  Pinned = {n}
  Scans = {s1, s2}
  NoScanner = NoScanner
  Dates <- MCDates
  DeadlineOf <- MCDeadlineOf
  Wants = {"participant"}
  Modes = {"open"}
  MaxTime = 1
  DbMayFail = TRUE
INVARIANTS TypeOK MarkedOnce StatusFollowsJournal AnswersAreTrue
PROPERTIES ImplementsLog ScanAnswered
CHECK_DEADLOCK FALSE
