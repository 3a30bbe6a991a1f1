SPECIFICATION Spec
CONSTANTS
  Users = {u}
  Events = {e1}
  Requests = {q1}
  Dates <- OneDate
  DeadlineOf <- OneDeadline
  Wants = {"participant"}
  Modes = {"both"}
  MaxTime = 3
  DbMayFail = FALSE
  MaxRemovals = 1
  MaxCrashes = 2
  CrashMidSend = FALSE
  SmtpMayFail = FALSE
  DatesMayMove = FALSE
PROPERTIES RestartSendsOnce
CHECK_DEADLOCK FALSE
