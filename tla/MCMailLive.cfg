SPECIFICATION Spec
CONSTANTS
  Users = {u, v}
  Events = {e1}
  Requests = {q1, q2}
  Dates <- NearDates
  DeadlineOf <- NearDeadlineOf
  Wants = {"participant"}
  Modes = {"both"}
  MaxTime = 1
  DbMayFail = FALSE
  MaxRemovals = 1
  MaxCrashes = 0
  CrashMidSend = TRUE
  SmtpMayFail = FALSE
  DatesMayMove = TRUE
INVARIANTS SomeLetterIsComplete
PROPERTIES EventuallyMailed
CHECK_DEADLOCK FALSE
