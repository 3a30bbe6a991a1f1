SPECIFICATION Spec
CONSTANTS
  Users = {u, v}
  Events = {e1}
  Requests = {q1, q2}
  Dates <- NearDates
  DeadlineOf <- NearDeadlineOf
  Wants = {"participant"}
  Modes = {"both"}
  MaxTime = 2
  DbMayFail = TRUE
  MaxRemovals = 1
  MaxCrashes = 1
  CrashMidSend = TRUE
  SmtpMayFail = TRUE
  DatesMayMove = TRUE
SYMMETRY Symmetry
INVARIANTS RestoredAreCovered
PROPERTIES ListedEarlyOnlyIfPostponed ImplementsOutbox
CHECK_DEADLOCK FALSE
