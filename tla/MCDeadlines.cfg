SPECIFICATION Spec
CONSTANTS
  N = 3
  Margin = 5
  Dates <- MCDates
  LastDay = 14
  Hours = {0, 1, 16, 17, 18, 23}
  MaxFills = 2
INVARIANTS VerdictIsTrue EarlyLetterIsFinal ForgottenOnlyByBackfill
PROPERTIES BackfillReach
CHECK_DEADLOCK FALSE
