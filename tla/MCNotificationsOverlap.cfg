SPECIFICATION Spec
CONSTANTS
  w = w
  admin = admin
  o1 = o1
  o2 = o2
  f1 = f1
  Worker = w
  Operators = {admin}
  Opportunities = {o1}
  FollowUps = {f1}
  NumTokens = 1
  Preferences <- MCPreferences
  CloudMode = TRUE
  DailyAlerts = 1
  SuppressAfter = 2
  DayLength = 2
  MaxTime = 3
  MaxRuns = 2
  MaxAtOnce = 2
  MaxFaults = 1
INVARIANT TypeOK
PROPERTY CursorNeverBack
CHECK_DEADLOCK FALSE
