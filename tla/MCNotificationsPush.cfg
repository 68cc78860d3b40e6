SPECIFICATION Spec
CONSTANTS
  w = w
  admin = admin
  o1 = o1
  o2 = o2
  f1 = f1
  Worker = w
  Operators = {admin}
  Opportunities = {o1}
  FollowUps = {}
  NumTokens = 1
  Preferences <- MCPushPreferences
  CloudMode = TRUE
  DailyAlerts = 1
  SuppressAfter = 2
  DayLength = 2
  MaxTime = 3
  MaxRuns = 2
  MaxAtOnce = 1
  MaxFaults = 0
INVARIANT FailedPushRetried
CHECK_DEADLOCK FALSE
