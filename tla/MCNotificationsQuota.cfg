SPECIFICATION Spec
CONSTANTS
  w = w
  admin = admin
  o1 = o1
  o2 = o2
  f1 = f1
  Worker = w
  Operators = {admin}
  Opportunities = {o1, o2}
  FollowUps = {f1}
  NumTokens = 1
  Preferences <- MCPreferences
  CloudMode = TRUE
  DailyAlerts = 1
  SuppressAfter = 2
  DayLength = 2
  MaxTime = 3
  MaxRuns = 3
  MaxAtOnce = 1
  MaxFaults = 1
INVARIANTS EmailNeverSkipped DigestOncePerDay MailedOnce QuotaKept
CHECK_DEADLOCK FALSE
SYMMETRY OpportunitySymmetry
