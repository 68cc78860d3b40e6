SPECIFICATION Spec
CONSTANTS
  Sellers = {s1, s2}
  Opportunities = {o1}
  NoOpportunity = none
  MaxDealCalls = 3
  Visitors = {v1, v2}
  Plan <- MCPlan
  MaxVisits = 5
  MaxRenewals = 1
  Notices = {1, 2, 3, 4}
  Ranked = {1, 4}
  Dates = {1, 2}
  PageLimit = 2
  MaxPuts = 2
  Bearers = {b1, b2}
  MaxKey = 2
  MaxNow = 5
  KeyTTL = 2
  FetchTime = 1
  Quota = 2
  Window = 3
  MaxClock = 6
  MaxTries = 3
  MaxReboots = 1
  Clerks = {c1, c2}
  Second = 2
  MaxMoment = 5
  Publications = {p1, p2, p3}
  PncpPageSize = 2
  MaxAttempts = 3
  MaxPages = {0, 1}
  Buyers = {m1, m2}
  MaxSessions = 3
  MaxWebhooks = 3
INVARIANTS TypeOK OneCard ChangesKept ProfilesBounded QuotaHeld QuotaPerWindow
INVARIANTS WithdrawnKeysExpire RefusedOnlyIfOverwritten WalkComplete DayAsListed
INVARIANTS LogoutEndsTheEarlier OneCustomer ClearTextOnlyIfAllowed
CHECK_DEADLOCK FALSE
