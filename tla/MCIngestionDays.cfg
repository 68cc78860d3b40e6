SPECIFICATION SafeSpec
CONSTANTS
  Modalities = 2
  PageSize = 2
  RecentPages = 1
  InitialDays = 2
  LookbackDays = 1
  MaxRecoveryDays = 2
  Delay = 1
  MaxDay = 4
  MaxRecords = 1
  MaxFaults = 2
INVARIANTS TypeOK NoGapBehindCursor
