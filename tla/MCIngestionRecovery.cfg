SPECIFICATION SafeSpec
CONSTANTS
  Modalities = 1
  PageSize = 2
  RecentPages = 2
  InitialDays = 1
  LookbackDays = 2
  MaxRecoveryDays = 0
  Delay = 0
  MaxDay = 3
  MaxRecords = 2
  MaxFaults = 0
INVARIANT RecoversPendingDays
