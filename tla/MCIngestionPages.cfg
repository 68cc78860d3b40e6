SPECIFICATION Spec
CONSTANTS
  Modalities = 1
  PageSize = 2
  RecentPages = 2
  InitialDays = 1
  LookbackDays = 1
  MaxRecoveryDays = 0
  Delay = 0
  MaxDay = 2
  MaxRecords = 5
  MaxFaults = 1
INVARIANTS ArchivedFirst SkippedPagesDelivered
PROPERTY RecentRecordsArrive
