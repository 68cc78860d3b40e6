SPECIFICATION MCSpec
CONSTANTS
  k1 = k1
  k2 = k2
  NoReplica = NoReplica
  Replicas = {r1, r2}
  Keys <- MCKeys
  Events <- MCEvents
  MaxLog = 4
  MaxFaults = 2
INVARIANTS TypeOK NoEventLost SettledWithoutGap
PROPERTY EventuallySettled MirrorsLog
CHECK_DEADLOCK FALSE
