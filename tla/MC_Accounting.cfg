SPECIFICATION FairSpec
CONSTANTS
  Requests = {r1, r2}
  Sockets = {r2}
  Failing = {r1}
  None = none
  ChargeCap = 1
  LogCap = 1
  BatchSize = 2
  MaxAttempts = 2
INVARIANTS
  Conserved
  OnlyRacingStranded
  CostNotBehindLogs
PROPERTIES
  ShutdownEnds
  ChargesSettle
CHECK_DEADLOCK FALSE
