CONSTANTS
  Keys = {1, 2, 3}
  LogKeys = {latest}
  FullSync = fullSync
  MaxPending = 2
  PhaseCount = 2
  MaxCalls = 4
SPECIFICATION wbSpec
INVARIANTS
  QueueSafe
  NoSilentLogLoss
PROPERTIES
  NewestMarkSurvives
CHECK_DEADLOCK FALSE
