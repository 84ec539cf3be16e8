CONSTANTS
  Keys = {1, 2}
  LogKeys = {}
  FullSync = fullSync
  MaxPending = 1
  PhaseCount = 2
  MaxCalls = 2
  Names = {x, y}
  Contents = {bare}
  Bare = bare
  NoRow = noRow
  Callers = {w1, w2}
  PageSize = 1
  MaxFails = 1
SPECIFICATION DriftSpec
PROPERTIES
  KeepsPromise
  LiveRowsConverge
CHECK_DEADLOCK FALSE
