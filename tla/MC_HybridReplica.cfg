CONSTANTS
  Keys = {1, 2}
  LogKeys = {}
  FullSync = fullSync
  MaxPending = 1
  PhaseCount = 2
  MaxCalls = 3
  Names = {x, y}
  Contents = {bare, full}
  Bare = bare
  NoRow = noRow
  Callers = {w1, w2}
  PageSize = 1
  MaxFails = 1
SPECIFICATION SyncedSpec
INVARIANTS
  NothingForgotten
  DeletesAreFinal
PROPERTIES
  wbSpec
SYMMETRY Symmetry
CHECK_DEADLOCK FALSE
