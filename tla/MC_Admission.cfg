SPECIFICATION LiveSpec
CONSTANTS
  Requests = {r1, r2}
  Limits <- Edited
  Window = 2
  Earlier <- Busy
INVARIANTS
  SlotsAreHeld
  WithinLimits
  NoLostWakeup
PROPERTIES
  RollingMinute
  RetryIsEarliest
  ProbesServed
