SPECIFICATION Spec
CONSTANTS
  Clients = {i1, i2}
  Channels = {c1}
  Keys = {k1, k2}
  Models = {m1}
  Whole = whole
  None = none
  KeyFallback = {}
  MaxKeyRetries = 2
  FallbackEnabled = TRUE
  Initials = {1}
  MinCooldown = 1
  MaxCooldown = 2
  Waits = {}
  MaxTime = 2
  MaxFaults = 0
SYMMETRY Symmetry
INVARIANTS
  WaitIsBounded
  VisitTriesKey
  ExhaustionNoticed
  ChannelCooledOnlyWhenExhausted
  FallbackServes
PROPERTIES
  FailuresNeverShorten
