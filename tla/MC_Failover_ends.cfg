SPECIFICATION FairSpec
CONSTANTS
  Clients = {i1}
  Channels = {c1, c2}
  Keys = {k1, k2}
  Models = {m1}
  Whole = whole
  None = none
  KeyFallback = {c2}
  MaxKeyRetries = 1
  FallbackEnabled = TRUE
  Initials = {1}
  MinCooldown = 1
  MaxCooldown = 1
  Waits = {}
  MaxTime = 2
  MaxFaults = 1
PROPERTIES
  RequestsEnd
