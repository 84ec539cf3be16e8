SPECIFICATION LiveSpec
CONSTANTS
  Requests = {r1}
  None = none
  MaxTokens = 3
  MaxEvents = 2
INVARIANTS
  GrantNotLost
PROPERTIES
  CallersReturn
  NothingUndone
  DisabledOnlyIfDead
CHECK_DEADLOCK FALSE
