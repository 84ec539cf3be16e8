SPECIFICATION Spec
CONSTANTS
  Requests = {r1, r2}
  Nobody = nobody
  Admin = admin
  Limits = {0, 1}
  MaxConns = 1
  QueueCap = 1
  MaxRequests = 4
  MaxDay = 1
  MaxEdits = 1
SYMMETRY Symmetry
INVARIANTS
  PlacesAreHeld
  MapsCoverLedger
  OvershootBounded
  RevocationHolds
CHECK_DEADLOCK FALSE
