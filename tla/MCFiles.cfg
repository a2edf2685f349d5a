SPECIFICATION Spec
CONSTANTS
  Hub = hub
  Devices = {hub, a, b}
  Copies <- TwoCopies
  MaxPieces = 3
  Kept = 1
  Shared = FALSE
  MaxPastes = 2
  MaxFailures = 1
  None = None
INVARIANTS
  WholeOrNothing
PROPERTIES
  PullsEnd
CHECK_DEADLOCK FALSE
