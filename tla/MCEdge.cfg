SPECIFICATION EdgeSpec
CONSTANTS
  Local = local
  Clients = {a, b}
  Points <- Desk
  Screens <- Rects
  Keys = {}
  Delays = {2}
  Windows = {0, 1}
  MaxAge = 2
  None = None
PROPERTIES
  RestsBeforeCrossing
  HeldEdgeSettles
