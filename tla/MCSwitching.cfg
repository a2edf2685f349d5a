SPECIFICATION Spec
CONSTANTS
  Local = local
  a = a
  b = b
  here = here
  Clients = {a, b}
  Points <- Desk
  Screens <- Rects
  Home <- Sides
  Keys = {k}
  None = None
  Corner = corner
  Reasons = {}
  Endings = {}
  ControlMax = 1
  MotionMax = 1
  WireMax = 1
  UpMax = 1
SYMMETRY Interchangeable
INVARIANTS
  NothingSticks
  PointerIsGivenBack
  EveryoneAgrees
