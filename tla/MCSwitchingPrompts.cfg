SPECIFICATION Spec
CONSTANTS
  Local = local
  a = a
  b = b
  here = here
  Clients = {a}
  Points <- Near
  Screens <- NearRects
  Home <- NearSide
  Keys = {k}
  None = None
  Corner = corner
  Reasons = {"Elevated", "SecureDesktop"}
  Endings = {"killed", "stopped"}
  ControlMax = 1
  MotionMax = 1
  WireMax = 1
  UpMax = 1
PROPERTIES
  CursorComesHome
  HolderComesToAct
