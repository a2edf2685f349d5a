SPECIFICATION Spec
CONSTANTS
  Local = local
  a = a
  b = b
  here = here
  Clients = {a}
  Points <- Desk
  Screens <- Wide
  Home <- WideSides
  Keys = {k}
  None = None
  Corner = corner
  Reasons = {"SecureDesktop"}
  Endings = {}
  ControlMax = 2
  MotionMax = 1
  WireMax = 1
  UpMax = 1
INVARIANTS
  LetGoWhenNotInCharge
