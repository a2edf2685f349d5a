SPECIFICATION Spec
CONSTANTS
  Local = local
  a = a
  b = b
  Clients = {a, b}
  Points <- Desk
  Screens <- Rects
  Keys = {k}
  Delays = {0, 2}
  Windows = {0, 1}
  MaxAge = 2
  None = None
SYMMETRY Interchangeable
INVARIANTS
  TypeOK
  ModeFollowsCursor
PROPERTIES
  CursorStaysUnderHolder
  LeavingIsSaid
  KeepsFocus
