SPECIFICATION Spec
CONSTANTS
  Beat = 5
  Look = 2
  Missed = 3
  Delay = 2
  MaySleep = FALSE
  None = None
PROPERTIES
  SilentServerIsGivenUp
