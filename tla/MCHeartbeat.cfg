SPECIFICATION EachSpec
CONSTANTS
  Beat = 5
  Look = 2
  Missed = 3
  Delay = 2
  MaySleep = TRUE
  None = None
INVARIANTS
  LiveLinkIsKept
PROPERTIES
  SilentMachineIsLetGo
  SuspensionEnds
  ReaderIsThere
CHECK_DEADLOCK FALSE
