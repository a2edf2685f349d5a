SPECIFICATION Spec
CONSTANTS
  Default = Default
  Desktops = {Default, Winlogon}
  GiveUpAfter = 2
  MaxTrouble = 1
  None = None
  Room = 1
  Daemon = "daemon"
  Voices = {"daemon"}
  Minder = "minder"
INVARIANTS
  WorkerIsAsTold
PROPERTIES
  DefaultIsGivenUp
  FollowsInput
CHECK_DEADLOCK FALSE
