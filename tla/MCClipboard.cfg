SPECIFICATION Spec
CONSTANTS
  Hub = hub
  Devices = {hub, a, b}
  MaxCopies = 2
  Formats = {text}
  None = None
  MaxBytes = 2
  Sizes <- TwoThenOne
  MaxEvents = 2
  MaxFailures = 1
INVARIANTS
  PastesWhatWasCopied
  CopiesSpread
  NothingOfThePast
  NobodyWaitsInVain
PROPERTIES
  EveryPasteEnds
CHECK_DEADLOCK FALSE
