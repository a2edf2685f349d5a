SPECIFICATION Spec
CONSTANTS
  Cleaned <- Cleans
  Known <- Folds
  Escapes = {}
  Copies <- Two
  Stems = {"a", "A"}
  Numbers <- UpToFive
  MaxPastes = 3
  MaxTrouble = 2
  None = None
INVARIANTS
  EachFileArrives
CHECK_DEADLOCK FALSE
