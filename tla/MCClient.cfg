SPECIFICATION EachSpec
CONSTANTS
  Clients = {c1}
  Points = {p, q}
  Corner = corner
  Keys = {k, m}
  None = None
  Reasons = {"Elevated", "SecureDesktop"}
  Endings = {"killed", "stopped"}
  PairServer = "server"
  PairClient = "client"
  MaxKey = 1
  MaxDeeds = 2
  Consoles = {desk, ssh}
  MaxPids = 2
  MaxCommands = 3
  InstallingTrouble = 1
  StandsFor = 2
  BacksOffTo = 30
  MaxStreak = 6
  InFlight = 2
  LookAtMost = 2
  MaxChanges = 3
  MaxSwitches = 2
  Renewals = 1
  PasteCopies = 2
  PasteQuestions = 2
  PasteTrouble = 2
  Room = 1
  MaxMoves = 5
  CaptureTrouble = 1
  NoticedCopies = 2
  NoticedOffers = 1
  NoticingTrouble = 1
  Pasters = {"p"}
  Pieces = 2
  OwnerOffers = 3
  OwnerCopies = 1
  OwnerPastes = 2
  Cleaned <- Cleans
  Known <- Folds
  Escapes = {"x:"}
  Landings <- LandingCopies
  Stems = {"a", "A", "b"}
  LandingNumbers = {2, 3}
  LandingPastes = 3
  LandingTrouble = 2
  Nothing = None
  DragHub = "hub"
  DragClients = {"a", "b"}
  DragRoom = 2
  MaxDrags = 2
  MaxHolds = 2
  MaxCross = 3
  DragTrouble = 1
INVARIANTS
  DragIsCarried
  PairedByBoth
  AutomaticNeverClash
  EveryMonitorIsReached
  OneArrangement
  WhatWasThereStays
  PasteKeepsItsWord
  SelectionIsServed
  ReportedAsLeft
  FollowsTheHand
  CopyIsNoticed
PROPERTIES
  NothingSlipsTheRecord
  CornerIsOwedBack
  BacksOff
SYMMETRY ConsoleSymmetry
CONSTRAINT Unexcepted
CHECK_DEADLOCK FALSE
