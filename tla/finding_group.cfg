SPECIFICATION FairSpec
CONSTANTS
  GroupSize = 3
  RoundCount = 3
  Server = 9
  Registrar = 1
  MaxFaults = 0
  Bounds <- MCHasty
PROPERTIES
  RetriesSuffice
CHECK_DEADLOCK FALSE
