SPECIFICATION FairSpec
CONSTANTS
  GroupSize = 3
  RoundCount = 3
  Server = 9
  MaxFaults = 1
  MaxMissing = 1
INVARIANTS
  ReadyTypeOK
  BundleIsWhole
  StartsTogether
  NothingLeftToSubmit
  StallsInSendOrder
PROPERTIES
  CompletesWhenSwapped
