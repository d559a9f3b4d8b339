SPECIFICATION FairSpec
CONSTANTS
  GroupSize = 3
  RoundCount = 3
  Server = 9
  Registrar = 1
  MaxFaults = 1
  Bounds <- MCBounds
INVARIANTS
  GroupTypeOK
  BundleIsWhole
  ChallengePursued
  AckedIsHeld
PROPERTIES
  CompletesUndisturbed
\* Once every client has finished, which rejected bundles bring about, nothing is
\* left to do.
CHECK_DEADLOCK FALSE
