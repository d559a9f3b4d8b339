SPECIFICATION FairSpec
CONSTANTS
  n1 = n1
  n2 = n2
  n3 = n3
  Node <- MCNode
  Settings <- MCSettings
INVARIANTS
  RegistrationTypeOK
  RecordedAfterAllJoined
  RegisteredIsRecorded
PROPERTIES
  StaysRegistered
  RegistersIfNamed
  FallsSilent
\* Once everybody has registered and every datagram is gone, nothing is left to do.
CHECK_DEADLOCK FALSE
