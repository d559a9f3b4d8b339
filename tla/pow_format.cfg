SPECIFICATION Spec
CONSTANTS
  ByteBits = 2
  HashWidth = 2
  LongWidth = 2
  IntWidth = 1
  Node = {1, 2}
  Miner = 1
  Target = 3
  Chunk = 3
  Digest <- MCDigest
  Now <- MCNow
  Foreign <- MCForeign
  Bounds <- MCBounds
INVARIANTS
  PowTypeOK
  MinedMeetsTarget
  LabMeetsTarget
  HashNamesHeader
  RelayFaithful
  ServedIsTaken
PROPERTIES
  NothingSkipped
