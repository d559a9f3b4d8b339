SPECIFICATION Spec
CONSTANTS
  Tx = {t1}
  GenesisHash = 9
  ZeroHash = 0
  Difficulty = 1
  PendingCap = 9
  N = 4
  Worlds <- MCSpoiltWorlds
PROPERTIES
  ImplementsLedger
