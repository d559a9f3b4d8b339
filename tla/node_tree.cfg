SPECIFICATION Spec
CONSTANTS
  Tx = {t1}
  GenesisHash = 9
  ZeroHash = 0
  Difficulty = 1
  PendingCap = 2
  N = 4
  Worlds <- MCWorlds
INVARIANTS
  TypeOK
  ChainIsPathToTip
  TipIsBest
  NoOrphanWithKnownParent
  BufferedIsNotStored
  ConfirmedIsOnChain
PROPERTIES
  AcceptedTxKept
