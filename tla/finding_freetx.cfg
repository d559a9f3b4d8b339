SPECIFICATION Spec
CONSTANTS
  Tx = {t1}
  GenesisHash = 9
  ZeroHash = 0
  Difficulty = 1
  PendingCap = 9
  N = 2
  Worlds <- MCWorlds
INVARIANTS
  FreeTxNotOnChain
