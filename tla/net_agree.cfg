SPECIFICATION FairSpec
CONSTANTS
  Tx = {t1}
  GenesisHash = 9
  ZeroHash = 0
  Difficulty = 1
  PendingCap = 1
  Node = {n1, n2, n3}
  Server = server
  n1 = n1
  n2 = n2
  n3 = n3
  Window = 1
  Batch = 1
  Reliable = TRUE
  Settings <- MCAgree
PROPERTIES
  Convergence
  TxSpreads
