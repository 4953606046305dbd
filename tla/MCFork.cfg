SPECIFICATION MCSpec
CONSTANTS
  networkA = networkA
  networkB = networkB
  txA = txA
  txB = txB
  key1 = key1
  key2 = key2
  hash1 = hash1
  None = none
  Torn = torn
  Keys <- MCKeys
  RemoteValue <- MCRemoteValue
  GenesisState <- MCGenesisState
  GenesisDeps = {}
  Values <- MCValues
  Hashes = {hash1}
  HashOf <- MCHashOf
  EtherKey = key1
  Networks = {networkA, networkB}
  TransactionsOf <- MCTransactionsOf
  Growing = {networkA}
  Pages <- MCPages
  Configs <- MCConfigs
  MaxBlock = 1
  MaxTokens = 1
  MaxInserts = 2
  MaxRuns = 2
CHECK_DEADLOCK FALSE
INVARIANT
  AsksOnce
PROPERTIES
  Reader
  RestartKeepsCache
  CacheNeverRegresses
  ImplementsOverlay
