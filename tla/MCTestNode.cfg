SPECIFICATION Spec
CONSTANTS
  t1 = t1
  t2 = t2
  t3 = t3
  t4 = t4
  r0 = r0
  r1 = r1
  alice = alice
  bob = bob
  carol = carol
  a1 = a1
  a2 = a2
  topicA = topicA
  topicB = topicB
  NoTransaction = none
  Remote = remote
  Transactions <- MCTransactions
  Sent <- MCSent
  Signed <- MCSigned
  Accounts <- MCAccounts
  Slots <- MCAccounts
  From <- MCFrom
  Nonce <- MCNonce
  Fee <- MCFee
  MaxGas = 1
  L2_GAS_PRICE = 1
  Writes <- MCWrites
  Logs <- MCLogs
  LogFilters <- MCLogFilters
  Input <- MCInput
  RemoteGenesis <- MCRemoteGenesis
  RemoteBlocks <- MCRemoteBlocks
  Starts <- MCStarts
  RichAccounts = {alice}
  RichBalance = 9
  FirstTimestamp = 2
  Millis = 2
  MAX_PREVIOUS_STATES = 1
  MAX_SNAPSHOTS = 2
  Times = {1, 4}
  Deltas = {1}
  Counts = {1, 2}
  Intervals = {0, 1}
  Balances <- MCBalances
  Nonces <- MCNonces
  Codes <- MCCodes
  Bounds <- MCBounds
  MaxFilterId = 1
INVARIANTS
  ChainIsLinked
  ReceiptsMatchChain
  ReplayReachesNetwork
  NodeTracksStorage
  SnapshotsArePasts
  FiltersDeliverOnce
  ArchiveIsExact
  BlockLookupsAgree
  TransactionLookupsAgree
  FilterLogsAgree
PROPERTY
  PanicsOnlyBehind
