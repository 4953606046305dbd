SPECIFICATION MCSpec
CONSTANTS
  transfer = transfer
  burn = burn
  approval = approval
  sync = sync
  None = none
  Selectors = {transfer, burn}
  Topics = {approval, sync}
  KnownSignatures = {transfer, approval}
  Listed <- MCListed
  Slots = {1, 2}
  FreeSlots = {2}
  WriteCosts = {1, 2, 3}
  GasRuns <- MCGasRuns
  TRUSTED_GAS_LIMIT = 7
  INTRINSIC_OVERHEAD = 1
  NEAR_CALL_COST = 1
  MaxItems = 3
  U32 = 256
  MAX_L2_TX_GAS_LIMIT = 90
  OVERESTIMATION = 4
  scale <- MCscale
  derive_overhead <- MCoverhead
  PUBLISH_BYTE_OVERHEAD = 2
  MAX_PUBDATA_PER_BLOCK = 18
  MAX_GAS_PER_PUBDATA_BYTE = 12
  L2_GAS_PRICE = 5
  L1_GAS_PER_PUBDATA_BYTE = 3
  L1Prices = {0, 4, 10, 40}
  PubdataLimits = {0, 1, 2, 5, 12}
  Lengths = {0, 4, 12, 15, 16, 17}
  Needs <- MCNeeds
INVARIANTS
  PubdataWithinLimit
  EstimateIsTight
  RefusesOnlyUnexecutable
  GasDetailsAddUp
  PaymentsCoverTotal
  DirectoryAnswersOnce
PROPERTY
  Terminates
