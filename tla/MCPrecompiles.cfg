SPECIFICATION MCSpec
CONSTANTS
  R = 64
  Variant = "bn"
  P = 19
  A = 0
  B = 3
  N = 13
  N_PRIME = 37
  R2_MOD_P = 11
  Coordinates <- MCCoordinates
  Scalars <- MCScalars
  BYTE_SIZE_IN_BITS = 1
  LIMB_SIZE_IN_BYTES = 2
  MaxOperandLen = 4
  MaxExpLen = 3
  Calls <- MCCalls
INVARIANTS
  AccumulatorTracksProduct
  ReturnsGroupProduct
  ReturnsGroupSum
  ReturnsPowerWhenExact
  RemainderIsPartial
  OperandsSurvive
