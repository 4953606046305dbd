SPECIFICATION Spec
CONSTANTS
  R = 32
  Bits = 5
  Variant = "r1"
  P = 23
  A = 20
  B = 15
  N = 17
  P_PRIME = 25
  R2_MOD_P = 12
  N_PRIME = 15
  R2_MOD_N = 4
  G <- MCG_r1
  Hashes <- MCHashes
  Signatures <- MCSignatures
  Keys <- MCKeys
INVARIANTS
  AccumulatorTracksCombination
  AcceptsExactlyValid
  BurnsExactlyMalformed
  AnswersWellFormed
