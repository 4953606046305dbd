SPECIFICATION Spec
CONSTANTS
  R = 32
  Bits = 5
  Variant = "k1"
  P = 19
  A = 0
  B = 2
  N = 13
  P_PRIME = 5
  R2_MOD_P = 17
  N_PRIME = 27
  R2_MOD_N = 10
  G <- MCG_k1
  Hashes <- MCHashes
  Signatures <- MCSignatures
  Keys <- MCKeys
INVARIANTS
  AnswersWellFormed
