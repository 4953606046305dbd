SPECIFICATION MCSpec
CONSTANTS
  R = 32
  Variant = "r1"
  modulus = 29
  nPrime = 11
  r2 = 9
  bnOrder = 13
  bnPrime = 27
  bnR2 = 10
INVARIANTS
  IInv
  EncodingIsFaithfulInAll
PROPERTIES
  RemaindersDecrease
  Terminates
  ImplementsField
CHECK_DEADLOCK FALSE
