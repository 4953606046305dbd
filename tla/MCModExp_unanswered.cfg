SPECIFICATION Spec
CONSTANTS
    BYTE_SIZE_IN_BITS = 1
    LIMB_SIZE_IN_BYTES = 2
    MaxOperandLen = 4
    MaxExpLen = 3
    Calls <- SmallCalls
INVARIANTS
    AnswersAll
