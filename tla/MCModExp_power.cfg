SPECIFICATION Spec
CONSTANTS
    BYTE_SIZE_IN_BITS = 3
    LIMB_SIZE_IN_BYTES = 1
    MaxOperandLen = 2
    MaxExpLen = 1
    Calls <- MisalignedCalls
INVARIANTS
    ReturnsPower
