------------------------------ MODULE MCModExp -------------------------------
(***************************************************************************)
(* Instances of ModExp: calls with every operand up to a length, so that   *)
(* all special cases and alignments occur; and calls with two-limb bases   *)
(* and moduli whose size is not a multiple of the limb's, so that the      *)
(* product fills its limbs and the modulus is shifted by part of a limb.   *)
(***************************************************************************)
EXTENDS ModExp

CONSTANTS MaxOperandLen,   \* bytes of the base and of the modulus
          MaxExpLen        \* bytes of the exponent

Operands(maxLen) == UNION {[1..len -> Byte] : len \in 0..maxLen}

SmallCalls ==
    [base : Operands(MaxOperandLen), exp : Operands(MaxExpLen), mod : Operands(MaxOperandLen)]

MisalignedCalls ==
    {c \in [base : [1..2 -> Byte], exp : [1..1 -> {2, 3, 5}], mod : [1..2 -> Byte]] :
        c.mod[1] \in {2, 3}}
==============================================================================
