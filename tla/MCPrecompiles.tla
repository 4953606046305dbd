--------------------------- MODULE MCPrecompiles ----------------------------
(***************************************************************************)
(* Calls of EcMul, EcAdd and ModExp.  The two curve contracts are called   *)
(* on the curve of 13 points over the field of 19 elements with 6-bit      *)
(* words: every scalar of the word (almost five times the group order),    *)
(* every coordinate of the field, the first one outside it and the largest *)
(* word.  ModExp is called with every operand up to a length, so that all  *)
(* its special cases and alignments occur.                                 *)
(***************************************************************************)
EXTENDS EcMul, EcAdd

CONSTANTS BYTE_SIZE_IN_BITS, LIMB_SIZE_IN_BYTES, Calls,
          MaxOperandLen,   \* bytes of the base and of the modulus
          MaxExpLen        \* bytes of the exponent

VARIABLES
  call, expPc, mem, basePtr, scratchBuf3Ptr, i, bd, frame, reply,
  dividend, exact        \* a call of ModExp

Exp == INSTANCE ModExp WITH pc <- expPc

ASSUME ModExpAssumption == Exp!SizesArePositive /\ Exp!CallsAreRequests

(* The tables of the field operations are what the texts compute.         *)
ASSUME TablesAssumption == FieldOperations

MCCoordinates == 0 .. P \cup {R - 1}
MCScalars == Word

Operands(maxLen) == UNION {[1 .. len -> 0 .. (2^BYTE_SIZE_IN_BITS - 1)] : len \in 0 .. maxLen}

MCCalls ==
  [base : Operands(MaxOperandLen), exp : Operands(MaxExpLen), mod : Operands(MaxOperandLen)]

-----------------------------------------------------------------------------
expVars == <<call, expPc, mem, basePtr, scratchBuf3Ptr, i, bd, frame, reply, dividend, exact>>

NoMul == /\ x = 0 /\ y = 0 /\ k = 0 /\ scalar = 0 /\ q = ZeroPoint /\ r = ZeroPoint
         /\ pc = "other contract" /\ result = <<>>
NoAdd == x1 = 0 /\ y1 = 0 /\ x2 = 0 /\ y2 = 0 /\ sum = Running
NoExp == /\ call = [base |-> <<>>, exp |-> <<>>, mod |-> <<>>] /\ expPc = "other contract"
         /\ mem = <<>> /\ basePtr = 0 /\ scratchBuf3Ptr = 0 /\ i = 0 /\ bd = 0
         /\ frame = <<>> /\ reply = <<>> /\ dividend = 0 /\ exact = TRUE

MCInit ==
  \/ Init /\ NoAdd /\ NoExp
  \/ NoMul /\ AddInit /\ NoExp
  \/ NoMul /\ NoAdd /\ Exp!Init

MCNext ==
  \/ Next /\ UNCHANGED <<addVars, expVars>>
  \/ pc = "other contract" /\ expPc = "other contract" /\ AddNext /\ UNCHANGED <<vars, expVars>>
  \/ Exp!Next /\ UNCHANGED <<vars, addVars>>

MCSpec == MCInit /\ [][MCNext]_<<vars, addVars, expVars>>

-----------------------------------------------------------------------------
(* ModExp answers with the power as long as no remainder was spoilt.       *)
ReturnsPowerWhenExact == Exp!ReturnsPowerWhenExact

(* bigUIntRem's remainder stays congruent to its dividend, and bounded.    *)
RemainderIsPartial == Exp!RemainderIsPartial

(* The modulus and the exponent survive the stray writes of bigUIntShl.    *)
OperandsSurvive == Exp!OperandsSurvive
=============================================================================
