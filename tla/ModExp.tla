------------------------------- MODULE ModExp --------------------------------
(***************************************************************************)
(* ModExp.yul: base^exponent % modulus on operands of any length.          *)
(*                                                                         *)
(* A call carries the three operands as bytes; bytes past the end of the   *)
(* calldata read as zero and are part of the operand.  The fallback first  *)
(* answers the special cases, then lays seven numbers of nLimbs limbs out  *)
(* in memory (base, exponent, modulus, three scratch buffers, result) and  *)
(* runs square-and-multiply over them.  Every remainder is taken by        *)
(* bigUIntRem, restoring division: the modulus is shifted left by bd bits  *)
(* and subtracted, where it fits, while it is shifted back one bit a pass. *)
(*                                                                         *)
(* dividend and exact are history variables: the number whose remainder is *)
(* being taken, and whether every remainder so far has had a counted       *)
(* length that covers its dividend, a shifted modulus that is modulus *    *)
(* 2^bd, and subtractions that lost no borrow.                             *)
(***************************************************************************)
EXTENDS BigUInt

CONSTANT Calls   \* the calls to answer: [base, exp, mod : Seq(Byte)]

(* What the runs assume of their calls. *)
CallsAreRequests ==
    \A c \in Calls : c \in [base : Seq(Byte), exp : Seq(Byte), mod : Seq(Byte)]

VARIABLES call, pc, mem,
          basePtr, scratchBuf3Ptr,   \* flip exchanges these two
          i,                         \* passes through the exponent
          bd, frame,                 \* locals and pointers of bigUIntRem
          reply,
          dividend, exact            \* history

vars == <<call, pc, mem, basePtr, scratchBuf3Ptr, i, bd, frame, reply, dividend, exact>>

(***************************************************************************)
(* Layout.                                                                 *)
(***************************************************************************)
baseLen == Len(call.base)
expLen  == Len(call.exp)
modLen  == Len(call.mod)

(* maxLimbNumber of the fallback, after it is doubled. *)
nLimbs == 2 * Max({bigIntLimbs(baseLen), bigIntLimbs(expLen), bigIntLimbs(modLen)})

baseStartPtr     == 0
exponentStartPtr == nLimbs
moduloStartPtr   == 2 * nLimbs
scratchBuf1Ptr   == 3 * nLimbs
scratchBuf2Ptr   == 4 * nLimbs
resultPtr        == 6 * nLimbs

Number(ptr) == Region(mem, ptr, nLimbs)

modulus == bigUIntPadWithZeros(parseCalldata(call.mod), nLimbs)
modulusBitSize == bigUIntBitSize(modulus)
exponent == bigUIntPadWithZeros(parseCalldata(call.exp), nLimbs)
exponentBitSize == bigUIntBitSize(exponent)

Init ==
    /\ call \in Calls
    /\ pc = "start"
    /\ mem = <<>>
    /\ basePtr = 0 /\ scratchBuf3Ptr = 0
    /\ i = 0 /\ bd = 0
    /\ frame = [tmp_ptr_1 |-> 0, tmp_ptr_2 |-> 0, rem_ptr |-> 0, returnTo |-> "start"]
    /\ reply = <<>>
    /\ dividend = 0 /\ exact = TRUE

(***************************************************************************)
(* The special cases, in the order of the fallback.                        *)
(***************************************************************************)
Answer(bytes) ==
    /\ pc' = "done"
    /\ reply' = bytes
    /\ UNCHANGED <<call, mem, basePtr, scratchBuf3Ptr, i, bd, frame, dividend, exact>>

Zeroes == [k \in 1..modLen |-> 0]
One == [k \in 1..modLen |-> IF k = modLen THEN 1 ELSE 0]     \* mstore8(sub(modLen, 1), 1)

IsEmpty == baseLen = 0 /\ modLen = 0
IsOneLimb == {baseLen, expLen, modLen} = {LIMB_SIZE_IN_BYTES}

ReturnEmpty == pc = "start" /\ IsEmpty /\ Answer(<<>>)

(* oneLimbImplementation: square and multiply with mulmod, from the least  *)
(* significant bit of the exponent up.                                     *)
oneLimbImplementation(base, power, m) ==
    LET bits == UIntBitSize(power)
        squared(acc, odd) ==
            [pow |-> IF odd THEN (acc.pow * acc.base) % m ELSE acc.pow,
             base |-> (acc.base * acc.base) % m]
        acc[done \in 0..bits] ==
            IF done = 0 THEN [pow |-> 1, base |-> base % m]
            ELSE squared(acc[done - 1], (power \div PowerOfTwo[done - 1]) % 2 = 1)
    IN  IF m < 2 \/ base = 0 THEN 0
        ELSE IF base = 1 \/ power = 0 THEN 1
        ELSE acc[bits].pow

ReturnOneLimb ==
    /\ pc = "start" /\ ~IsEmpty /\ IsOneLimb
    /\ Answer(lastBytes(<<oneLimbImplementation(BytesValue(call.base), BytesValue(call.exp),
                                                BytesValue(call.mod))>>, modLen))

ModulusIsTrivial == callDataBufferIsZero(call.mod) \/ callDataBufferIsOne(call.mod)

General == pc = "start" /\ ~IsEmpty /\ ~IsOneLimb

ReturnTrivialModulus == General /\ ModulusIsTrivial /\ Answer(Zeroes)

ReturnBaseOne ==
    General /\ ~ModulusIsTrivial /\ callDataBufferIsOne(call.base) /\ Answer(One)

\* Mutant: a zero exponent is answered with zero.
ReturnExponentZero_answersZero ==
    /\ General /\ ~ModulusIsTrivial /\ ~callDataBufferIsOne(call.base)
    /\ callDataBufferIsZero(call.exp) /\ Answer(Zeroes)

ReturnExponentZero ==
    /\ General /\ ~ModulusIsTrivial /\ ~callDataBufferIsOne(call.base)
    /\ callDataBufferIsZero(call.exp) /\ Answer(One)

ReturnBaseZero ==
    /\ General /\ ~ModulusIsTrivial /\ ~callDataBufferIsZero(call.exp)
    /\ callDataBufferIsZero(call.base) /\ Answer(Zeroes)

(***************************************************************************)
(* Load: parse and pad the operands, and set the result to one.  The       *)
(* modulus is greater than one after the special cases, so the test of     *)
(* bigUIntModularExponentiation always succeeds.                           *)
(***************************************************************************)
Load ==
    /\ General /\ ~ModulusIsTrivial /\ ~callDataBufferIsOne(call.base)
    /\ ~callDataBufferIsZero(call.exp) /\ ~callDataBufferIsZero(call.base)
    /\ bigUIntIsGreaterThanOne(modulus)
    /\ LET zeroes == [a \in 0..(7 * nLimbs - 1) |-> 0]
           based == Store(zeroes, baseStartPtr, bigUIntPadWithZeros(parseCalldata(call.base), nLimbs))
           raised == Store(based, exponentStartPtr, exponent)
           loaded == Store(raised, moduloStartPtr, modulus)
       IN  mem' = Store(loaded, resultPtr, bigUIntInPlaceOrWith1(Region(loaded, resultPtr, nLimbs)))
    /\ basePtr' = baseStartPtr
    /\ scratchBuf3Ptr' = 5 * nLimbs
    /\ pc' = "reduceBase"
    /\ UNCHANGED <<call, i, bd, frame, reply, dividend, exact>>

(***************************************************************************)
(* bigUIntRem up to its loop, on memory m.  When the counted limbs have    *)
(* fewer bits than the modulus, bd wraps to a word next to 2^256 and       *)
(* bigUIntShl fills 2^248 limbs with zeroes: the call runs out of gas.     *)
(***************************************************************************)
bigUIntRem(m, dividend_ptr, tmp_ptr_1, tmp_ptr_2, rem_ptr, returnTo) ==
    LET cleared == zeroWithLimbSizeAt(zeroWithLimbSizeAt(m, nLimbs, tmp_ptr_1), nLimbs, tmp_ptr_2)
        copied == copyBigUint(cleared, nLimbs, dividend_ptr, rem_ptr)
        number == Region(m, dividend_ptr, nLimbs)
        counted == LIMB_SIZE_IN_BITS * bigIntLimbsWithoutZeros(number)
        difference == counted - modulusBitSize
    IN  /\ frame' = [tmp_ptr_1 |-> tmp_ptr_1, tmp_ptr_2 |-> tmp_ptr_2,
                     rem_ptr |-> rem_ptr, returnTo |-> returnTo]
        /\ dividend' = Value(number)
        /\ \/ /\ difference >= 0
              /\ pc' = "rem"
              /\ bd' = difference
              /\ mem' = bigUIntShl(copied, difference, moduloStartPtr, nLimbs, tmp_ptr_1)
              /\ exact' = /\ exact
                          /\ dividend' < PowerOfTwo[counted]
                          /\ Value(Region(mem', tmp_ptr_1, nLimbs)) = Value(modulus) * PowerOfTwo[difference]
           \/ /\ difference < 0
              /\ pc' = "outOfGas"
              /\ mem' = copied
              /\ UNCHANGED <<bd, exact>>

(* No limb of the subtraction the next pass makes loses its borrow. *)
BorrowsAreKept ==
    LET r == bigUIntSubWithBorrow(Number(frame.rem_ptr), Number(frame.tmp_ptr_1))
    IN  Value(r.difference) - r.borrow * PowerOfTwo[LIMB_SIZE_IN_BITS * nLimbs]
            = Value(Number(frame.rem_ptr)) - Value(Number(frame.tmp_ptr_1))

\* Mutant: the difference is kept although there was a borrow.
RemPass_neverRestores ==
    /\ pc = "rem"
    /\ LET r == bigUIntSubWithBorrow(Number(frame.rem_ptr), Number(frame.tmp_ptr_1))
           subtracted == Store(Store(mem, frame.tmp_ptr_2, r.difference), frame.rem_ptr, r.difference)
       IN  /\ exact' = (exact /\ BorrowsAreKept)
           /\ \/ bd = 0 /\ pc' = frame.returnTo /\ mem' = subtracted /\ bd' = bd
              \/ /\ bd > 0 /\ pc' = pc /\ bd' = bd - 1
                 /\ mem' = Store(subtracted, frame.tmp_ptr_1,
                                 bigUIntOneShiftRight(Number(frame.tmp_ptr_1)))
    /\ UNCHANGED <<call, basePtr, scratchBuf3Ptr, i, frame, reply, dividend>>

(* One pass of bigUIntRem's loop; the last one returns to the caller. *)
RemPass ==
    /\ pc = "rem"
    /\ LET r == bigUIntSubWithBorrow(Number(frame.rem_ptr), Number(frame.tmp_ptr_1))
           stored == Store(mem, frame.tmp_ptr_2, r.difference)
           subtracted == IF r.borrow = 0 THEN Store(stored, frame.rem_ptr, r.difference)
                         ELSE stored
       IN  /\ exact' = (exact /\ BorrowsAreKept)
           /\ \/ bd = 0 /\ pc' = frame.returnTo /\ mem' = subtracted /\ bd' = bd
              \/ /\ bd > 0 /\ pc' = pc /\ bd' = bd - 1
                 /\ mem' = Store(subtracted, frame.tmp_ptr_1,
                                 bigUIntOneShiftRight(Number(frame.tmp_ptr_1)))
    /\ UNCHANGED <<call, basePtr, scratchBuf3Ptr, i, frame, reply, dividend>>

(***************************************************************************)
(* bigUIntModularExponentiation.                                           *)
(***************************************************************************)
ReduceBase ==
    /\ pc = "reduceBase"
    /\ bigUIntRem(mem, basePtr, scratchBuf1Ptr, scratchBuf2Ptr, scratchBuf3Ptr, "flip")
    /\ UNCHANGED <<call, basePtr, scratchBuf3Ptr, i, reply>>

flip ==
    /\ pc = "flip"
    /\ basePtr' = scratchBuf3Ptr
    /\ scratchBuf3Ptr' = basePtr
    /\ pc' = "loop"
    /\ UNCHANGED <<call, mem, i, bd, frame, reply, dividend, exact>>

ExponentIsOdd == bigUIntModTwo(Number(exponentStartPtr)) = 1

SkipResult ==
    /\ pc = "loop" /\ i < exponentBitSize /\ ~ExponentIsOdd
    /\ pc' = "square"
    /\ UNCHANGED <<call, mem, basePtr, scratchBuf3Ptr, i, bd, frame, reply, dividend, exact>>

MultiplyResult ==
    /\ pc = "loop" /\ i < exponentBitSize /\ ExponentIsOdd
    /\ LET product == bigUIntMul(bigUIntLowerHalf(Number(resultPtr)),
                                 bigUIntLowerHalf(Number(basePtr)))
       IN  bigUIntRem(Store(mem, scratchBuf1Ptr, product),
                      scratchBuf1Ptr, scratchBuf3Ptr, scratchBuf2Ptr, resultPtr, "square")
    /\ UNCHANGED <<call, basePtr, scratchBuf3Ptr, i, reply>>

\* Mutant: the exponent is not shifted.
SquareBase_keepsExponent ==
    /\ pc = "square"
    /\ LET low == bigUIntLowerHalf(Number(basePtr))
       IN  bigUIntRem(Store(mem, scratchBuf2Ptr, bigUIntMul(low, low)),
                      scratchBuf2Ptr, scratchBuf1Ptr, scratchBuf3Ptr, basePtr, "loop")
    /\ i' = i + 1
    /\ UNCHANGED <<call, basePtr, scratchBuf3Ptr, reply>>

(* The exponent is shifted, the base squared and reduced in place. *)
SquareBase ==
    /\ pc = "square"
    /\ LET low == bigUIntLowerHalf(Number(basePtr))
           shifted == Store(mem, exponentStartPtr, bigUIntOneShiftRight(Number(exponentStartPtr)))
       IN  bigUIntRem(Store(shifted, scratchBuf2Ptr, bigUIntMul(low, low)),
                      scratchBuf2Ptr, scratchBuf1Ptr, scratchBuf3Ptr, basePtr, "loop")
    /\ i' = i + 1
    /\ UNCHANGED <<call, basePtr, scratchBuf3Ptr, reply>>

Finish ==
    pc = "loop" /\ i >= exponentBitSize /\ Answer(lastBytes(Number(resultPtr), modLen))

Terminated == pc \in {"done", "outOfGas"} /\ UNCHANGED vars

Next ==
    \/ ReturnEmpty \/ ReturnOneLimb \/ ReturnTrivialModulus
    \/ ReturnBaseOne \/ ReturnExponentZero \/ ReturnBaseZero
    \/ Load \/ ReduceBase \/ RemPass \/ flip
    \/ SkipResult \/ MultiplyResult \/ SquareBase \/ Finish
    \/ Terminated

Spec == Init /\ [][Next]_vars

-----------------------------------------------------------------------------
(* What is to be computed.  EIP-198 takes a remainder by zero as zero. *)
BaseValue == BytesValue(call.base)
ExpValue  == BytesValue(call.exp)
ModValue  == BytesValue(call.mod)
ToThe(b, e) ==
    LET power[n \in Nat] == IF n = 0 THEN 1 ELSE b * power[n - 1]
    IN  power[e]
Power == IF ModValue = 0 THEN 0 ELSE ToThe(BaseValue, ExpValue) % ModValue

(* The special cases and the loops of bigUIntModularExponentiation answer  *)
(* with the power, in as many bytes as the modulus has, as long as no      *)
(* remainder was taken with a wrong length, a wrong divisor or a lost      *)
(* borrow.  oneLimbImplementation answers 0 for 0^0, the general path 1.   *)
ReturnsPowerWhenExact ==
    pc = "done" /\ exact /\ ~(IsOneLimb /\ BaseValue = 0 /\ ExpValue = 0)
        => Len(reply) = modLen /\ BytesValue(reply) = Power

(* Restoring division: between passes of bigUIntRem's loop the remainder   *)
(* is congruent to the dividend and smaller than twice the shifted         *)
(* modulus, which is modulus * 2^bd; so bd + 1 passes reduce it.           *)
RemainderIsPartial ==
    pc = "rem" /\ exact =>
        LET r == Value(Number(frame.rem_ptr))
        IN  /\ Value(Number(frame.tmp_ptr_1)) = ModValue * PowerOfTwo[bd]
            /\ r % ModValue = dividend % ModValue
            /\ r < ModValue * PowerOfTwo[bd + 1]

(* Whatever bigUIntShl writes past its destination, and whatever the       *)
(* scratch buffers hold, the modulus is not touched and the exponent is    *)
(* the one of the call, shifted once for every pass begun: the loop stops  *)
(* after exactly its bits.                                                 *)
OperandsSurvive ==
    pc \in {"reduceBase", "rem", "flip", "loop", "square"} =>
        /\ Value(Number(moduloStartPtr)) = ModValue
        /\ Value(Number(exponentStartPtr)) = ExpValue \div PowerOfTwo[i]

-----------------------------------------------------------------------------
(* What the repository says of the program, and the code does not do.      *)

(* With gas enough for a computation of this size, every call is answered. *)
AnswersAll == pc # "outOfGas"

(* Every answer is the power, as EIP-198 has it, in as many bytes as the   *)
(* modulus has.                                                            *)
ReturnsPower == pc = "done" => Len(reply) = modLen /\ BytesValue(reply) = Power
==============================================================================
