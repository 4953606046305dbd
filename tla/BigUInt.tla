------------------------------- MODULE BigUInt -------------------------------
(***************************************************************************)
(* The big unsigned integers of ModExp.yul.  A number is a sequence of     *)
(* limbs, most significant first; it lives in a memory of limbs, from the  *)
(* address of its most significant limb on.  Operands are calldata bytes,  *)
(* most significant first.                                                 *)
(*                                                                         *)
(* The functions of the source that stay inside their operands are         *)
(* operators on limb sequences.  bigUIntShl reads one limb past the number *)
(* and writes one limb past its destination, so it is an operator on the   *)
(* memory and keeps the order of its reads and writes.                     *)
(***************************************************************************)
EXTENDS Integers, Sequences, FiniteSets, SequencesExt

CONSTANTS BYTE_SIZE_IN_BITS,   \* 8 in the EVM
          LIMB_SIZE_IN_BYTES   \* 0x20 in the source

(* What the runs assume of the sizes. *)
SizesArePositive ==
    /\ BYTE_SIZE_IN_BITS \in Nat \ {0}
    /\ LIMB_SIZE_IN_BYTES \in Nat \ {0}

LIMB_SIZE_IN_BITS == BYTE_SIZE_IN_BITS * LIMB_SIZE_IN_BYTES

PowerOfTwo[n \in Nat] == IF n = 0 THEN 1 ELSE 2 * PowerOfTwo[n - 1]

ByteBase == PowerOfTwo[BYTE_SIZE_IN_BITS]
Byte == 0..(ByteBase - 1)
LimbBase == PowerOfTwo[LIMB_SIZE_IN_BITS]
Limb == 0..(LimbBase - 1)

(* The numbers that sequences of bytes and of limbs stand for. *)
digitsValue(digits, radix) ==
    LET prefix[k \in 0..Len(digits)] == IF k = 0 THEN 0 ELSE prefix[k - 1] * radix + digits[k]
    IN  prefix[Len(digits)]

BytesValue(bytes) == digitsValue(bytes, ByteBase)
Value(limbs) == digitsValue(limbs, LimbBase)

(***************************************************************************)
(* Memory.                                                                 *)
(***************************************************************************)
Region(mem, ptr, nLimbs) == [k \in 1..nLimbs |-> mem[ptr + k - 1]]

Store(mem, ptr, limbs) ==
    [a \in DOMAIN mem |->
        IF a \in ptr..(ptr + Len(limbs) - 1) THEN limbs[a - ptr + 1] ELSE mem[a]]

zeroWithLimbSizeAt(mem, nLimbs, toAddress) ==
    Store(mem, toAddress, [k \in 1..nLimbs |-> 0])

copyBigUint(mem, nLimbs, fromAddress, toAddress) ==
    Store(mem, toAddress, Region(mem, fromAddress, nLimbs))

(***************************************************************************)
(* Words.                                                                  *)
(***************************************************************************)
overflowingAdd(augend, addend) ==
    LET sum == (augend + addend) % LimbBase
    IN  [sum |-> sum, overflowed |-> IF sum < augend THEN 1 ELSE 0]

(* The sum of the subtrahend and the borrow is itself a word: it wraps to  *)
(* zero when the subtrahend is the largest word.                           *)
overflowingSubWithBorrow(minuend, subtrahend, borrow) ==
    LET difference == (minuend - ((subtrahend + borrow) % LimbBase)) % LimbBase
    IN  [difference |-> difference,
         overflowed |-> IF difference > minuend THEN 1 ELSE 0]

getHighestHalfOfMultiplication(multiplicand, multiplier) ==
    (multiplicand * multiplier) \div LimbBase

UIntBitSize(number) == CHOOSE b \in 0..LIMB_SIZE_IN_BITS :
                          /\ number < PowerOfTwo[b]
                          /\ b > 0 => number >= PowerOfTwo[b - 1]

(***************************************************************************)
(* Numbers.                                                                *)
(***************************************************************************)
(* From the least significant limb up, handing the borrow on. *)
bigUIntSubWithBorrow(minuend, subtrahend) ==
    LET n == Len(minuend)
        subtracted(k, b) == overflowingSubWithBorrow(minuend[k], subtrahend[k], b)
        borrow[done \in 0..n] ==
            IF done = 0 THEN 0 ELSE subtracted(n - done + 1, borrow[done - 1]).overflowed
    IN  [difference |-> [k \in 1..n |-> subtracted(k, borrow[n - k]).difference],
         borrow |-> borrow[n]]

(* One limb of the multiplicand times one of the multiplier. *)
mulLimb(acc, position, x, y) ==
    LET low == overflowingAdd((x * y) % LimbBase, acc.carry)
        word == overflowingAdd(acc.product[position], low.sum)
    IN  [product |-> [acc.product EXCEPT ![position] = word.sum],
         carry |-> getHighestHalfOfMultiplication(x, y) + low.overflowed + word.overflowed]

(* Schoolbook multiplication into twice as many limbs. *)
bigUIntMul(multiplicand, multiplier) ==
    LET n == Len(multiplicand)
        row(i, product) ==
            LET acc[done \in 0..n] ==
                    IF done = 0 THEN [product |-> product, carry |-> 0]
                    ELSE LET j == n - done + 1
                         IN  mulLimb(acc[done - 1], i + j, multiplicand[i], multiplier[j])
            IN  [acc[n].product EXCEPT ![i] = acc[n].carry]
        rows[done \in 0..n] ==
            IF done = 0 THEN [k \in 1..(2 * n) |-> 0] ELSE row(n - done + 1, rows[done - 1])
    IN  rows[n]

bigUIntBitSize(limbs) ==
    LET n == Len(limbs)
        leading == SelectInSeq(limbs, LAMBDA l : l # 0)   \* 0 when there is none
    IN  IF leading = 0 THEN 0
        ELSE (n - leading) * LIMB_SIZE_IN_BITS + UIntBitSize(limbs[leading])

bigUIntOneShiftRight(limbs) ==
    [k \in 1..Len(limbs) |->
        (limbs[k] \div 2)
        + (IF k > 1 THEN (limbs[k - 1] % 2) * (LimbBase \div 2) ELSE 0)]

bigUIntInPlaceOrWith1(limbs) ==
    [k \in 1..Len(limbs) |->
        IF k = Len(limbs) /\ limbs[k] % 2 = 0 THEN limbs[k] + 1 ELSE limbs[k]]

bigUIntIsGreaterThanOne(limbs) ==
    \/ Last(limbs) > 1
    \/ \E k \in 1..(Len(limbs) - 1) : limbs[k] > 0

bigUIntModTwo(limbs) == Last(limbs) % 2

bigUIntLowerHalf(limbs) == SubSeq(limbs, (Len(limbs) \div 2) + 1, Len(limbs))

(* How many limbs are not zero, wherever they are. *)
bigIntLimbsWithoutZeros(limbs) == Cardinality({k \in 1..Len(limbs) : limbs[k] # 0})

(***************************************************************************)
(* bigUIntShl.  The writes are made one by one, from the most significant  *)
(* limb down, because the limb it reads past the end of the number may be  *)
(* the first limb it wrote.                                                *)
(***************************************************************************)
bigUIntShl(mem, times, numberPtr, nLimbs, shiftedPtr) ==
    LET effectiveShifts == times % LIMB_SIZE_IN_BITS
        b_inv == LIMB_SIZE_IN_BITS - effectiveShifts
        limbsToShiftOut == times \div LIMB_SIZE_IN_BITS
        kept == nLimbs - limbsToShiftOut
        shiftLimb(m, k) ==
            [m EXCEPT ![shiftedPtr + k - 1] =
                (m[numberPtr + limbsToShiftOut + k] \div PowerOfTwo[b_inv])
                + ((m[numberPtr + limbsToShiftOut + k - 1] * PowerOfTwo[effectiveShifts]) % LimbBase)]
        written[k \in 0..kept] == IF k = 0 THEN mem ELSE shiftLimb(written[k - 1], k)
        shifted == written[kept]
        lastLimb == (shifted[shiftedPtr + kept] * PowerOfTwo[effectiveShifts]) % LimbBase
    IN  IF effectiveShifts = 0
        THEN zeroWithLimbSizeAt(
                copyBigUint(mem, kept, numberPtr + limbsToShiftOut, shiftedPtr),
                limbsToShiftOut, shiftedPtr + kept)
        ELSE zeroWithLimbSizeAt([shifted EXCEPT ![shiftedPtr + kept] = lastLimb],
                                limbsToShiftOut, shiftedPtr + kept + 1)

(***************************************************************************)
(* Calldata to limbs and back.                                             *)
(***************************************************************************)
bigIntLimbs(length) ==
    (length \div LIMB_SIZE_IN_BYTES) + (IF length % LIMB_SIZE_IN_BYTES = 0 THEN 0 ELSE 1)

(* The most significant limb takes the bytes that do not fill a limb. *)
parseCalldata(bytes) ==
    LET limbs == bigIntLimbs(Len(bytes))
        end(k) == Len(bytes) - LIMB_SIZE_IN_BYTES * (limbs - k)
        start(k) == IF k = 1 THEN 1 ELSE end(k) - LIMB_SIZE_IN_BYTES + 1
    IN  [k \in 1..limbs |-> BytesValue(SubSeq(bytes, start(k), end(k)))]

bigUIntPadWithZeros(limbs, newLimbNumber) ==
    LET pad == newLimbNumber - Len(limbs)
    IN  [k \in 1..newLimbNumber |-> IF k <= pad THEN 0 ELSE limbs[k - pad]]

(* The last len bytes of a number in memory. *)
lastBytes(limbs, len) ==
    [k \in 1..len |->
        LET fromEnd == len - k
            limb == limbs[Len(limbs) - (fromEnd \div LIMB_SIZE_IN_BYTES)]
        IN  (limb \div PowerOfTwo[BYTE_SIZE_IN_BITS * (fromEnd % LIMB_SIZE_IN_BYTES)]) % ByteBase]

(* callDataBufferIsZero and callDataBufferIsOne. *)
callDataBufferIsZero(bytes) == \A k \in 1..Len(bytes) : bytes[k] = 0

callDataBufferIsOne(bytes) ==
    Len(bytes) > 0 /\ Last(bytes) = 1 /\ callDataBufferIsZero(Front(bytes))
==============================================================================
