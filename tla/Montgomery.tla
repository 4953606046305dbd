----------------------------- MODULE Montgomery -----------------------------
(***************************************************************************)
(* Machine words and Montgomery arithmetic of the Yul precompiles.         *)
(*                                                                         *)
(* The code works on 256-bit words; here a word is a number in 0..R-1 and  *)
(* R = 2^256 is the CONSTANT.  The three precompile families carry three   *)
(* texts of the same arithmetic:                                           *)
(*   Variant = "bn"  EcAdd, EcMul, EcAddG2, EcMulG2, EcPairing: the        *)
(*                   modulus leaves spare bits and no carry is looked at;  *)
(*   Variant = "r1"  P256VERIFY: two carries kept and tested at the end;   *)
(*   Variant = "k1"  secp256k1VERIFY: carries folded into the running sum. *)
(* The modulus n, its negated inverse nPrime and r2 = R^2 mod n are        *)
(* parameters of every operator, as in P256VERIFY and secp256k1VERIFY (the *)
(* alt_bn128 texts hard-wire them).                                        *)
(***************************************************************************)
EXTENDS Integers

CONSTANTS
  R,        \* number of machine words, 2^256 in the code
  Variant   \* which text of the arithmetic: "bn", "r1" or "k1"

ASSUME WordAssumption == R \in Nat /\ R > 1 /\ R % 2 = 0

ASSUME VariantAssumption == Variant \in {"bn", "r1", "k1"}

Word == 0 .. (R - 1)

\* x = 0 (mod d), for a positive d.
Divides(d, x) == x % d = 0

-----------------------------------------------------------------------------
(***************************************************************************)
(* EVM opcodes.                                                            *)
(***************************************************************************)
add(a, b) == (a + b) % R
sub(a, b) == (a - b) % R
mul(a, b) == (a * b) % R
addmod(a, b, n) == (a + b) % n

getHighestHalfOfMultiplication(a, b) == (a * b) \div R

\* <<sum, overflowed>>
overflowingAdd(augend, addend) ==
  LET sum == add(augend, addend) IN <<sum, sum < augend>>

\* The most significant bit of a word, 1 << 255 in the code.
mask == R \div 2

-----------------------------------------------------------------------------
(***************************************************************************)
(* The Montgomery reduction, one operator per text.                        *)
(***************************************************************************)
REDC_bn(lowestHalfOfT, higherHalfOfT, n, nPrime) ==
  LET m          == mul(lowestHalfOfT, nPrime)
      overflowed == overflowingAdd(lowestHalfOfT, mul(m, n))[2]
      sum        == add(higherHalfOfT, getHighestHalfOfMultiplication(m, n))
      hi         == IF overflowed THEN add(sum, 1) ELSE sum
  IN  IF hi >= n THEN sub(hi, n) ELSE hi

\* Mutant: neither carry is looked at.
REDC_r1_dropsCarry(TLo, THi, n, nPrime) ==
  LET m   == mul(TLo, nPrime)
      sum == add(THi, getHighestHalfOfMultiplication(m, n))
      tHi == IF overflowingAdd(TLo, mul(m, n))[2] THEN add(sum, 1) ELSE sum
  IN  IF tHi >= n THEN sub(tHi, n) ELSE tHi

REDC_r1(TLo, THi, n, nPrime) ==
  LET m     == mul(TLo, nPrime)
      first == overflowingAdd(THi, getHighestHalfOfMultiplication(m, n))
      aLo   == overflowingAdd(TLo, mul(m, n))
      last  == IF aLo[2] THEN overflowingAdd(first[1], 1)
                         ELSE <<first[1], FALSE>>
      tHi   == last[1]
  IN  IF first[2] \/ last[2] \/ tHi >= n THEN sub(tHi, n) ELSE tHi

\* Mutant: the first carry is overwritten by the second addition.
REDC_k1_dropsCarry(TLo, THi, n, nPrime) ==
  LET m      == mul(TLo, nPrime)
      first  == overflowingAdd(THi, getHighestHalfOfMultiplication(m, n))
      aLo    == overflowingAdd(TLo, mul(m, n))
      second == IF aLo[2] THEN overflowingAdd(first[1], 1)
                          ELSE <<first[1], FALSE>>
      tHi    == IF second[2] THEN add(second[1], sub(0, n)) ELSE second[1]
  IN  IF tHi >= n THEN sub(tHi, n) ELSE tHi

\* The overflow flag is overwritten by the second addition, so the first
\* carry is resolved at once by adding 2^256 - n.
REDC_k1(TLo, THi, n, nPrime) ==
  LET m      == mul(TLo, nPrime)
      first  == overflowingAdd(THi, getHighestHalfOfMultiplication(m, n))
      aLo    == overflowingAdd(TLo, mul(m, n))
      folded == IF first[2] THEN add(first[1], sub(0, n)) ELSE first[1]
      second == IF aLo[2] THEN overflowingAdd(folded, 1)
                          ELSE <<folded, first[2]>>
      tHi    == IF second[2] THEN add(second[1], sub(0, n)) ELSE second[1]
  IN  IF tHi >= n THEN sub(tHi, n) ELSE tHi

\* What a reduction promises for T = THi*R + TLo < n*R: S = T/R (mod n),
\* reduced.
IsReductionOf(S, TLo, THi, n) ==
  S \in 0 .. (n - 1) /\ Divides(n, S * R - (THi * R + TLo))

REDC(TLo, THi, n, nPrime) ==
  CASE Variant = "bn" -> REDC_bn(TLo, THi, n, nPrime)
    [] Variant = "r1" -> REDC_r1(TLo, THi, n, nPrime)
    [] Variant = "k1" -> REDC_k1(TLo, THi, n, nPrime)

-----------------------------------------------------------------------------
(***************************************************************************)
(* Field operations on words in Montgomery form.                           *)
(***************************************************************************)
montgomeryMul(multiplicand, multiplier, n, nPrime) ==
  REDC(mul(multiplicand, multiplier),
       getHighestHalfOfMultiplication(multiplicand, multiplier), n, nPrime)

intoMontgomeryForm(a, n, nPrime, r2) ==
  REDC(mul(a, r2), getHighestHalfOfMultiplication(a, r2), n, nPrime)

outOfMontgomeryForm(m, n, nPrime) == REDC(m, 0, n, nPrime)

montgomeryAdd(augend, addend, n) ==
  IF Variant = "bn"
    THEN LET ret == add(augend, addend)
         IN  IF ret >= n THEN sub(ret, n) ELSE ret
    ELSE addmod(augend, addend, n)

montgomerySub(minuend, subtrahend, n) ==
  montgomeryAdd(minuend, sub(n, subtrahend), n)

(***************************************************************************)
(* One halving of a coefficient of the binary extended Euclidean           *)
(* algorithm modulo n: x/2 when x is even, (x+n)/2 otherwise.  The "bn"    *)
(* text drops the carry of x+n; the others put it back as the top bit, but *)
(* only when n has no spare bit.                                           *)
(***************************************************************************)
modulusHasSpareBits(n) == n < mask

\* Mutant: the carry of x+n is not put back.
halveCoefficient_dropsCarry(x, n) ==
  IF x % 2 = 0 THEN x \div 2 ELSE add(x, n) \div 2

halveCoefficient(x, n) ==
  LET sum == overflowingAdd(x, n) IN
  IF x % 2 = 0
    THEN x \div 2
    ELSE IF Variant # "bn" /\ ~modulusHasSpareBits(n) /\ sum[2]
           THEN sum[1] \div 2 + mask
           ELSE sum[1] \div 2

\* x - y modulo n for coefficients, adding n first when it would go negative.
subtractCoefficient(x, y, n) ==
  sub(IF x < y THEN add(x, n) ELSE x, y)

(***************************************************************************)
(* The result of binaryExtendedEuclideanAlgorithm for a non-zero a, as     *)
(* module BinaryInverse shows it step by step: the reduced inv with        *)
(* a*inv = R^2 (mod n).  A call with a = 0 never returns; callers that     *)
(* model it must say so.                                                   *)
(***************************************************************************)
montgomeryModularInverse(a, n, r2) ==
  CHOOSE inv \in 0 .. (n - 1) : Divides(n, a * inv - r2)

montgomeryDiv(dividend, divisor, n, nPrime, r2) ==
  montgomeryMul(dividend, montgomeryModularInverse(divisor, n, r2), n, nPrime)
=============================================================================
