--------------------------- MODULE MontgomeryField --------------------------
(***************************************************************************)
(* The field arithmetic as the precompiles use it: calldata words brought  *)
(* into Montgomery form, sums, differences, products and quotients of      *)
(* words in Montgomery form, in any order.  The register `reg` stands for  *)
(* any local of the curve formulas.                                        *)
(***************************************************************************)
EXTENDS Montgomery

CONSTANTS
  n,        \* field or group order: P() or N()
  nPrime,   \* P_PRIME(), N_PRIME(): -n^(-1) mod R
  r2        \* R2_MOD_P(), R2_MOD_N(): R^2 mod n

FieldAssumption ==
  /\ n \in Nat /\ n > 2 /\ n < R /\ (Variant = "bn" => 2 * n <= R)
  /\ \A d \in 2 .. (n - 1) : ~Divides(d, n)

\* The constants of the code that were precomputed in Python.
PrecomputedAssumption ==
  /\ nPrime \in Word /\ (n * nPrime) % R = R - 1
  /\ r2 = (R * R) % n

VARIABLES
  reg,      \* a word in Montgomery form
  last      \* the operation that produced it and its operand

Element == 0 .. (n - 1)

enc(x) == intoMontgomeryForm(x, n, nPrime, r2)

Init == reg = enc(0) /\ last = <<"load", 0>>

-----------------------------------------------------------------------------
\* intoMontgomeryForm of a calldata word.  P256VERIFY and secp256k1VERIFY
\* apply it to the message hash, which may exceed N().
Load == \E w \in Word : last' = <<"load", w>> /\ reg' = enc(w)

Add ==
  \E x \in Element :
    last' = <<"add", x>> /\ reg' = montgomeryAdd(reg, enc(x), n)

Subtract ==
  \E x \in Element :
    last' = <<"sub", x>> /\ reg' = montgomerySub(reg, enc(x), n)

Multiply ==
  \E x \in Element :
    last' = <<"mul", x>> /\ reg' = montgomeryMul(reg, enc(x), n, nPrime)

Divide ==
  \E x \in Element \ {0} :
    last' = <<"div", x>> /\ reg' = montgomeryDiv(reg, enc(x), n, nPrime, r2)

Next == Load \/ Add \/ Subtract \/ Multiply \/ Divide

-----------------------------------------------------------------------------
\* Montgomery form is a bijection onto the field: a reduced word is the
\* encoding of the element it decodes to and of no other, so eq() on words in
\* Montgomery form decides equality of field elements.
EncodingIsFaithful ==
  \A x \in Element :
    (reg = enc(x)) <=> (outOfMontgomeryForm(reg, n, nPrime) = x)

\* The routines implement the field, the register read through
\* outOfMontgomeryForm.
Field == INSTANCE PrimeField
           WITH Words <- Word, value <- outOfMontgomeryForm(reg, n, nPrime)
=============================================================================
