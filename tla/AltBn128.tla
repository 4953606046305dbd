------------------------------ MODULE AltBn128 ------------------------------
(***************************************************************************)
(* What EcAdd and EcMul share: arithmetic of the alt_bn128 base field with *)
(* its hard-wired constants, the checks on calldata, and projective        *)
(* points.  Points in Montgomery form are tuples of words.                 *)
(***************************************************************************)
EXTENDS Montgomery, WeierstrassGroup

CONSTANTS
  N_PRIME,      \* -P^(-1) mod R
  R2_MOD_P,     \* R^2 mod P
  Coordinates   \* the calldata words considered

\* The curve is y^2 = x^3 + 3 and P() has spare bits.
ASSUME AltBn128Assumption ==
  /\ A = 0 /\ B = 3
  /\ Variant = "bn" /\ 2 * P <= R
  /\ N_PRIME \in Word /\ (P * N_PRIME) % R = R - 1
  /\ R2_MOD_P = (R * R) % P

ASSUME CoordinatesAssumption == Coordinates \subseteq Word

MONTGOMERY_ONE   == R % P
MONTGOMERY_THREE == (3 * R) % P
MONTGOMERY_B3    == (9 * R) % P

(***************************************************************************)
(* The field operations, tabulated over reduced operands by what they      *)
(* compute: a word x stands for the element x/R.  FieldOperations says     *)
(* that the texts of module Montgomery compute just that: TablesAreExact   *)
(* of AltBn128Proofs is the proof.                                         *)
(***************************************************************************)
R_INVERSE == CHOOSE z \in F : (R * z) % P = 1

additions == [pair \in F \X F |-> (pair[1] + pair[2]) % P]
subtractions == [pair \in F \X F |-> (pair[1] - pair[2]) % P]
multiplications == [pair \in F \X F |-> (pair[1] * pair[2] * R_INVERSE) % P]

mAdd(a, b) == additions[<<a, b>>]
mSub(a, b) == subtractions[<<a, b>>]
mMul(a, b) == multiplications[<<a, b>>]
mInv == [a \in F \ {0} |-> CHOOSE i \in F : (a * i - R * R) % P = 0]
into == [a \in F |-> (a * R) % P]
outOf == [a \in F |-> (a * R_INVERSE) % P]

FieldOperations ==
  /\ \A a, b \in F :
       /\ mAdd(a, b) = montgomeryAdd(a, b, P)
       /\ mSub(a, b) = montgomerySub(a, b, P)
       /\ mMul(a, b) = montgomeryMul(a, b, P, N_PRIME)
  /\ \A a \in F \ {0} : mInv[a] = montgomeryModularInverse(a, P, R2_MOD_P)
  /\ \A a \in F : /\ into[a] = intoMontgomeryForm(a, P, N_PRIME, R2_MOD_P)
                   /\ outOf[a] = outOfMontgomeryForm(a, P, N_PRIME)

montgomeryDivision(dividend, divisor) == mMul(dividend, mInv[divisor])

isOnFieldOrder(coordinate) == coordinate < P

inField(x, y) == isOnFieldOrder(x) /\ isOnFieldOrder(y)

isInfinity(x, y) == x = 0 /\ y = 0

pointIsInCurve(x, y) ==
  mMul(y, y) = mAdd(mMul(mMul(x, x), x), MONTGOMERY_THREE)

\* How a call ends: burnGas() fails it and takes all gas.
Burned == <<"burned">>
Returned(p) == <<"returned", p>>

-----------------------------------------------------------------------------
projectiveFromAffine(x, y) == <<x, y, MONTGOMERY_ONE>>

projectivePointIsInfinity(p) == p[3] = 0

projectiveIntoAffine(p) ==
  IF p[3] # 0
    THEN LET zInv == mInv[p[3]] IN <<mMul(p[1], zInv), mMul(p[2], zInv)>>
    ELSE <<0, 0>>

\* Algorithm 9 of eprint 2015/1060, complete for curves with A = 0.
projectiveDouble(p) ==
  LET y2   == mMul(p[2], p[2])
      two  == mAdd(y2, y2)
      four == mAdd(two, two)
      z8   == mAdd(four, four)
      bz2  == mMul(MONTGOMERY_B3, mMul(p[3], p[3]))
      t0   == mSub(y2, mAdd(mAdd(bz2, bz2), bz2))
      xyt  == mMul(t0, mMul(p[1], p[2]))
  IN  << mAdd(xyt, xyt),
         mAdd(mMul(bz2, z8), mMul(t0, mAdd(y2, bz2))),
         mMul(mMul(p[2], p[3]), z8) >>

-----------------------------------------------------------------------------
\* What EIP-196 calls a valid encoding of a point: coordinates below the field
\* order that satisfy the curve equation, or (0, 0).
ValidPoint(x, y) == <<x, y>> \in Points
=============================================================================
