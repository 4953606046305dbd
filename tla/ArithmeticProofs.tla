-------------------------- MODULE ArithmeticProofs --------------------------
(***************************************************************************)
(* What MCMontgomery checks on 5-bit words, for every word size: partial   *)
(* correctness of binaryExtendedEuclideanAlgorithm for every odd prime     *)
(* modulus of the word and every base; and that the routines, called in    *)
(* any order, implement the prime field in each of the three texts.        *)
(***************************************************************************)
EXTENDS MCMontgomery, MontgomeryProofs

\* The facts about the constants in the form the provers use.
LEMMA ConstantFacts ==
  /\ R \in Nat /\ R > 1 /\ mask \in Nat /\ R = 2 * mask
  /\ modulus \in Nat /\ modulus > 2 /\ modulus % 2 = 1 /\ modulus < R
  /\ r2 \in 0 .. (modulus - 1)
<1>1. R \in Nat /\ R > 1 /\ R % 2 = 0  BY WordAssumption
<1>2. mask \in Nat /\ R = 2 * mask  BY <1>1, SMT DEF mask
<1> QED  BY <1>1, <1>2, ModulusAssumption

\* Halving a reduced coefficient gives its reduced half modulo the modulus:
\* the carry lost by x + modulus is put back, or cannot occur.
LEMMA HalveCoefficient ==
  ASSUME NEW x \in 0 .. (modulus - 1)
  PROVE  /\ halveCoefficient(x, modulus) \in 0 .. (modulus - 1)
         /\ 2 * halveCoefficient(x, modulus) \in {x, x + modulus}
<1> DEFINE sum == overflowingAdd(x, modulus)
           h   == halveCoefficient(x, modulus)
<1>1. x \in Word /\ modulus \in Word  BY ConstantFacts, SMT DEF Word
<1>2. /\ sum[1] = IF x + modulus < R THEN x + modulus ELSE x + modulus - R
      /\ sum[2] = (x + modulus >= R)
  BY <1>1, OverflowingAdd
<1>3. x % 2 = 0 => h = x \div 2  BY DEF halveCoefficient
<1>4. x % 2 # 0 /\ Variant # "bn" /\ modulus >= mask /\ x + modulus >= R
        => h = sum[1] \div 2 + mask
  <2> SUFFICES ASSUME x % 2 # 0, Variant # "bn", modulus >= mask,
                      x + modulus >= R
               PROVE  h = sum[1] \div 2 + mask
    OBVIOUS
  <2>1. ~modulusHasSpareBits(modulus)
    BY ConstantFacts, SMT DEF modulusHasSpareBits
  <2>2. sum[2]  BY <1>2
  <2> QED  BY <2>1, <2>2 DEF halveCoefficient
<1>5. x % 2 # 0 /\ (Variant = "bn" \/ modulus < mask \/ x + modulus < R)
        => h = sum[1] \div 2
  <2> SUFFICES ASSUME x % 2 # 0,
                      Variant = "bn" \/ modulus < mask \/ x + modulus < R
               PROVE  h = sum[1] \div 2
    OBVIOUS
  <2>1. modulus < mask => modulusHasSpareBits(modulus)
    BY DEF modulusHasSpareBits
  <2>2. x + modulus < R => ~sum[2]
    <3>1. x + modulus < R => ~(x + modulus >= R)  BY ConstantFacts, SMT
    <3> QED  BY <3>1, <1>2
  <2> QED  BY <2>1, <2>2 DEF halveCoefficient
<1>6. Variant = "bn" => modulus < mask  BY SpareBitsAssumption
<1>7. modulus < mask => x + modulus < R  BY ConstantFacts, SMT
<1> HIDE DEF sum, h
<1>8. CASE x % 2 = 0
  BY <1>8, <1>3, ConstantFacts, SMT DEF h
<1>9. CASE x % 2 # 0 /\ x + modulus < R
  <2>1. h = (x + modulus) \div 2  BY <1>9, <1>5, <1>2
  <2> QED  BY <2>1, <1>9, ConstantFacts, SMT DEF h
<1>10. CASE x % 2 # 0 /\ x + modulus >= R
  <2>1. ~(x + modulus < R)  BY <1>10, ConstantFacts, SMT
  <2>2. Variant # "bn" /\ modulus >= mask
    BY <2>1, <1>6, <1>7, ConstantFacts, SMT
  <2>3. h = (x + modulus - R) \div 2 + mask
    BY <2>1, <2>2, <1>10, <1>4, <1>2
  <2> QED  BY <2>3, <1>10, ConstantFacts, SMT DEF h
<1>11. x + modulus < R \/ x + modulus >= R  BY ConstantFacts, SMT
<1> QED  BY <1>8, <1>9, <1>10, <1>11

\* Subtracting reduced coefficients gives the reduced difference, although
\* the addition of the modulus may wrap.
LEMMA SubtractCoefficient ==
  ASSUME NEW x \in 0 .. (modulus - 1), NEW y \in 0 .. (modulus - 1)
  PROVE  /\ subtractCoefficient(x, y, modulus) \in 0 .. (modulus - 1)
         /\ subtractCoefficient(x, y, modulus) \in {x - y, x - y + modulus}
<1>1. CASE x < y
  <2>1. add(x, modulus) = IF x + modulus < R THEN x + modulus
                                             ELSE x + modulus - R
    BY ConstantFacts, SMT DEF add
  <2>2. sub(add(x, modulus), y) = x + modulus - y
    BY <1>1, <2>1, ConstantFacts, SMT DEF sub
  <2> QED  BY <1>1, <2>2, ConstantFacts, SMT DEF subtractCoefficient
<1>2. CASE ~(x < y)
  <2>1. sub(x, y) = x - y  BY <1>2, ConstantFacts, SMT DEF sub
  <2> QED  BY <1>2, <2>1, ConstantFacts, SMT DEF subtractCoefficient
<1> QED  BY <1>1, <1>2

-----------------------------------------------------------------------------
\* x*r2 - base*y stays divisible when x is halved exactly and y modulo the
\* modulus.
LEMMA HalfTracks ==
  ASSUME NEW k \in Nat, NEW x \in Nat, NEW y \in Nat, NEW z \in Nat,
         Divides(modulus, (2 * x) * r2 - k * y), 2 * z \in {y, y + modulus}
  PROVE  Divides(modulus, x * r2 - k * z)
<1>0. modulus \in Nat /\ modulus > 0 /\ modulus % 2 = 1 /\ r2 \in Nat
  BY ConstantFacts, SMT
<1> DEFINE D == x * r2 - k * z
           E == (2 * x) * r2 - k * y
<1>1. D \in Int /\ E \in Int  BY <1>0, SMT
<1>2. Divides(modulus, 2 * D)
  <2>1. CASE 2 * z = y
    <3>1. k * y = 2 * (k * z)  BY <2>1, SMT
    <3>2. 2 * D = E  BY <3>1, <1>0, SMT
    <3> QED  BY <3>2
  <2>2. CASE 2 * z = y + modulus
    <3>1. k * (2 * z) = k * y + k * modulus  BY <2>2, <1>0, SMT
    <3>2. k * (2 * z) = 2 * (k * z)  BY SMT
    <3>3. 2 * D = E - modulus * k  BY <3>1, <3>2, <1>0, SMT
    <3>4a. k \in Int /\ modulus * k \in Int  BY <1>0, SMT
    <3>4. Divides(modulus, modulus * k)  BY <3>4a, <1>0, MultipleDivides
    <3> HIDE DEF D, E
    <3>5. Divides(modulus, E)  BY DEF E
    <3> QED  BY <3>3, <3>4a, <3>4, <3>5, <1>0, <1>1, DividesSum
  <2> QED  BY <2>1, <2>2
<1> HIDE DEF D
<1>3. Divides(modulus, D)  BY <1>0, <1>1, <1>2, OddDividesHalf
<1> QED  BY <1>3 DEF D

\* x*r2 - base*y stays divisible under the subtraction of both remainders and
\* coefficients.
LEMMA DifferenceTracks ==
  ASSUME NEW k \in Nat, NEW x \in Nat, NEW y \in Nat, NEW xx \in Nat,
         NEW yy \in Nat, NEW z \in Nat,
         Divides(modulus, x * r2 - k * y), Divides(modulus, xx * r2 - k * yy),
         z \in {y - yy, y - yy + modulus}
  PROVE  Divides(modulus, (x - xx) * r2 - k * z)
<1>0. modulus \in Nat /\ modulus > 0 /\ r2 \in Nat  BY ConstantFacts, SMT
<1> DEFINE D == x * r2 - k * y
           E == xx * r2 - k * yy
           F == (x - xx) * r2 - k * z
<1>1. D \in Int /\ E \in Int /\ F \in Int  BY <1>0, SMT
<1>2. Divides(modulus, D - E)  BY <1>0, <1>1, DividesSum
<1>3. (x - xx) * r2 = x * r2 - xx * r2  BY <1>0, SMT
<1>4. CASE z = y - yy
  <2>1. k * z = k * y - k * yy  BY <1>4, SMT
  <2>2. F = D - E  BY <2>1, <1>3, <1>0, SMT
  <2> QED  BY <2>2, <1>2
<1>5. CASE z = y - yy + modulus
  <2>1. k * z = k * y - k * yy + k * modulus  BY <1>5, <1>0, SMT
  <2>2. F = (D - E) - modulus * k  BY <2>1, <1>3, <1>0, SMT
  <2>3a. k \in Int /\ modulus * k \in Int  BY <1>0, SMT
  <2>3. Divides(modulus, modulus * k)  BY <2>3a, <1>0, MultipleDivides
  <2>4. D - E \in Int  BY <1>1, SMT
  <2> HIDE DEF D, E, F
  <2>5. Divides(modulus, F)  BY <2>2, <2>3a, <2>3, <2>4, <1>2, <1>0, DividesSum
  <2> QED  BY <2>5 DEF F
<1> QED  BY <1>4, <1>5

-----------------------------------------------------------------------------
\* Prime modulus: base and modulus have no common divisor, and each pass
\* preserves that.
LEMMA GcdInitially ==
  ASSUME NEW x \in 1 .. (modulus - 1), NEW d \in 2 .. modulus,
         Divides(d, x), Divides(d, modulus)
  PROVE  FALSE
<1>1. d = modulus  BY ConstantFacts, ModulusAssumption, SMT
<1>2. x % modulus = x  BY ConstantFacts, SMT
<1> QED  BY <1>1, <1>2, ConstantFacts, SMT DEF Divides

\* A divisor of the half is a divisor of an even number.
LEMMA DividesDouble ==
  ASSUME NEW d \in Nat, d > 0, NEW x \in Int, Divides(d, x)
  PROVE  Divides(d, 2 * x)
<1>1. PICK k \in Int : x = d * k  BY DividesCofactor
<1>2. 2 * x = d * (2 * k) /\ 2 * k \in Int  BY <1>1, SMT
<1> QED  BY <1>2, MultipleDivides

\* The initial states satisfy the inductive invariant.
LEMMA InitIInv == Init => IInv
<1> SUFFICES ASSUME Init PROVE IInv  OBVIOUS
<1>0. /\ base \in 0 .. (modulus - 1)
      /\ u = base /\ v = modulus /\ b = r2 /\ c = 0 /\ inv = 0 /\ pc = "outer"
  BY DEF Init
<1>1. TypeOK  BY <1>0, ConstantFacts, SMT DEF TypeOK
<1>2. LoopPosition  BY <1>0 DEF LoopPosition
<1>3. CoefficientsTrackRemainders
  <2>1. u * r2 - base * b = modulus * 0  BY <1>0, ConstantFacts, SMT
  <2>2. v * r2 - base * c = modulus * r2  BY <1>0, ConstantFacts, SMT
  <2>3. modulus > 0 /\ 0 \in Int /\ r2 \in Int  BY ConstantFacts, SMT
  <2> QED  BY <2>1, <2>2, <2>3, ConstantFacts, MultipleDivides
           DEF CoefficientsTrackRemainders
<1>4. RemainderGcdIsOne
  <2> SUFFICES ASSUME base # 0, NEW d \in 2 .. modulus,
                      Divides(d, u), Divides(d, v)
               PROVE  FALSE
    BY DEF RemainderGcdIsOne
  <2>1. u \in 1 .. (modulus - 1)  BY <1>0, ConstantFacts, SMT
  <2> QED  BY <2>1, <1>0, GcdInitially
<1>5. NeverZeroRemainder  BY <1>0 DEF NeverZeroRemainder
<1>6. InverseIsCorrect  BY <1>0 DEF InverseIsCorrect
<1> QED  BY <1>1, <1>2, <1>3, <1>4, <1>5, <1>6 DEF IInv

\* A loop test changes only pc.
LEMMA TestsPreserve ==
  ASSUME IInv, EnterLoop \/ UIsOdd \/ VIsOdd
  PROVE  IInv'
<1> USE DEF IInv
<1>0. UNCHANGED <<base, u, v, b, c, inv>> /\ pc' \in {"halveU", "halveV", "subtract"}
  BY DEF EnterLoop, UIsOdd, VIsOdd
<1>1. TypeOK'  BY <1>0 DEF TypeOK
<1>2. LoopPosition'
  <2>1. CASE EnterLoop  BY <2>1, SMT DEF EnterLoop, LoopPosition, TypeOK
  <2>2. CASE UIsOdd
    <3>1. base # 0
      BY <2>2, SMT DEF UIsOdd, LoopPosition
    <3> QED  BY <2>2, <3>1, SMT DEF UIsOdd, LoopPosition
  <2>3. CASE VIsOdd  BY <2>3, SMT DEF VIsOdd, LoopPosition
  <2> QED  BY <2>1, <2>2, <2>3
<1>3. CoefficientsTrackRemainders'  BY <1>0 DEF CoefficientsTrackRemainders
<1>4. RemainderGcdIsOne'  BY <1>0 DEF RemainderGcdIsOne
<1>5. NeverZeroRemainder'  BY <1>0 DEF NeverZeroRemainder
<1>6. InverseIsCorrect'  BY <1>0 DEF InverseIsCorrect
<1> QED  BY <1>1, <1>2, <1>3, <1>4, <1>5, <1>6

\* The value returned is the coefficient of a remainder that is 1.
LEMMA ReturnPreserves ==
  ASSUME IInv, Return
  PROVE  IInv'
<1> USE DEF IInv
<1>0. /\ UNCHANGED <<base, u, v, b, c>> /\ pc = "outer" /\ pc' = "done"
      /\ u = 1 \/ v = 1
      /\ inv' = IF u = 1 THEN b ELSE c
  BY DEF Return
<1>1. TypeOK'  BY <1>0 DEF TypeOK
<1>2. LoopPosition'
  <2>1. base # 0  BY <1>0, ConstantFacts, SMT DEF LoopPosition
  <2> QED  BY <1>0, <2>1 DEF LoopPosition
<1>3. CoefficientsTrackRemainders'  BY <1>0 DEF CoefficientsTrackRemainders
<1>4. RemainderGcdIsOne'  BY <1>0 DEF RemainderGcdIsOne
<1>5. NeverZeroRemainder'  BY <1>0 DEF NeverZeroRemainder
<1>6. InverseIsCorrect'
  <2>0. /\ base \in Nat /\ inv' \in Nat /\ inv' < modulus /\ r2 \in Nat
        /\ modulus \in Nat /\ modulus > 0
    BY <1>0, <1>1, ConstantFacts, SMT DEF TypeOK
  <2>1. Divides(modulus, 1 * r2 - base * inv')
    BY <1>0 DEF CoefficientsTrackRemainders
  <2> DEFINE D == 1 * r2 - base * inv'
  <2>2. D \in Int /\ base * inv' - r2 = 0 - D  BY <2>0, SMT
  <2>3. 0 \in Int /\ Divides(modulus, 0)  BY <2>0, SMT DEF Divides
  <2> HIDE DEF D
  <2>4. Divides(modulus, D)  BY <2>1 DEF D
  <2>5. Divides(modulus, 0 - D)  BY <2>0, <2>2, <2>3, <2>4, DividesSum
  <2>6. Divides(modulus, base' * inv' - r2)  BY <2>5, <2>2, <1>0
  <2> QED  BY <2>0, <2>6 DEF InverseIsCorrect
<1> QED  BY <1>1, <1>2, <1>3, <1>4, <1>5, <1>6

\* Halving u: v is odd, because u and v have no common divisor.
LEMMA HalveUPreserves ==
  ASSUME IInv, HalveU
  PROVE  IInv'
<1> USE DEF IInv
<1>0. /\ UNCHANGED <<base, v, c, inv, pc>> /\ pc = "halveU" /\ u % 2 = 0
      /\ u' = u \div 2 /\ b' = halveCoefficient(b, modulus)
  BY DEF HalveU
<1>1. /\ u \in Nat /\ v \in Nat /\ b \in Nat /\ base \in Nat
      /\ u' \in Nat /\ u = 2 * u' /\ u' \in 0 .. (modulus - 1)
  BY <1>0, ConstantFacts, SMT DEF TypeOK
<1>2. b' \in 0 .. (modulus - 1) /\ 2 * b' \in {b, b + modulus}
  BY <1>0, HalveCoefficient DEF TypeOK
<1>3. TypeOK'  BY <1>0, <1>1, <1>2 DEF TypeOK
<1>4. base # 0 => v % 2 = 1
  <2> SUFFICES ASSUME base # 0 PROVE v % 2 = 1  OBVIOUS
  <2>1. 2 \in 2 .. modulus  BY ConstantFacts, SMT
  <2>2. ~(Divides(2, u) /\ Divides(2, v))  BY <2>1 DEF RemainderGcdIsOne
  <2>3. v % 2 # 0  BY <2>2, <1>0 DEF Divides
  <2> QED  BY <2>3, <1>1, SMT
<1>5. LoopPosition'
  BY <1>0, <1>1, <1>4, ConstantFacts, SMT DEF LoopPosition
<1>6. CoefficientsTrackRemainders'
  <2>1. Divides(modulus, (2 * u') * r2 - base * b)
    BY <1>1 DEF CoefficientsTrackRemainders
  <2>2. b' \in Nat  BY <1>2, ConstantFacts, SMT
  <2>3. Divides(modulus, u' * r2 - base * b')
    BY <2>1, <2>2, <1>1, <1>2, HalfTracks
  <2> QED  BY <2>3, <1>0 DEF CoefficientsTrackRemainders
<1>7. RemainderGcdIsOne'
  <2> SUFFICES ASSUME base # 0, NEW d \in 2 .. modulus,
                      Divides(d, u'), Divides(d, v)
               PROVE  FALSE
    BY <1>0 DEF RemainderGcdIsOne
  <2>1. d \in Nat /\ d > 0 /\ u' \in Int  BY <1>1, ConstantFacts, SMT
  <2>2. Divides(d, 2 * u')  BY <2>1, DividesDouble
  <2>3. Divides(d, u)  BY <2>2, <1>1
  <2> QED  BY <2>3 DEF RemainderGcdIsOne
<1>8. NeverZeroRemainder'  BY <1>0, <1>1, SMT DEF NeverZeroRemainder
<1>9. InverseIsCorrect'  BY <1>0 DEF InverseIsCorrect
<1> QED  BY <1>3, <1>5, <1>6, <1>7, <1>8, <1>9

\* Halving v: symmetric, with u odd by then.
LEMMA HalveVPreserves ==
  ASSUME IInv, HalveV
  PROVE  IInv'
<1> USE DEF IInv
<1>0. /\ UNCHANGED <<base, u, b, inv, pc>> /\ pc = "halveV" /\ v % 2 = 0
      /\ v' = v \div 2 /\ c' = halveCoefficient(c, modulus)
  BY DEF HalveV
<1>1. /\ u \in Nat /\ v \in Nat /\ c \in Nat /\ base \in Nat
      /\ v' \in Nat /\ v = 2 * v' /\ v' \in 1 .. modulus
  BY <1>0, ConstantFacts, SMT DEF TypeOK
<1>2. c' \in 0 .. (modulus - 1) /\ 2 * c' \in {c, c + modulus}
  BY <1>0, HalveCoefficient DEF TypeOK
<1>3. TypeOK'  BY <1>0, <1>1, <1>2 DEF TypeOK
<1>4. LoopPosition'
  <2>1. base # 0 /\ u % 2 = 1 /\ u # 1  BY <1>0, SMT DEF LoopPosition
  <2> QED  BY <1>0, <2>1 DEF LoopPosition
<1>5. CoefficientsTrackRemainders'
  <2>1. Divides(modulus, (2 * v') * r2 - base * c)
    BY <1>1 DEF CoefficientsTrackRemainders
  <2>2. c' \in Nat  BY <1>2, ConstantFacts, SMT
  <2>3. Divides(modulus, v' * r2 - base * c')
    BY <2>1, <2>2, <1>1, <1>2, HalfTracks
  <2> QED  BY <2>3, <1>0 DEF CoefficientsTrackRemainders
<1>6. RemainderGcdIsOne'
  <2> SUFFICES ASSUME base # 0, NEW d \in 2 .. modulus,
                      Divides(d, u), Divides(d, v')
               PROVE  FALSE
    BY <1>0 DEF RemainderGcdIsOne
  <2>1. d \in Nat /\ d > 0 /\ v' \in Int  BY <1>1, ConstantFacts, SMT
  <2>2. Divides(d, 2 * v')  BY <2>1, DividesDouble
  <2>3. Divides(d, v)  BY <2>2, <1>1
  <2> QED  BY <2>3 DEF RemainderGcdIsOne
<1>7. NeverZeroRemainder'  BY <1>0 DEF NeverZeroRemainder
<1>8. InverseIsCorrect'  BY <1>0 DEF InverseIsCorrect
<1> QED  BY <1>3, <1>4, <1>5, <1>6, <1>7, <1>8

\* Subtracting v from u cannot give zero: u = v would be a common divisor.
LEMMA SubtractFromUPreserves ==
  ASSUME IInv, SubtractFromU
  PROVE  IInv'
<1> USE DEF IInv
<1>0. /\ UNCHANGED <<base, v, c, inv>> /\ pc = "subtract" /\ pc' = "outer"
      /\ ~(v > u) /\ u' = sub(u, v)
      /\ b' = subtractCoefficient(b, c, modulus)
  BY DEF SubtractFromU
<1>1. /\ u \in Nat /\ v \in Nat /\ b \in Nat /\ c \in Nat /\ base \in Nat
      /\ u' = u - v /\ u' \in 0 .. (modulus - 1)
  <2>1. sub(u, v) = u - v
    BY <1>0, ConstantFacts, SMT DEF TypeOK, sub
  <2> QED  BY <2>1, <1>0, ConstantFacts, SMT DEF TypeOK
<1>2. b' \in 0 .. (modulus - 1) /\ b' \in {b - c, b - c + modulus}
  BY <1>0, SubtractCoefficient DEF TypeOK
<1>3. TypeOK'  BY <1>0, <1>1, <1>2 DEF TypeOK
<1>4. base # 0  BY <1>0 DEF LoopPosition
<1>5. LoopPosition'  BY <1>0, <1>4 DEF LoopPosition
<1>6. CoefficientsTrackRemainders'
  <2>1. b' \in Nat  BY <1>2, ConstantFacts, SMT
  <2>2. Divides(modulus, (u - v) * r2 - base * b')
    BY <2>1, <1>1, <1>2, DifferenceTracks DEF CoefficientsTrackRemainders
  <2> QED  BY <2>2, <1>0, <1>1 DEF CoefficientsTrackRemainders
<1>7. RemainderGcdIsOne'
  <2> SUFFICES ASSUME NEW d \in 2 .. modulus, Divides(d, u'), Divides(d, v)
               PROVE  FALSE
    BY <1>0 DEF RemainderGcdIsOne
  <2>1. d \in Nat /\ d > 0 /\ u' \in Int /\ v \in Int /\ u = u' + v
    BY <1>1, ConstantFacts, SMT
  <2>2. Divides(d, u' + v)  BY <2>1, DividesSum
  <2>3. Divides(d, u)  BY <2>1, <2>2
  <2> QED  BY <2>3, <1>4 DEF RemainderGcdIsOne
<1>8. NeverZeroRemainder'
  <2> SUFFICES ASSUME u' = 0 PROVE FALSE  BY DEF NeverZeroRemainder
  <2>1. u = v /\ u # 1  BY <1>0, <1>1, SMT DEF LoopPosition
  <2>2. u \in 2 .. modulus  BY <2>1, <1>1, <1>4, ConstantFacts, SMT DEF TypeOK
  <2>3. u % u = 0  BY <2>2, ConstantFacts, SMT
  <2>4. Divides(u, u) /\ Divides(u, v)  BY <2>1, <2>3 DEF Divides
  <2> QED  BY <2>2, <2>4, <1>4 DEF RemainderGcdIsOne
<1>9. InverseIsCorrect'  BY <1>0 DEF InverseIsCorrect
<1> QED  BY <1>3, <1>5, <1>6, <1>7, <1>8, <1>9

\* Subtracting u from a larger v.
LEMMA SubtractFromVPreserves ==
  ASSUME IInv, SubtractFromV
  PROVE  IInv'
<1> USE DEF IInv
<1>0. /\ UNCHANGED <<base, u, b, inv>> /\ pc = "subtract" /\ pc' = "outer"
      /\ v > u /\ v' = sub(v, u)
      /\ c' = subtractCoefficient(c, b, modulus)
  BY DEF SubtractFromV
<1>1. /\ u \in Nat /\ v \in Nat /\ b \in Nat /\ c \in Nat /\ base \in Nat
      /\ v' = v - u /\ v' \in 1 .. modulus
  <2>1. sub(v, u) = v - u
    BY <1>0, ConstantFacts, SMT DEF TypeOK, sub
  <2> QED  BY <2>1, <1>0, ConstantFacts, SMT DEF TypeOK
<1>2. c' \in 0 .. (modulus - 1) /\ c' \in {c - b, c - b + modulus}
  BY <1>0, SubtractCoefficient DEF TypeOK
<1>3. TypeOK'  BY <1>0, <1>1, <1>2 DEF TypeOK
<1>4. base # 0  BY <1>0 DEF LoopPosition
<1>5. LoopPosition'  BY <1>0, <1>4 DEF LoopPosition
<1>6. CoefficientsTrackRemainders'
  <2>1. c' \in Nat  BY <1>2, ConstantFacts, SMT
  <2>2. Divides(modulus, (v - u) * r2 - base * c')
    BY <2>1, <1>1, <1>2, DifferenceTracks DEF CoefficientsTrackRemainders
  <2> QED  BY <2>2, <1>0, <1>1 DEF CoefficientsTrackRemainders
<1>7. RemainderGcdIsOne'
  <2> SUFFICES ASSUME NEW d \in 2 .. modulus, Divides(d, u), Divides(d, v')
               PROVE  FALSE
    BY <1>0 DEF RemainderGcdIsOne
  <2>1. d \in Nat /\ d > 0 /\ v' \in Int /\ u \in Int /\ v = v' + u
    BY <1>1, ConstantFacts, SMT
  <2>2. Divides(d, v' + u)  BY <2>1, DividesSum
  <2>3. Divides(d, v)  BY <2>1, <2>2
  <2> QED  BY <2>3, <1>4 DEF RemainderGcdIsOne
<1>8. NeverZeroRemainder'  BY <1>0 DEF NeverZeroRemainder
<1>9. InverseIsCorrect'  BY <1>0 DEF InverseIsCorrect
<1> QED  BY <1>3, <1>5, <1>6, <1>7, <1>8, <1>9

-----------------------------------------------------------------------------
\* The inductive invariant holds throughout every call.
THEOREM InvariantHolds == Spec => []IInv
<1>1. IInv /\ [Next]_vars => IInv'
  <2> SUFFICES ASSUME IInv, [Next]_vars PROVE IInv'  OBVIOUS
  <2>1. CASE EnterLoop  BY <2>1, TestsPreserve
  <2>2. CASE HalveU  BY <2>2, HalveUPreserves
  <2>3. CASE UIsOdd  BY <2>3, TestsPreserve
  <2>4. CASE HalveV  BY <2>4, HalveVPreserves
  <2>5. CASE VIsOdd  BY <2>5, TestsPreserve
  <2>6. CASE SubtractFromU  BY <2>6, SubtractFromUPreserves
  <2>7. CASE SubtractFromV  BY <2>7, SubtractFromVPreserves
  <2>8. CASE Return  BY <2>8, ReturnPreserves
  <2>9. CASE UNCHANGED vars
    BY <2>9 DEF vars, IInv, TypeOK, LoopPosition, CoefficientsTrackRemainders,
                RemainderGcdIsOne, NeverZeroRemainder, InverseIsCorrect
  <2> QED
    BY <2>1, <2>2, <2>3, <2>4, <2>5, <2>6, <2>7, <2>8, <2>9 DEF Next
<1> QED  BY <1>1, InitIInv, PTL DEF Spec

\* Coefficients stay reduced words and remainders stay in range, whatever
\* the carries.
THEOREM TypeCorrect == Spec => []TypeOK
<1>1. IInv => TypeOK  BY DEF IInv
<1> QED  BY <1>1, InvariantHolds, PTL

\* A value returned by the inverse is the inverse in Montgomery form.
THEOREM InverseCorrect == Spec => []InverseIsCorrect
<1>1. IInv => InverseIsCorrect  BY DEF IInv
<1> QED  BY <1>1, InvariantHolds, PTL

\* A non-zero base never drives a remainder to zero, the state the halving
\* loop cannot leave.
THEOREM NoZeroRemainder == Spec => []NeverZeroRemainder
<1>1. IInv => NeverZeroRemainder  BY DEF IInv
<1> QED  BY <1>1, InvariantHolds, PTL

\* A zero base never returns.
THEOREM ZeroNeverReturns == Spec => []ZeroDiverges
<1>1. IInv => ZeroDiverges  BY DEF IInv, LoopPosition, ZeroDiverges
<1> QED  BY <1>1, InvariantHolds, PTL

\* Every pass through a loop body decreases u + v, so a call that returns
\* does so within base + modulus passes.
THEOREM PassesDecrease == Spec => RemaindersDecrease
<1>1. IInv /\ [Next]_vars
        => [<<u, v>>' # <<u, v>> => u' + v' < u + v]_vars
  <2> SUFFICES ASSUME IInv, Next, <<u, v>>' # <<u, v>>
               PROVE  u' + v' < u + v
    OBVIOUS
  <2> USE DEF IInv
  <2>1. CASE HalveU
    BY <2>1, ConstantFacts, SMT DEF HalveU, TypeOK
  <2>2. CASE HalveV
    BY <2>2, ConstantFacts, SMT DEF HalveV, TypeOK
  <2>3. CASE SubtractFromU
    BY <2>3, ConstantFacts, SMT DEF SubtractFromU, TypeOK, sub
  <2>4. CASE SubtractFromV
    BY <2>4, ConstantFacts, SMT DEF SubtractFromV, TypeOK, LoopPosition, sub
  <2>5. CASE EnterLoop \/ UIsOdd \/ VIsOdd \/ Return
    BY <2>5 DEF EnterLoop, UIsOdd, VIsOdd, Return
  <2> QED  BY <2>1, <2>2, <2>3, <2>4, <2>5 DEF Next
<1> QED  BY <1>1, InvariantHolds, PTL DEF Spec, RemaindersDecrease

-----------------------------------------------------------------------------
(***************************************************************************)
(* The field operations.  Each text has its instance of MontgomeryField,   *)
(* and of the lemmas of MontgomeryProofs.                                  *)
(***************************************************************************)
R1Words == INSTANCE MontgomeryProofs WITH Variant <- "r1"
K1Words == INSTANCE MontgomeryProofs WITH Variant <- "k1"
BNWords == INSTANCE MontgomeryProofs WITH Variant <- "bn"

\* The orders that the run gives the texts.
LEMMA TextOrders ==
  /\ R1Words!IsOrder(modulus, nPrime, r2)
  /\ K1Words!IsOrder(modulus, nPrime, r2)
  /\ BNWords!IsOrder(bnOrder, bnPrime, bnR2)
<1>1. R1Words!IsOrder(modulus, nPrime, r2)
  BY FieldAssumptions
     DEF R1!FieldAssumption, R1!PrecomputedAssumption, R1!Divides, R1!Word,
         R1Words!IsOrder, R1Words!IsPrime, R1Words!Word
<1>2. K1Words!IsOrder(modulus, nPrime, r2)
  BY FieldAssumptions
     DEF R1!FieldAssumption, R1!PrecomputedAssumption, R1!Divides, R1!Word,
         K1Words!IsOrder, K1Words!IsPrime, K1Words!Word
<1>3. BNWords!IsOrder(bnOrder, bnPrime, bnR2)
  BY FieldAssumptions
     DEF BN!FieldAssumption, BN!PrecomputedAssumption, BN!Divides, BN!Word,
         BNWords!IsOrder, BNWords!IsPrime, BNWords!Word
<1>. QED BY <1>1, <1>2, <1>3

\* The text "r1".
LEMMA R1Operations ==
  ASSUME NEW w \in 0 .. (modulus - 1)
  PROVE
    /\ R1!outOfMontgomeryForm(w, modulus, nPrime) \in 0 .. (modulus - 1)
    /\ \A x \in Word :
         /\ R1!intoMontgomeryForm(x, modulus, nPrime, r2) \in 0 .. (modulus - 1)
         /\ R1!outOfMontgomeryForm(R1!intoMontgomeryForm(x, modulus, nPrime, r2), modulus, nPrime) = x % modulus
    /\ \A x \in 0 .. (modulus - 1) :
         LET e          == R1!intoMontgomeryForm(x, modulus, nPrime, r2)
             sum        == R1!montgomeryAdd(w, e, modulus)
             difference == R1!montgomerySub(w, e, modulus)
             product    == R1!montgomeryMul(w, e, modulus, nPrime)
             quotient   == R1!montgomeryDiv(w, e, modulus, nPrime, r2)
         IN  /\ w = e <=> R1!outOfMontgomeryForm(w, modulus, nPrime) = x
             /\ sum \in 0 .. (modulus - 1)
             /\ R1!outOfMontgomeryForm(sum, modulus, nPrime) = (R1!outOfMontgomeryForm(w, modulus, nPrime) + x) % modulus
             /\ difference \in 0 .. (modulus - 1)
             /\ R1!outOfMontgomeryForm(difference, modulus, nPrime)
                  = (R1!outOfMontgomeryForm(w, modulus, nPrime) - x) % modulus
             /\ product \in 0 .. (modulus - 1)
             /\ R1!outOfMontgomeryForm(product, modulus, nPrime)
                  = (R1!outOfMontgomeryForm(w, modulus, nPrime) * x) % modulus
             /\ x # 0 =>
                  /\ quotient \in 0 .. (modulus - 1)
                  /\ (R1!outOfMontgomeryForm(quotient, modulus, nPrime) * x) % modulus
                       = R1!outOfMontgomeryForm(w, modulus, nPrime)
<1>0. R \in Nat /\ R > 1 /\ R % 2 = 0 /\ "r1" \in {"bn", "r1", "k1"}
  BY WordAssumption
<1>1. \A a, c1, m, mp : R1Words!REDC(a, c1, m, mp) = R1!REDC(a, c1, m, mp)
  BY DEF R1Words!REDC, R1!REDC, R1Words!REDC_r1, R1!REDC_r1, R1Words!mul, R1!mul, R1Words!add,
         R1!add, R1Words!sub, R1!sub, R1Words!overflowingAdd, R1!overflowingAdd,
         R1Words!getHighestHalfOfMultiplication, R1!getHighestHalfOfMultiplication
<1>2. \A x, y, m, mp, m2 :
        /\ R1Words!outOfMontgomeryForm(x, m, mp) = R1!outOfMontgomeryForm(x, m, mp)
        /\ R1Words!intoMontgomeryForm(x, m, mp, m2) = R1!intoMontgomeryForm(x, m, mp, m2)
        /\ R1Words!montgomeryMul(x, y, m, mp) = R1!montgomeryMul(x, y, m, mp)
  BY <1>1 DEF R1Words!outOfMontgomeryForm, R1!outOfMontgomeryForm, R1Words!intoMontgomeryForm,
              R1!intoMontgomeryForm, R1Words!montgomeryMul, R1!montgomeryMul, R1Words!mul, R1!mul,
              R1Words!getHighestHalfOfMultiplication, R1!getHighestHalfOfMultiplication
<1>3. \A x, y, m, mp, m2 : R1Words!montgomeryDiv(x, y, m, mp, m2) = R1!montgomeryDiv(x, y, m, mp, m2)
  BY <1>2 DEF R1Words!montgomeryDiv, R1!montgomeryDiv, R1Words!montgomeryModularInverse,
              R1!montgomeryModularInverse, R1Words!Divides, R1!Divides
<1>4. \A x, y, m : /\ R1Words!montgomeryAdd(x, y, m) = R1!montgomeryAdd(x, y, m)
                   /\ R1Words!montgomerySub(x, y, m) = R1!montgomerySub(x, y, m)
  BY DEF R1Words!montgomeryAdd, R1!montgomeryAdd, R1Words!montgomerySub, R1!montgomerySub,
         R1Words!addmod, R1!addmod, R1Words!add, R1!add, R1Words!sub, R1!sub
<1>5. R1Words!Word = Word
  BY DEF R1Words!Word, Word
<1>6. /\ R1Words!outOfMontgomeryForm(w, modulus, nPrime) \in 0 .. (modulus - 1)
      /\ \A x \in R1Words!Word :
           /\ R1Words!intoMontgomeryForm(x, modulus, nPrime, r2) \in 0 .. (modulus - 1)
           /\ R1Words!outOfMontgomeryForm(R1Words!intoMontgomeryForm(x, modulus, nPrime, r2), modulus, nPrime) = x % modulus
  BY <1>0, TextOrders, R1Words!WordsImplementField
<1>7. ASSUME NEW x \in 0 .. (modulus - 1)
      PROVE  LET e          == R1!intoMontgomeryForm(x, modulus, nPrime, r2)
                 sum        == R1!montgomeryAdd(w, e, modulus)
                 difference == R1!montgomerySub(w, e, modulus)
                 product    == R1!montgomeryMul(w, e, modulus, nPrime)
                 quotient   == R1!montgomeryDiv(w, e, modulus, nPrime, r2)
             IN  /\ w = e <=> R1!outOfMontgomeryForm(w, modulus, nPrime) = x
                 /\ sum \in 0 .. (modulus - 1)
                 /\ R1!outOfMontgomeryForm(sum, modulus, nPrime) = (R1!outOfMontgomeryForm(w, modulus, nPrime) + x) % modulus
                 /\ difference \in 0 .. (modulus - 1)
                 /\ R1!outOfMontgomeryForm(difference, modulus, nPrime)
                      = (R1!outOfMontgomeryForm(w, modulus, nPrime) - x) % modulus
                 /\ product \in 0 .. (modulus - 1)
                 /\ R1!outOfMontgomeryForm(product, modulus, nPrime)
                      = (R1!outOfMontgomeryForm(w, modulus, nPrime) * x) % modulus
                 /\ x # 0 =>
                      /\ quotient \in 0 .. (modulus - 1)
                      /\ (R1!outOfMontgomeryForm(quotient, modulus, nPrime) * x) % modulus
                           = R1!outOfMontgomeryForm(w, modulus, nPrime)
  <2>. DEFINE e          == R1Words!intoMontgomeryForm(x, modulus, nPrime, r2)
              sum        == R1Words!montgomeryAdd(w, e, modulus)
              difference == R1Words!montgomerySub(w, e, modulus)
              product    == R1Words!montgomeryMul(w, e, modulus, nPrime)
              quotient   == R1Words!montgomeryDiv(w, e, modulus, nPrime, r2)
  <2>1. /\ w = e <=> R1Words!outOfMontgomeryForm(w, modulus, nPrime) = x
        /\ sum \in 0 .. (modulus - 1)
        /\ R1Words!outOfMontgomeryForm(sum, modulus, nPrime) = (R1Words!outOfMontgomeryForm(w, modulus, nPrime) + x) % modulus
        /\ difference \in 0 .. (modulus - 1)
        /\ R1Words!outOfMontgomeryForm(difference, modulus, nPrime)
             = (R1Words!outOfMontgomeryForm(w, modulus, nPrime) - x) % modulus
        /\ product \in 0 .. (modulus - 1)
        /\ R1Words!outOfMontgomeryForm(product, modulus, nPrime)
             = (R1Words!outOfMontgomeryForm(w, modulus, nPrime) * x) % modulus
        /\ x # 0 =>
             /\ quotient \in 0 .. (modulus - 1)
             /\ (R1Words!outOfMontgomeryForm(quotient, modulus, nPrime) * x) % modulus
                  = R1Words!outOfMontgomeryForm(w, modulus, nPrime)
    BY <1>0, TextOrders, R1Words!WordsImplementField
  <2>2. e = R1!intoMontgomeryForm(x, modulus, nPrime, r2)
    BY <1>2
  <2>3. /\ sum = R1!montgomeryAdd(w, R1!intoMontgomeryForm(x, modulus, nPrime, r2), modulus)
        /\ difference = R1!montgomerySub(w, R1!intoMontgomeryForm(x, modulus, nPrime, r2), modulus)
        /\ product = R1!montgomeryMul(w, R1!intoMontgomeryForm(x, modulus, nPrime, r2), modulus, nPrime)
        /\ quotient = R1!montgomeryDiv(w, R1!intoMontgomeryForm(x, modulus, nPrime, r2), modulus, nPrime, r2)
    BY <1>2, <1>3, <1>4, <2>2
  <2>4. \A y : R1Words!outOfMontgomeryForm(y, modulus, nPrime) = R1!outOfMontgomeryForm(y, modulus, nPrime)
    BY <1>2
  <2>. HIDE DEF e, sum, difference, product, quotient
  <2>. QED BY <2>1, <2>2, <2>3, <2>4
<1>. QED BY <1>2, <1>5, <1>6, <1>7

LEMMA R1Refines ==
  /\ R1!Init => reg \in 0 .. (modulus - 1) /\ R1!Field!Init
  /\ reg \in 0 .. (modulus - 1) /\ R1!Next => reg' \in 0 .. (modulus - 1) /\ R1!Field!Next
  /\ reg \in 0 .. (modulus - 1) => R1!EncodingIsFaithful
<1>0. modulus \in Nat /\ modulus > 0 /\ 0 \in 0 .. (modulus - 1) /\ 0 \in Word /\ 0 % modulus = 0
  <2>1. modulus \in Nat /\ modulus > 0 /\ R \in Nat /\ R > 1
    BY TextOrders, WordAssumption DEF R1Words!IsOrder, R1Words!IsPrime
  <2>. QED BY <2>1, SmallRemainder DEF Word
<1>1. R1!Init => reg \in 0 .. (modulus - 1) /\ R1!Field!Init
  BY <1>0, R1Operations DEF R1!Init, R1!enc, R1!Field!Init
<1>2. ASSUME reg \in 0 .. (modulus - 1), R1!Next
      PROVE  reg' \in 0 .. (modulus - 1) /\ R1!Field!Next
  <2>1. CASE R1!Load
    <3>1. PICK x \in Word : last' = <<"load", x>> /\ reg' = R1!enc(x)
      BY <2>1 DEF R1!Load, R1!Word, Word
    <3>2. reg' \in 0 .. (modulus - 1) /\ R1!outOfMontgomeryForm(reg', modulus, nPrime) = x % modulus
      BY <1>2, <3>1, R1Operations DEF R1!enc
    <3>3. R1!Field!Load
      BY <3>1, <3>2 DEF R1!Field!Load, R1!Word, Word
    <3>. QED BY <3>2, <3>3 DEF R1!Field!Next
  <2>2. CASE R1!Add
    <3>1. PICK x \in 0 .. (modulus - 1) : last' = <<"add", x>> /\ reg' = R1!montgomeryAdd(reg, R1!enc(x), modulus)
      BY <2>2 DEF R1!Add, R1!Element
    <3>2. reg' \in 0 .. (modulus - 1)
          /\ R1!outOfMontgomeryForm(reg', modulus, nPrime) = (R1!outOfMontgomeryForm(reg, modulus, nPrime) + x) % modulus
      BY <1>2, <3>1, R1Operations DEF R1!enc
    <3>3. R1!Field!Add
      BY <3>1, <3>2 DEF R1!Field!Add, R1!Field!Element
    <3>. QED BY <3>2, <3>3 DEF R1!Field!Next
  <2>3. CASE R1!Subtract
    <3>1. PICK x \in 0 .. (modulus - 1) : last' = <<"sub", x>> /\ reg' = R1!montgomerySub(reg, R1!enc(x), modulus)
      BY <2>3 DEF R1!Subtract, R1!Element
    <3>2. reg' \in 0 .. (modulus - 1)
          /\ R1!outOfMontgomeryForm(reg', modulus, nPrime) = (R1!outOfMontgomeryForm(reg, modulus, nPrime) - x) % modulus
      BY <1>2, <3>1, R1Operations DEF R1!enc
    <3>3. R1!Field!Subtract
      BY <3>1, <3>2 DEF R1!Field!Subtract, R1!Field!Element
    <3>. QED BY <3>2, <3>3 DEF R1!Field!Next
  <2>4. CASE R1!Multiply
    <3>1. PICK x \in 0 .. (modulus - 1) :
            last' = <<"mul", x>> /\ reg' = R1!montgomeryMul(reg, R1!enc(x), modulus, nPrime)
      BY <2>4 DEF R1!Multiply, R1!Element
    <3>2. reg' \in 0 .. (modulus - 1)
          /\ R1!outOfMontgomeryForm(reg', modulus, nPrime) = (R1!outOfMontgomeryForm(reg, modulus, nPrime) * x) % modulus
      BY <1>2, <3>1, R1Operations DEF R1!enc
    <3>3. R1!Field!Multiply
      BY <3>1, <3>2 DEF R1!Field!Multiply, R1!Field!Element
    <3>. QED BY <3>2, <3>3 DEF R1!Field!Next
  <2>5. CASE R1!Divide
    <3>1. PICK x \in 0 .. (modulus - 1) :
            x # 0 /\ last' = <<"div", x>> /\ reg' = R1!montgomeryDiv(reg, R1!enc(x), modulus, nPrime, r2)
      BY <2>5 DEF R1!Divide, R1!Element
    <3>2. reg' \in 0 .. (modulus - 1)
          /\ (R1!outOfMontgomeryForm(reg', modulus, nPrime) * x) % modulus = R1!outOfMontgomeryForm(reg, modulus, nPrime)
      BY <1>2, <3>1, R1Operations DEF R1!enc
    <3>3. R1!outOfMontgomeryForm(reg', modulus, nPrime) \in 0 .. (modulus - 1)
      BY <3>2, R1Operations
    <3>4. R1!Field!Divide
      BY <3>1, <3>2, <3>3 DEF R1!Field!Divide, R1!Field!Element
    <3>. QED BY <3>2, <3>4 DEF R1!Field!Next
  <2>. QED BY <1>2, <2>1, <2>2, <2>3, <2>4, <2>5 DEF R1!Next
<1>3. ASSUME reg \in 0 .. (modulus - 1) PROVE R1!EncodingIsFaithful
  BY <1>3, R1Operations DEF R1!EncodingIsFaithful, R1!enc, R1!Element
<1>. QED BY <1>1, <1>2, <1>3

\* The text "k1".
LEMMA K1Operations ==
  ASSUME NEW w \in 0 .. (modulus - 1)
  PROVE
    /\ K1!outOfMontgomeryForm(w, modulus, nPrime) \in 0 .. (modulus - 1)
    /\ \A x \in Word :
         /\ K1!intoMontgomeryForm(x, modulus, nPrime, r2) \in 0 .. (modulus - 1)
         /\ K1!outOfMontgomeryForm(K1!intoMontgomeryForm(x, modulus, nPrime, r2), modulus, nPrime) = x % modulus
    /\ \A x \in 0 .. (modulus - 1) :
         LET e          == K1!intoMontgomeryForm(x, modulus, nPrime, r2)
             sum        == K1!montgomeryAdd(w, e, modulus)
             difference == K1!montgomerySub(w, e, modulus)
             product    == K1!montgomeryMul(w, e, modulus, nPrime)
             quotient   == K1!montgomeryDiv(w, e, modulus, nPrime, r2)
         IN  /\ w = e <=> K1!outOfMontgomeryForm(w, modulus, nPrime) = x
             /\ sum \in 0 .. (modulus - 1)
             /\ K1!outOfMontgomeryForm(sum, modulus, nPrime) = (K1!outOfMontgomeryForm(w, modulus, nPrime) + x) % modulus
             /\ difference \in 0 .. (modulus - 1)
             /\ K1!outOfMontgomeryForm(difference, modulus, nPrime)
                  = (K1!outOfMontgomeryForm(w, modulus, nPrime) - x) % modulus
             /\ product \in 0 .. (modulus - 1)
             /\ K1!outOfMontgomeryForm(product, modulus, nPrime)
                  = (K1!outOfMontgomeryForm(w, modulus, nPrime) * x) % modulus
             /\ x # 0 =>
                  /\ quotient \in 0 .. (modulus - 1)
                  /\ (K1!outOfMontgomeryForm(quotient, modulus, nPrime) * x) % modulus
                       = K1!outOfMontgomeryForm(w, modulus, nPrime)
<1>0. R \in Nat /\ R > 1 /\ R % 2 = 0 /\ "k1" \in {"bn", "r1", "k1"}
  BY WordAssumption
<1>1. \A a, c1, m, mp : K1Words!REDC(a, c1, m, mp) = K1!REDC(a, c1, m, mp)
  BY DEF K1Words!REDC, K1!REDC, K1Words!REDC_k1, K1!REDC_k1, K1Words!mul, K1!mul, K1Words!add,
         K1!add, K1Words!sub, K1!sub, K1Words!overflowingAdd, K1!overflowingAdd,
         K1Words!getHighestHalfOfMultiplication, K1!getHighestHalfOfMultiplication
<1>2. \A x, y, m, mp, m2 :
        /\ K1Words!outOfMontgomeryForm(x, m, mp) = K1!outOfMontgomeryForm(x, m, mp)
        /\ K1Words!intoMontgomeryForm(x, m, mp, m2) = K1!intoMontgomeryForm(x, m, mp, m2)
        /\ K1Words!montgomeryMul(x, y, m, mp) = K1!montgomeryMul(x, y, m, mp)
  BY <1>1 DEF K1Words!outOfMontgomeryForm, K1!outOfMontgomeryForm, K1Words!intoMontgomeryForm,
              K1!intoMontgomeryForm, K1Words!montgomeryMul, K1!montgomeryMul, K1Words!mul, K1!mul,
              K1Words!getHighestHalfOfMultiplication, K1!getHighestHalfOfMultiplication
<1>3. \A x, y, m, mp, m2 : K1Words!montgomeryDiv(x, y, m, mp, m2) = K1!montgomeryDiv(x, y, m, mp, m2)
  BY <1>2 DEF K1Words!montgomeryDiv, K1!montgomeryDiv, K1Words!montgomeryModularInverse,
              K1!montgomeryModularInverse, K1Words!Divides, K1!Divides
<1>4. \A x, y, m : /\ K1Words!montgomeryAdd(x, y, m) = K1!montgomeryAdd(x, y, m)
                   /\ K1Words!montgomerySub(x, y, m) = K1!montgomerySub(x, y, m)
  BY DEF K1Words!montgomeryAdd, K1!montgomeryAdd, K1Words!montgomerySub, K1!montgomerySub,
         K1Words!addmod, K1!addmod, K1Words!add, K1!add, K1Words!sub, K1!sub
<1>5. K1Words!Word = Word
  BY DEF K1Words!Word, Word
<1>6. /\ K1Words!outOfMontgomeryForm(w, modulus, nPrime) \in 0 .. (modulus - 1)
      /\ \A x \in K1Words!Word :
           /\ K1Words!intoMontgomeryForm(x, modulus, nPrime, r2) \in 0 .. (modulus - 1)
           /\ K1Words!outOfMontgomeryForm(K1Words!intoMontgomeryForm(x, modulus, nPrime, r2), modulus, nPrime) = x % modulus
  BY <1>0, TextOrders, K1Words!WordsImplementField
<1>7. ASSUME NEW x \in 0 .. (modulus - 1)
      PROVE  LET e          == K1!intoMontgomeryForm(x, modulus, nPrime, r2)
                 sum        == K1!montgomeryAdd(w, e, modulus)
                 difference == K1!montgomerySub(w, e, modulus)
                 product    == K1!montgomeryMul(w, e, modulus, nPrime)
                 quotient   == K1!montgomeryDiv(w, e, modulus, nPrime, r2)
             IN  /\ w = e <=> K1!outOfMontgomeryForm(w, modulus, nPrime) = x
                 /\ sum \in 0 .. (modulus - 1)
                 /\ K1!outOfMontgomeryForm(sum, modulus, nPrime) = (K1!outOfMontgomeryForm(w, modulus, nPrime) + x) % modulus
                 /\ difference \in 0 .. (modulus - 1)
                 /\ K1!outOfMontgomeryForm(difference, modulus, nPrime)
                      = (K1!outOfMontgomeryForm(w, modulus, nPrime) - x) % modulus
                 /\ product \in 0 .. (modulus - 1)
                 /\ K1!outOfMontgomeryForm(product, modulus, nPrime)
                      = (K1!outOfMontgomeryForm(w, modulus, nPrime) * x) % modulus
                 /\ x # 0 =>
                      /\ quotient \in 0 .. (modulus - 1)
                      /\ (K1!outOfMontgomeryForm(quotient, modulus, nPrime) * x) % modulus
                           = K1!outOfMontgomeryForm(w, modulus, nPrime)
  <2>. DEFINE e          == K1Words!intoMontgomeryForm(x, modulus, nPrime, r2)
              sum        == K1Words!montgomeryAdd(w, e, modulus)
              difference == K1Words!montgomerySub(w, e, modulus)
              product    == K1Words!montgomeryMul(w, e, modulus, nPrime)
              quotient   == K1Words!montgomeryDiv(w, e, modulus, nPrime, r2)
  <2>1. /\ w = e <=> K1Words!outOfMontgomeryForm(w, modulus, nPrime) = x
        /\ sum \in 0 .. (modulus - 1)
        /\ K1Words!outOfMontgomeryForm(sum, modulus, nPrime) = (K1Words!outOfMontgomeryForm(w, modulus, nPrime) + x) % modulus
        /\ difference \in 0 .. (modulus - 1)
        /\ K1Words!outOfMontgomeryForm(difference, modulus, nPrime)
             = (K1Words!outOfMontgomeryForm(w, modulus, nPrime) - x) % modulus
        /\ product \in 0 .. (modulus - 1)
        /\ K1Words!outOfMontgomeryForm(product, modulus, nPrime)
             = (K1Words!outOfMontgomeryForm(w, modulus, nPrime) * x) % modulus
        /\ x # 0 =>
             /\ quotient \in 0 .. (modulus - 1)
             /\ (K1Words!outOfMontgomeryForm(quotient, modulus, nPrime) * x) % modulus
                  = K1Words!outOfMontgomeryForm(w, modulus, nPrime)
    BY <1>0, TextOrders, K1Words!WordsImplementField
  <2>2. e = K1!intoMontgomeryForm(x, modulus, nPrime, r2)
    BY <1>2
  <2>3. /\ sum = K1!montgomeryAdd(w, K1!intoMontgomeryForm(x, modulus, nPrime, r2), modulus)
        /\ difference = K1!montgomerySub(w, K1!intoMontgomeryForm(x, modulus, nPrime, r2), modulus)
        /\ product = K1!montgomeryMul(w, K1!intoMontgomeryForm(x, modulus, nPrime, r2), modulus, nPrime)
        /\ quotient = K1!montgomeryDiv(w, K1!intoMontgomeryForm(x, modulus, nPrime, r2), modulus, nPrime, r2)
    BY <1>2, <1>3, <1>4, <2>2
  <2>4. \A y : K1Words!outOfMontgomeryForm(y, modulus, nPrime) = K1!outOfMontgomeryForm(y, modulus, nPrime)
    BY <1>2
  <2>. HIDE DEF e, sum, difference, product, quotient
  <2>. QED BY <2>1, <2>2, <2>3, <2>4
<1>. QED BY <1>2, <1>5, <1>6, <1>7

LEMMA K1Refines ==
  /\ K1!Init => reg \in 0 .. (modulus - 1) /\ K1!Field!Init
  /\ reg \in 0 .. (modulus - 1) /\ K1!Next => reg' \in 0 .. (modulus - 1) /\ K1!Field!Next
  /\ reg \in 0 .. (modulus - 1) => K1!EncodingIsFaithful
<1>0. modulus \in Nat /\ modulus > 0 /\ 0 \in 0 .. (modulus - 1) /\ 0 \in Word /\ 0 % modulus = 0
  <2>1. modulus \in Nat /\ modulus > 0 /\ R \in Nat /\ R > 1
    BY TextOrders, WordAssumption DEF K1Words!IsOrder, K1Words!IsPrime
  <2>. QED BY <2>1, SmallRemainder DEF Word
<1>1. K1!Init => reg \in 0 .. (modulus - 1) /\ K1!Field!Init
  BY <1>0, K1Operations DEF K1!Init, K1!enc, K1!Field!Init
<1>2. ASSUME reg \in 0 .. (modulus - 1), K1!Next
      PROVE  reg' \in 0 .. (modulus - 1) /\ K1!Field!Next
  <2>1. CASE K1!Load
    <3>1. PICK x \in Word : last' = <<"load", x>> /\ reg' = K1!enc(x)
      BY <2>1 DEF K1!Load, K1!Word, Word
    <3>2. reg' \in 0 .. (modulus - 1) /\ K1!outOfMontgomeryForm(reg', modulus, nPrime) = x % modulus
      BY <1>2, <3>1, K1Operations DEF K1!enc
    <3>3. K1!Field!Load
      BY <3>1, <3>2 DEF K1!Field!Load, K1!Word, Word
    <3>. QED BY <3>2, <3>3 DEF K1!Field!Next
  <2>2. CASE K1!Add
    <3>1. PICK x \in 0 .. (modulus - 1) : last' = <<"add", x>> /\ reg' = K1!montgomeryAdd(reg, K1!enc(x), modulus)
      BY <2>2 DEF K1!Add, K1!Element
    <3>2. reg' \in 0 .. (modulus - 1)
          /\ K1!outOfMontgomeryForm(reg', modulus, nPrime) = (K1!outOfMontgomeryForm(reg, modulus, nPrime) + x) % modulus
      BY <1>2, <3>1, K1Operations DEF K1!enc
    <3>3. K1!Field!Add
      BY <3>1, <3>2 DEF K1!Field!Add, K1!Field!Element
    <3>. QED BY <3>2, <3>3 DEF K1!Field!Next
  <2>3. CASE K1!Subtract
    <3>1. PICK x \in 0 .. (modulus - 1) : last' = <<"sub", x>> /\ reg' = K1!montgomerySub(reg, K1!enc(x), modulus)
      BY <2>3 DEF K1!Subtract, K1!Element
    <3>2. reg' \in 0 .. (modulus - 1)
          /\ K1!outOfMontgomeryForm(reg', modulus, nPrime) = (K1!outOfMontgomeryForm(reg, modulus, nPrime) - x) % modulus
      BY <1>2, <3>1, K1Operations DEF K1!enc
    <3>3. K1!Field!Subtract
      BY <3>1, <3>2 DEF K1!Field!Subtract, K1!Field!Element
    <3>. QED BY <3>2, <3>3 DEF K1!Field!Next
  <2>4. CASE K1!Multiply
    <3>1. PICK x \in 0 .. (modulus - 1) :
            last' = <<"mul", x>> /\ reg' = K1!montgomeryMul(reg, K1!enc(x), modulus, nPrime)
      BY <2>4 DEF K1!Multiply, K1!Element
    <3>2. reg' \in 0 .. (modulus - 1)
          /\ K1!outOfMontgomeryForm(reg', modulus, nPrime) = (K1!outOfMontgomeryForm(reg, modulus, nPrime) * x) % modulus
      BY <1>2, <3>1, K1Operations DEF K1!enc
    <3>3. K1!Field!Multiply
      BY <3>1, <3>2 DEF K1!Field!Multiply, K1!Field!Element
    <3>. QED BY <3>2, <3>3 DEF K1!Field!Next
  <2>5. CASE K1!Divide
    <3>1. PICK x \in 0 .. (modulus - 1) :
            x # 0 /\ last' = <<"div", x>> /\ reg' = K1!montgomeryDiv(reg, K1!enc(x), modulus, nPrime, r2)
      BY <2>5 DEF K1!Divide, K1!Element
    <3>2. reg' \in 0 .. (modulus - 1)
          /\ (K1!outOfMontgomeryForm(reg', modulus, nPrime) * x) % modulus = K1!outOfMontgomeryForm(reg, modulus, nPrime)
      BY <1>2, <3>1, K1Operations DEF K1!enc
    <3>3. K1!outOfMontgomeryForm(reg', modulus, nPrime) \in 0 .. (modulus - 1)
      BY <3>2, K1Operations
    <3>4. K1!Field!Divide
      BY <3>1, <3>2, <3>3 DEF K1!Field!Divide, K1!Field!Element
    <3>. QED BY <3>2, <3>4 DEF K1!Field!Next
  <2>. QED BY <1>2, <2>1, <2>2, <2>3, <2>4, <2>5 DEF K1!Next
<1>3. ASSUME reg \in 0 .. (modulus - 1) PROVE K1!EncodingIsFaithful
  BY <1>3, K1Operations DEF K1!EncodingIsFaithful, K1!enc, K1!Element
<1>. QED BY <1>1, <1>2, <1>3

\* The text "bn".
LEMMA BNOperations ==
  ASSUME NEW w \in 0 .. (bnOrder - 1)
  PROVE
    /\ BN!outOfMontgomeryForm(w, bnOrder, bnPrime) \in 0 .. (bnOrder - 1)
    /\ \A x \in Word :
         /\ BN!intoMontgomeryForm(x, bnOrder, bnPrime, bnR2) \in 0 .. (bnOrder - 1)
         /\ BN!outOfMontgomeryForm(BN!intoMontgomeryForm(x, bnOrder, bnPrime, bnR2), bnOrder, bnPrime) = x % bnOrder
    /\ \A x \in 0 .. (bnOrder - 1) :
         LET e          == BN!intoMontgomeryForm(x, bnOrder, bnPrime, bnR2)
             sum        == BN!montgomeryAdd(w, e, bnOrder)
             difference == BN!montgomerySub(w, e, bnOrder)
             product    == BN!montgomeryMul(w, e, bnOrder, bnPrime)
             quotient   == BN!montgomeryDiv(w, e, bnOrder, bnPrime, bnR2)
         IN  /\ w = e <=> BN!outOfMontgomeryForm(w, bnOrder, bnPrime) = x
             /\ sum \in 0 .. (bnOrder - 1)
             /\ BN!outOfMontgomeryForm(sum, bnOrder, bnPrime) = (BN!outOfMontgomeryForm(w, bnOrder, bnPrime) + x) % bnOrder
             /\ difference \in 0 .. (bnOrder - 1)
             /\ BN!outOfMontgomeryForm(difference, bnOrder, bnPrime)
                  = (BN!outOfMontgomeryForm(w, bnOrder, bnPrime) - x) % bnOrder
             /\ product \in 0 .. (bnOrder - 1)
             /\ BN!outOfMontgomeryForm(product, bnOrder, bnPrime)
                  = (BN!outOfMontgomeryForm(w, bnOrder, bnPrime) * x) % bnOrder
             /\ x # 0 =>
                  /\ quotient \in 0 .. (bnOrder - 1)
                  /\ (BN!outOfMontgomeryForm(quotient, bnOrder, bnPrime) * x) % bnOrder
                       = BN!outOfMontgomeryForm(w, bnOrder, bnPrime)
<1>0. R \in Nat /\ R > 1 /\ R % 2 = 0 /\ "bn" \in {"bn", "r1", "k1"}
  BY WordAssumption
<1>1. \A a, c1, m, mp : BNWords!REDC(a, c1, m, mp) = BN!REDC(a, c1, m, mp)
  BY DEF BNWords!REDC, BN!REDC, BNWords!REDC_bn, BN!REDC_bn, BNWords!mul, BN!mul, BNWords!add,
         BN!add, BNWords!sub, BN!sub, BNWords!overflowingAdd, BN!overflowingAdd,
         BNWords!getHighestHalfOfMultiplication, BN!getHighestHalfOfMultiplication
<1>2. \A x, y, m, mp, m2 :
        /\ BNWords!outOfMontgomeryForm(x, m, mp) = BN!outOfMontgomeryForm(x, m, mp)
        /\ BNWords!intoMontgomeryForm(x, m, mp, m2) = BN!intoMontgomeryForm(x, m, mp, m2)
        /\ BNWords!montgomeryMul(x, y, m, mp) = BN!montgomeryMul(x, y, m, mp)
  BY <1>1 DEF BNWords!outOfMontgomeryForm, BN!outOfMontgomeryForm, BNWords!intoMontgomeryForm,
              BN!intoMontgomeryForm, BNWords!montgomeryMul, BN!montgomeryMul, BNWords!mul, BN!mul,
              BNWords!getHighestHalfOfMultiplication, BN!getHighestHalfOfMultiplication
<1>3. \A x, y, m, mp, m2 : BNWords!montgomeryDiv(x, y, m, mp, m2) = BN!montgomeryDiv(x, y, m, mp, m2)
  BY <1>2 DEF BNWords!montgomeryDiv, BN!montgomeryDiv, BNWords!montgomeryModularInverse,
              BN!montgomeryModularInverse, BNWords!Divides, BN!Divides
<1>4. \A x, y, m : /\ BNWords!montgomeryAdd(x, y, m) = BN!montgomeryAdd(x, y, m)
                   /\ BNWords!montgomerySub(x, y, m) = BN!montgomerySub(x, y, m)
  BY DEF BNWords!montgomeryAdd, BN!montgomeryAdd, BNWords!montgomerySub, BN!montgomerySub,
         BNWords!addmod, BN!addmod, BNWords!add, BN!add, BNWords!sub, BN!sub
<1>5. BNWords!Word = Word
  BY DEF BNWords!Word, Word
<1>6. /\ BNWords!outOfMontgomeryForm(w, bnOrder, bnPrime) \in 0 .. (bnOrder - 1)
      /\ \A x \in BNWords!Word :
           /\ BNWords!intoMontgomeryForm(x, bnOrder, bnPrime, bnR2) \in 0 .. (bnOrder - 1)
           /\ BNWords!outOfMontgomeryForm(BNWords!intoMontgomeryForm(x, bnOrder, bnPrime, bnR2), bnOrder, bnPrime) = x % bnOrder
  BY <1>0, TextOrders, BNWords!WordsImplementField
<1>7. ASSUME NEW x \in 0 .. (bnOrder - 1)
      PROVE  LET e          == BN!intoMontgomeryForm(x, bnOrder, bnPrime, bnR2)
                 sum        == BN!montgomeryAdd(w, e, bnOrder)
                 difference == BN!montgomerySub(w, e, bnOrder)
                 product    == BN!montgomeryMul(w, e, bnOrder, bnPrime)
                 quotient   == BN!montgomeryDiv(w, e, bnOrder, bnPrime, bnR2)
             IN  /\ w = e <=> BN!outOfMontgomeryForm(w, bnOrder, bnPrime) = x
                 /\ sum \in 0 .. (bnOrder - 1)
                 /\ BN!outOfMontgomeryForm(sum, bnOrder, bnPrime) = (BN!outOfMontgomeryForm(w, bnOrder, bnPrime) + x) % bnOrder
                 /\ difference \in 0 .. (bnOrder - 1)
                 /\ BN!outOfMontgomeryForm(difference, bnOrder, bnPrime)
                      = (BN!outOfMontgomeryForm(w, bnOrder, bnPrime) - x) % bnOrder
                 /\ product \in 0 .. (bnOrder - 1)
                 /\ BN!outOfMontgomeryForm(product, bnOrder, bnPrime)
                      = (BN!outOfMontgomeryForm(w, bnOrder, bnPrime) * x) % bnOrder
                 /\ x # 0 =>
                      /\ quotient \in 0 .. (bnOrder - 1)
                      /\ (BN!outOfMontgomeryForm(quotient, bnOrder, bnPrime) * x) % bnOrder
                           = BN!outOfMontgomeryForm(w, bnOrder, bnPrime)
  <2>. DEFINE e          == BNWords!intoMontgomeryForm(x, bnOrder, bnPrime, bnR2)
              sum        == BNWords!montgomeryAdd(w, e, bnOrder)
              difference == BNWords!montgomerySub(w, e, bnOrder)
              product    == BNWords!montgomeryMul(w, e, bnOrder, bnPrime)
              quotient   == BNWords!montgomeryDiv(w, e, bnOrder, bnPrime, bnR2)
  <2>1. /\ w = e <=> BNWords!outOfMontgomeryForm(w, bnOrder, bnPrime) = x
        /\ sum \in 0 .. (bnOrder - 1)
        /\ BNWords!outOfMontgomeryForm(sum, bnOrder, bnPrime) = (BNWords!outOfMontgomeryForm(w, bnOrder, bnPrime) + x) % bnOrder
        /\ difference \in 0 .. (bnOrder - 1)
        /\ BNWords!outOfMontgomeryForm(difference, bnOrder, bnPrime)
             = (BNWords!outOfMontgomeryForm(w, bnOrder, bnPrime) - x) % bnOrder
        /\ product \in 0 .. (bnOrder - 1)
        /\ BNWords!outOfMontgomeryForm(product, bnOrder, bnPrime)
             = (BNWords!outOfMontgomeryForm(w, bnOrder, bnPrime) * x) % bnOrder
        /\ x # 0 =>
             /\ quotient \in 0 .. (bnOrder - 1)
             /\ (BNWords!outOfMontgomeryForm(quotient, bnOrder, bnPrime) * x) % bnOrder
                  = BNWords!outOfMontgomeryForm(w, bnOrder, bnPrime)
    BY <1>0, TextOrders, BNWords!WordsImplementField
  <2>2. e = BN!intoMontgomeryForm(x, bnOrder, bnPrime, bnR2)
    BY <1>2
  <2>3. /\ sum = BN!montgomeryAdd(w, BN!intoMontgomeryForm(x, bnOrder, bnPrime, bnR2), bnOrder)
        /\ difference = BN!montgomerySub(w, BN!intoMontgomeryForm(x, bnOrder, bnPrime, bnR2), bnOrder)
        /\ product = BN!montgomeryMul(w, BN!intoMontgomeryForm(x, bnOrder, bnPrime, bnR2), bnOrder, bnPrime)
        /\ quotient = BN!montgomeryDiv(w, BN!intoMontgomeryForm(x, bnOrder, bnPrime, bnR2), bnOrder, bnPrime, bnR2)
    BY <1>2, <1>3, <1>4, <2>2
  <2>4. \A y : BNWords!outOfMontgomeryForm(y, bnOrder, bnPrime) = BN!outOfMontgomeryForm(y, bnOrder, bnPrime)
    BY <1>2
  <2>. HIDE DEF e, sum, difference, product, quotient
  <2>. QED BY <2>1, <2>2, <2>3, <2>4
<1>. QED BY <1>2, <1>5, <1>6, <1>7

LEMMA BNRefines ==
  /\ BN!Init => reg \in 0 .. (bnOrder - 1) /\ BN!Field!Init
  /\ reg \in 0 .. (bnOrder - 1) /\ BN!Next => reg' \in 0 .. (bnOrder - 1) /\ BN!Field!Next
  /\ reg \in 0 .. (bnOrder - 1) => BN!EncodingIsFaithful
<1>0. bnOrder \in Nat /\ bnOrder > 0 /\ 0 \in 0 .. (bnOrder - 1) /\ 0 \in Word /\ 0 % bnOrder = 0
  <2>1. bnOrder \in Nat /\ bnOrder > 0 /\ R \in Nat /\ R > 1
    BY TextOrders, WordAssumption DEF BNWords!IsOrder, BNWords!IsPrime
  <2>. QED BY <2>1, SmallRemainder DEF Word
<1>1. BN!Init => reg \in 0 .. (bnOrder - 1) /\ BN!Field!Init
  BY <1>0, BNOperations DEF BN!Init, BN!enc, BN!Field!Init
<1>2. ASSUME reg \in 0 .. (bnOrder - 1), BN!Next
      PROVE  reg' \in 0 .. (bnOrder - 1) /\ BN!Field!Next
  <2>1. CASE BN!Load
    <3>1. PICK x \in Word : last' = <<"load", x>> /\ reg' = BN!enc(x)
      BY <2>1 DEF BN!Load, BN!Word, Word
    <3>2. reg' \in 0 .. (bnOrder - 1) /\ BN!outOfMontgomeryForm(reg', bnOrder, bnPrime) = x % bnOrder
      BY <1>2, <3>1, BNOperations DEF BN!enc
    <3>3. BN!Field!Load
      BY <3>1, <3>2 DEF BN!Field!Load, BN!Word, Word
    <3>. QED BY <3>2, <3>3 DEF BN!Field!Next
  <2>2. CASE BN!Add
    <3>1. PICK x \in 0 .. (bnOrder - 1) : last' = <<"add", x>> /\ reg' = BN!montgomeryAdd(reg, BN!enc(x), bnOrder)
      BY <2>2 DEF BN!Add, BN!Element
    <3>2. reg' \in 0 .. (bnOrder - 1)
          /\ BN!outOfMontgomeryForm(reg', bnOrder, bnPrime) = (BN!outOfMontgomeryForm(reg, bnOrder, bnPrime) + x) % bnOrder
      BY <1>2, <3>1, BNOperations DEF BN!enc
    <3>3. BN!Field!Add
      BY <3>1, <3>2 DEF BN!Field!Add, BN!Field!Element
    <3>. QED BY <3>2, <3>3 DEF BN!Field!Next
  <2>3. CASE BN!Subtract
    <3>1. PICK x \in 0 .. (bnOrder - 1) : last' = <<"sub", x>> /\ reg' = BN!montgomerySub(reg, BN!enc(x), bnOrder)
      BY <2>3 DEF BN!Subtract, BN!Element
    <3>2. reg' \in 0 .. (bnOrder - 1)
          /\ BN!outOfMontgomeryForm(reg', bnOrder, bnPrime) = (BN!outOfMontgomeryForm(reg, bnOrder, bnPrime) - x) % bnOrder
      BY <1>2, <3>1, BNOperations DEF BN!enc
    <3>3. BN!Field!Subtract
      BY <3>1, <3>2 DEF BN!Field!Subtract, BN!Field!Element
    <3>. QED BY <3>2, <3>3 DEF BN!Field!Next
  <2>4. CASE BN!Multiply
    <3>1. PICK x \in 0 .. (bnOrder - 1) :
            last' = <<"mul", x>> /\ reg' = BN!montgomeryMul(reg, BN!enc(x), bnOrder, bnPrime)
      BY <2>4 DEF BN!Multiply, BN!Element
    <3>2. reg' \in 0 .. (bnOrder - 1)
          /\ BN!outOfMontgomeryForm(reg', bnOrder, bnPrime) = (BN!outOfMontgomeryForm(reg, bnOrder, bnPrime) * x) % bnOrder
      BY <1>2, <3>1, BNOperations DEF BN!enc
    <3>3. BN!Field!Multiply
      BY <3>1, <3>2 DEF BN!Field!Multiply, BN!Field!Element
    <3>. QED BY <3>2, <3>3 DEF BN!Field!Next
  <2>5. CASE BN!Divide
    <3>1. PICK x \in 0 .. (bnOrder - 1) :
            x # 0 /\ last' = <<"div", x>> /\ reg' = BN!montgomeryDiv(reg, BN!enc(x), bnOrder, bnPrime, bnR2)
      BY <2>5 DEF BN!Divide, BN!Element
    <3>2. reg' \in 0 .. (bnOrder - 1)
          /\ (BN!outOfMontgomeryForm(reg', bnOrder, bnPrime) * x) % bnOrder = BN!outOfMontgomeryForm(reg, bnOrder, bnPrime)
      BY <1>2, <3>1, BNOperations DEF BN!enc
    <3>3. BN!outOfMontgomeryForm(reg', bnOrder, bnPrime) \in 0 .. (bnOrder - 1)
      BY <3>2, BNOperations
    <3>4. BN!Field!Divide
      BY <3>1, <3>2, <3>3 DEF BN!Field!Divide, BN!Field!Element
    <3>. QED BY <3>2, <3>4 DEF BN!Field!Next
  <2>. QED BY <1>2, <2>1, <2>2, <2>3, <2>4, <2>5 DEF BN!Next
<1>3. ASSUME reg \in 0 .. (bnOrder - 1) PROVE BN!EncodingIsFaithful
  BY <1>3, BNOperations DEF BN!EncodingIsFaithful, BN!enc, BN!Element
<1>. QED BY <1>1, <1>2, <1>3


\* The register holds a reduced word, whatever computed it.
RegisterInv ==
  CASE text \in {"r1", "k1"} -> reg \in 0 .. (modulus - 1)
    [] text = "bn" -> reg \in 0 .. (bnOrder - 1)
    [] text = "inverse" -> TRUE
    [] OTHER -> FALSE

LEMMA RegisterInit == MCInit => RegisterInv
BY R1Refines, K1Refines, BNRefines DEF MCInit, RegisterInv

LEMMA RegisterStep ==
  RegisterInv /\ [Invert \/ Compute]_<<vars, text, reg, last>> => RegisterInv'
<1>. SUFFICES ASSUME RegisterInv, [Invert \/ Compute]_<<vars, text, reg, last>>
              PROVE  RegisterInv'
  OBVIOUS
<1>1. CASE Invert \/ UNCHANGED <<vars, text, reg, last>>
  <2>1. UNCHANGED <<text, reg>>
    BY <1>1 DEF Invert
  <2>. QED BY <2>1 DEF RegisterInv
<1>2. CASE Compute
  <2>1. /\ \/ text = "r1" /\ R1!Next
           \/ text = "k1" /\ K1!Next
           \/ text = "bn" /\ BN!Next
        /\ text' = text
    BY <1>2 DEF Compute
  <2>. QED BY <2>1, R1Refines, K1Refines, BNRefines DEF RegisterInv
<1>. QED BY <1>1, <1>2

\* Comparing words in Montgomery form decides equality of field elements in
\* each text, for every word size and order, after any operations.
THEOREM EncodingAlwaysFaithful == MCSpec => []EncodingIsFaithfulInAll
<1>1. RegisterInv => EncodingIsFaithfulInAll
  BY R1Refines, K1Refines, BNRefines DEF RegisterInv, EncodingIsFaithfulInAll
<1>. QED BY <1>1, RegisterInit, RegisterStep, PTL DEF MCSpec

\* Each text implements the prime field, for every word size and order: one
\* step of the register is one operation of the field on what it stands for.
THEOREM TextsImplementField == MCSpec => ImplementsField
<1>1. MCInit => CASE text = "r1" -> R1!Field!Init [] text = "k1" -> K1!Field!Init
                  [] text = "bn" -> BN!Field!Init [] text = "inverse" -> TRUE
  BY R1Refines, K1Refines, BNRefines DEF MCInit
<1>2. RegisterInv /\ [Invert \/ Compute]_<<vars, text, reg, last>>
        => [CASE text = "inverse" -> FALSE
              [] text = "r1" -> R1!Field!Next
              [] text = "k1" -> K1!Field!Next
              [] text = "bn" -> BN!Field!Next]_<<reg, last>>
  <2>. SUFFICES ASSUME RegisterInv, [Invert \/ Compute]_<<vars, text, reg, last>>,
                       ~ UNCHANGED <<reg, last>>
                PROVE  CASE text = "inverse" -> FALSE
                         [] text = "r1" -> R1!Field!Next
                         [] text = "k1" -> K1!Field!Next
                         [] text = "bn" -> BN!Field!Next
    OBVIOUS
  <2>1. Compute
    BY DEF Invert
  <2>2. \/ text = "r1" /\ R1!Next
        \/ text = "k1" /\ K1!Next
        \/ text = "bn" /\ BN!Next
    BY <2>1 DEF Compute
  <2>. QED BY <2>2, R1Refines, K1Refines, BNRefines DEF RegisterInv
<1>. QED BY <1>1, <1>2, RegisterInit, RegisterStep, PTL DEF MCSpec, ImplementsField
=============================================================================
