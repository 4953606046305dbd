-------------------------- MODULE PrecompileProofs --------------------------
(***************************************************************************)
(* EcAdd returns the sum in the group and EcMul the product by a scalar,   *)
(* for every prime field order with a spare bit in the word and every      *)
(* calldata; and the tables of AltBn128 that both compute with are what    *)
(* the texts of the contracts compute.                                     *)
(*                                                                         *)
(* ModExp, for every size of bytes and limbs and every calldata: the       *)
(* operands of a call survive everything that bigUIntShl writes next to    *)
(* its buffers, its division keeps a remainder that is congruent and       *)
(* bounded, and a call that none of the lost carries reached is answered   *)
(* with the power.                                                         *)
(***************************************************************************)
EXTENDS MCPrecompiles, CurveProofs


-----------------------------------------------------------------------------
(***************************************************************************)
(* The field and its Montgomery form.  A word m stands for the element     *)
(* outOf[m] = m/R; outOf takes the tabulated operations to sum, difference *)
(* and product modulo P.                                                   *)
(***************************************************************************)

LEMMA FieldFacts ==
  /\ P \in Nat /\ P > 3 /\ P > 0 /\ IsPrime(P) /\ F = 0 .. (P - 1) /\ F \subseteq Int
  /\ R \in Nat /\ R > 1 /\ 2 * P <= R /\ P \in 1 .. (R - 1)
  /\ IsOrder(P, N_PRIME, R2_MOD_P)
  /\ R_INVERSE = radixInverse(P)
<1>1. /\ P \in Nat /\ P > 3 /\ P > 0 /\ IsPrime(P) /\ F = 0 .. (P - 1) /\ F \subseteq Int
      /\ R \in Nat /\ R > 1 /\ 2 * P <= R /\ P \in 1 .. (R - 1)
  BY CurveAssumption, WordAssumption, AltBn128Assumption DEF IsPrime, F
<1>2. IsOrder(P, N_PRIME, R2_MOD_P)
  <2>1. P < R /\ P > 2 /\ IsPrime(P)
    BY <1>1
  <2>. QED BY <2>1, AltBn128Assumption DEF IsOrder
<1>3. R_INVERSE = radixInverse(P)
  BY DEF R_INVERSE, radixInverse, F
<1>. QED BY <1>1, <1>2, <1>3

\* N_PRIME shows that R has an inverse modulo P.
LEMMA RadixInverse ==
  R_INVERSE \in F /\ TimesMod(P, R, R_INVERSE) = 1
BY FieldFacts, RadixInverts

\* The tables in terms of sum, difference and product modulo P.
LEMMA Tables ==
  ASSUME NEW a \in F, NEW b \in F
  PROVE  /\ mAdd(a, b) = PlusMod(P, a, b)
         /\ mSub(a, b) = MinusMod(P, a, b)
         /\ mMul(a, b) = TimesMod(P, TimesMod(P, a, b), R_INVERSE)
         /\ into[a] = TimesMod(P, a, R)
         /\ outOf[a] = TimesMod(P, a, R_INVERSE)
<1>1. mAdd(a, b) = PlusMod(P, a, b) /\ mSub(a, b) = MinusMod(P, a, b)
  BY DEF mAdd, additions, mSub, subtractions, PlusMod, MinusMod
<1>2. into[a] = TimesMod(P, a, R) /\ outOf[a] = TimesMod(P, a, R_INVERSE)
  BY DEF into, outOf, TimesMod
<1>3. mMul(a, b) = TimesMod(P, a * b, R_INVERSE)
  BY DEF mMul, multiplications, TimesMod
<1>4. TimesMod(P, a * b, R_INVERSE) = TimesMod(P, TimesMod(P, a, b), R_INVERSE)
  <2>. DEFINE product == a * b
  <2>1. product \in Int /\ TimesMod(P, a, b) = product % P
    BY FieldFacts, SMT DEF TimesMod
  <2>. HIDE DEF product
  <2>2. TimesMod(P, product % P, R_INVERSE) = TimesMod(P, product, R_INVERSE)
    BY <2>1, FieldFacts, RadixInverse, EarlyRemainder
  <2>. QED BY <2>1, <2>2 DEF product
<1>. QED BY <1>1, <1>2, <1>3, <1>4

LEMMA TablesInField ==
  ASSUME NEW a \in F, NEW b \in F
  PROVE  {mAdd(a, b), mSub(a, b), mMul(a, b), into[a], outOf[a]} \subseteq F
<1>1. a \in Int /\ b \in Int /\ R \in Int /\ R_INVERSE \in Int
  BY FieldFacts, RadixInverse
<1>2. TimesMod(P, a, b) \in Int /\ TimesMod(P, a, b) \in F
  BY <1>1, FieldFacts, Closed
<1>3. /\ PlusMod(P, a, b) \in F /\ MinusMod(P, a, b) \in F
      /\ TimesMod(P, a, R) \in F /\ TimesMod(P, a, R_INVERSE) \in F
      /\ TimesMod(P, TimesMod(P, a, b), R_INVERSE) \in F
  BY <1>1, <1>2, FieldFacts, Closed
<1>. QED BY <1>3, Tables

\* Going into Montgomery form and out of it cancel.
LEMMA RoundTrip ==
  ASSUME NEW a \in F
  PROVE  outOf[into[a]] = a /\ into[outOf[a]] = a
<1>1. a \in Int /\ a % P = a /\ into[a] \in F /\ outOf[a] \in F
  BY FieldFacts, OrderFacts, TablesInField
<1>2. \A c \in F : into[c] = encode(P, c) /\ outOf[c] = decode(P, c)
  BY FieldFacts, Tables DEF encode, decode
<1>3. decode(P, encode(P, a)) = a % P /\ encode(P, decode(P, a)) = a % P
  BY <1>1, FieldFacts, EncodeDecode
<1>. QED BY <1>1, <1>2, <1>3

\* outOf takes the operations on words to those of the field.
LEMMA OutOfOperations ==
  ASSUME NEW a \in F, NEW b \in F
  PROVE  /\ outOf[mAdd(a, b)] = PlusMod(P, outOf[a], outOf[b])
         /\ outOf[mSub(a, b)] = MinusMod(P, outOf[a], outOf[b])
         /\ outOf[mMul(a, b)] = TimesMod(P, outOf[a], outOf[b])
<1>1. a \in Int /\ b \in Int
  BY FieldFacts
<1>2. mAdd(a, b) \in F /\ mSub(a, b) \in F /\ mMul(a, b) \in F
  BY TablesInField
<1>3. \A c \in F : outOf[c] = decode(P, c)
  BY FieldFacts, Tables DEF decode
<1>4. mMul(a, b) = decode(P, TimesMod(P, a, b))
  BY FieldFacts, Tables DEF decode
<1>5. /\ decode(P, PlusMod(P, a, b)) = PlusMod(P, decode(P, a), decode(P, b))
      /\ decode(P, MinusMod(P, a, b)) = MinusMod(P, decode(P, a), decode(P, b))
      /\ decode(P, decode(P, TimesMod(P, a, b))) = TimesMod(P, decode(P, a), decode(P, b))
  BY <1>1, FieldFacts, DecodeOperations
<1>. QED BY <1>2, <1>3, <1>4, <1>5, Tables

\* Words that stand for the same element are equal; zero stands for zero.
LEMMA OutOfInjective ==
  /\ \A a, b \in F : outOf[a] = outOf[b] => a = b
  /\ 0 \in F /\ outOf[0] = 0
<1>1. \A a, b \in F : outOf[a] = outOf[b] => a = b
  BY RoundTrip
<1>2. 0 \in F
  BY FieldFacts
<1>3. outOf[0] = 0
  <2>1. 0 * R_INVERSE = 0
    BY FieldFacts, RadixInverse
  <2>2. 0 % P = 0
    BY <1>2, FieldFacts, SmallRemainder
  <2>. QED BY <1>2, <2>1, <2>2 DEF outOf
<1>. QED BY <1>1, <1>2, <1>3

\* The inverse of a word stands for the inverse of its element.
LEMMA OutOfInverse ==
  ASSUME NEW a \in F, a # 0
  PROVE  /\ mInv[a] \in F
         /\ outOf[a] # 0 /\ outOf[mInv[a]] = InverseModP(outOf[a])
<1>1. outOf[a] \in F /\ outOf[a] # 0 /\ outOf[a] \in Int
  BY OutOfInjective, TablesInField, FieldFacts
<1>2. mInv[a] \in F /\ TimesMod(P, outOf[a], outOf[mInv[a]]) = 1
  <2>1. a \in 1 .. (P - 1)
    BY FieldFacts
  <2>2. mInv[a] = CHOOSE j \in 0 .. (P - 1) : (a * j - R * R) % P = 0
    BY DEF mInv, F
  <2>3. mInv[a] \in F /\ TimesMod(P, decode(P, a), decode(P, mInv[a])) = 1
    BY <2>1, <2>2, FieldFacts, InverseValue
  <2>4. \A c \in F : outOf[c] = decode(P, c)
    BY FieldFacts, Tables DEF decode
  <2>. QED BY <2>3, <2>4
<1>3. outOf[mInv[a]] \in F
  BY <1>2, TablesInField
<1>4. InverseModP(outOf[a]) \in F /\ TimesMod(P, outOf[a], InverseModP(outOf[a])) = 1
  BY <1>2, <1>3 DEF InverseModP, TimesMod
<1>5. P \in Nat /\ P > 1 /\ F = 0 .. (P - 1)
  BY FieldFacts
<1>6. outOf[mInv[a]] = InverseModP(outOf[a])
  BY <1>1, <1>2, <1>3, <1>4, <1>5, InverseUnique
<1>. QED BY <1>1, <1>2, <1>6

-----------------------------------------------------------------------------
(***************************************************************************)
(* What the contract computes with words is what the group does with       *)
(* field elements.                                                         *)
(***************************************************************************)

\* The curve check decides the curve equation.
LEMMA CurveCheck ==
  ASSUME NEW a \in F, NEW b \in F
  PROVE  pointIsInCurve(into[a], into[b]) <=> OnCurve(a, b)
<1>. DEFINE m == into[a]  n == into[b]  aa == a * a  aaa == aa * a
<1>1. m \in F /\ n \in F /\ outOf[m] = a /\ outOf[n] = b
  BY RoundTrip, TablesInField
<1>2. MONTGOMERY_THREE \in F /\ outOf[MONTGOMERY_THREE] = 3
  <2>1. 3 \in F
    BY FieldFacts
  <2>2. MONTGOMERY_THREE = into[3]
    BY <2>1 DEF MONTGOMERY_THREE, into
  <2>. QED BY <2>1, <2>2, RoundTrip, TablesInField
<1>3. a \in Int /\ b \in Int /\ aa \in Int /\ aaa \in Int
  BY FieldFacts, SMT
<1>4. TimesMod(P, TimesMod(P, a, a), a) = aaa % P /\ TimesMod(P, a, a) \in Int
  <2>1. TimesMod(P, a, a) = aa % P /\ TimesMod(P, aa, a) = aaa % P
    BY DEF TimesMod
  <2>. HIDE DEF aa, aaa
  <2>2. TimesMod(P, aa % P, a) = TimesMod(P, aa, a) /\ aa % P \in Int
    BY <1>3, FieldFacts, EarlyRemainder, RemainderTwice
  <2>. QED BY <2>1, <2>2
<1>5. PlusMod(P, aaa % P, 3) = (aaa + 3) % P
  <2>. HIDE DEF aa, aaa
  <2>1. PICK three \in Int : three = 3
    OBVIOUS
  <2>2. PlusMod(P, aaa % P, three) = PlusMod(P, aaa, three)
    BY <1>3, FieldFacts, EarlyRemainder
  <2>. QED BY <2>1, <2>2 DEF PlusMod
<1>6. OnCurve(a, b) <=> TimesMod(P, b, b) = (aaa + 3) % P
  <2>1. a * a * a + A * a + B = aaa + 3
    <3>1. A = 0 /\ B = 3 /\ 0 * a = 0 /\ a * a * a = aaa
      BY <1>3, AltBn128Assumption
    <3>. HIDE DEF aaa
    <3>. QED BY <1>3, <3>1
  <2>. QED BY <2>1 DEF OnCurve, TimesMod
<1>. HIDE DEF m, n, aa, aaa
<1>. DEFINE cube == mMul(mMul(m, m), m)
<1>7. /\ mMul(n, n) \in F /\ mMul(m, m) \in F /\ cube \in F
      /\ mAdd(cube, MONTGOMERY_THREE) \in F
  BY <1>1, <1>2, TablesInField
<1>8. outOf[mMul(n, n)] = TimesMod(P, b, b)
  BY <1>1, OutOfOperations
<1>9. outOf[mAdd(cube, MONTGOMERY_THREE)] = (aaa + 3) % P
  <2>1. outOf[mMul(m, m)] = TimesMod(P, a, a)
    BY <1>1, OutOfOperations
  <2>2. outOf[cube] = aaa % P
    BY <1>1, <1>4, <1>7, <2>1, OutOfOperations
  <2>. HIDE DEF cube
  <2>3. outOf[mAdd(cube, MONTGOMERY_THREE)] = PlusMod(P, aaa % P, 3)
    BY <1>2, <1>7, <2>2, OutOfOperations
  <2>. QED BY <1>5, <2>3
<1>. HIDE DEF cube
<1>10. mMul(n, n) = mAdd(cube, MONTGOMERY_THREE) <=> TimesMod(P, b, b) = (aaa + 3) % P
  BY <1>7, <1>8, <1>9, OutOfInjective
<1>. QED BY <1>6, <1>10 DEF pointIsInCurve, m, n, cube

\* A valid point is infinity, or in the field and accepted by the curve check.
LEMMA Validity ==
  ASSUME NEW a \in Word, NEW b \in Word
  PROVE  /\ inField(a, b) <=> a \in F /\ b \in F
         /\ isInfinity(a, b) <=> <<a, b>> = Infinity
         /\ ValidPoint(a, b)
              <=> isInfinity(a, b) \/ (inField(a, b) /\ pointIsInCurve(into[a], into[b]))
<1>1. inField(a, b) <=> a \in F /\ b \in F
  BY FieldFacts DEF inField, isOnFieldOrder, Word
<1>2. isInfinity(a, b) <=> <<a, b>> = Infinity
  BY DEF isInfinity, Infinity
<1>3. ValidPoint(a, b) <=> <<a, b>> = Infinity \/ (a \in F /\ b \in F /\ OnCurve(a, b))
  BY DEF ValidPoint, Points
<1>. QED BY <1>1, <1>2, <1>3, CurveCheck

\* The third point of a line, computed step by step modulo P.
LEMMA LineByOperations ==
  ASSUME NEW a \in F, NEW b \in F, NEW c \in F, NEW d \in F, NEW e \in F
  PROVE  LET u == MinusMod(P, TimesMod(P, e, e), PlusMod(P, a, c))
         IN  OnLine(<<a, b>>, <<c, d>>, e)
               = <<u, MinusMod(P, TimesMod(P, e, MinusMod(P, a, u)), b)>>
<1>. DEFINE u == MinusMod(P, TimesMod(P, e, e), PlusMod(P, a, c))
<1>0. a \in Int /\ b \in Int /\ c \in Int /\ e \in Int
  BY FieldFacts
<1>1. (e * e - a - c) % P = u
  <2>. DEFINE ee == e * e  ac == a + c
  <2>1. ee \in Int /\ ac \in Int /\ e * e - a - c = ee - ac
    BY <1>0, SMT
  <2>2. u = MinusMod(P, ee % P, ac % P)
    BY DEF TimesMod, PlusMod
  <2>. HIDE DEF u, ee, ac
  <2>3. ac % P \in Int
    BY <2>1, FieldFacts, RemainderTwice
  <2>4. MinusMod(P, ee % P, ac % P) = MinusMod(P, ee, ac % P)
    BY <2>1, <2>3, FieldFacts, EarlyRemainder
  <2>5. MinusMod(P, ee, ac % P) = MinusMod(P, ee, ac)
    BY <2>1, FieldFacts, EarlyRemainder
  <2>. QED BY <2>1, <2>2, <2>4, <2>5 DEF MinusMod
<1>2. u \in Int
  <2>1. TimesMod(P, e, e) \in Int /\ PlusMod(P, a, c) \in Int
    BY <1>0, FieldFacts, Closed
  <2>. QED BY <2>1, FieldFacts, Closed
<1>. HIDE DEF u
<1>3. (e * (a - u) - b) % P = MinusMod(P, TimesMod(P, e, MinusMod(P, a, u)), b)
  <2>. DEFINE f == a - u  ef == e * f
  <2>1. f \in Int /\ ef \in Int
    BY <1>0, <1>2, SMT
  <2>2. MinusMod(P, a, u) = f % P /\ TimesMod(P, e, f) = ef % P
    BY DEF MinusMod, TimesMod
  <2>. HIDE DEF f, ef
  <2>3. TimesMod(P, e, f % P) = TimesMod(P, e, f)
    BY <1>0, <2>1, FieldFacts, EarlyRemainder
  <2>4. MinusMod(P, ef % P, b) = MinusMod(P, ef, b)
    BY <1>0, <2>1, FieldFacts, EarlyRemainder
  <2>5. MinusMod(P, ef, b) = (e * (a - u) - b) % P
    BY DEF MinusMod, ef, f
  <2>. QED BY <2>2, <2>3, <2>4, <2>5
<1>4. OnLine(<<a, b>>, <<c, d>>, e) = <<u, (e * (a - u) - b) % P>>
  BY <1>1 DEF OnLine
<1>. QED BY <1>3, <1>4 DEF u

\* lineThrough computes it with words.
LEMMA LineThrough ==
  ASSUME NEW a \in F, NEW b \in F, NEW c \in F, NEW d \in F, NEW s \in F
  PROVE  lineThrough(into[a], into[b], into[c], s) = OnLine(<<a, b>>, <<c, d>>, outOf[s])
<1>. DEFINE ma == into[a]  mb == into[b]  mc == into[c]
            square == mMul(s, s)  both == mAdd(ma, mc)  x3 == mSub(square, both)
            difference == mSub(ma, x3)  product == mMul(s, difference)
            y3 == mSub(product, mb)
            e == outOf[s]  u == MinusMod(P, TimesMod(P, e, e), PlusMod(P, a, c))
<1>1. ma \in F /\ mb \in F /\ mc \in F /\ outOf[ma] = a /\ outOf[mb] = b /\ outOf[mc] = c
  BY RoundTrip, TablesInField
<1>2. lineThrough(ma, mb, mc, s) = <<outOf[x3], outOf[y3]>>
  BY DEF lineThrough
<1>. HIDE DEF ma, mb, mc
<1>3. square \in F /\ both \in F /\ e \in F
  BY <1>1, TablesInField
<1>4. outOf[square] = TimesMod(P, e, e) /\ outOf[both] = PlusMod(P, a, c)
  BY <1>1, OutOfOperations
<1>. HIDE DEF square, both
<1>5. x3 \in F /\ outOf[x3] = u
  <2>. HIDE DEF e
  <2>1. x3 \in F
    BY <1>3, TablesInField
  <2>2. outOf[mSub(square, both)] = MinusMod(P, outOf[square], outOf[both])
    BY <1>3, OutOfOperations
  <2>. QED BY <1>4, <2>1, <2>2
<1>. HIDE DEF x3
<1>6. difference \in F /\ outOf[difference] = MinusMod(P, a, u)
  <2>. HIDE DEF e, u
  <2>1. difference \in F
    BY <1>1, <1>5, TablesInField
  <2>2. outOf[mSub(ma, x3)] = MinusMod(P, outOf[ma], outOf[x3])
    BY <1>1, <1>5, OutOfOperations
  <2>. QED BY <1>1, <1>5, <2>1, <2>2
<1>. HIDE DEF difference
<1>7. product \in F /\ outOf[product] = TimesMod(P, e, MinusMod(P, a, u))
  BY <1>6, OutOfOperations, TablesInField
<1>. HIDE DEF product
<1>8. outOf[y3] = MinusMod(P, TimesMod(P, e, MinusMod(P, a, u)), b)
  BY <1>1, <1>7, OutOfOperations
<1>. HIDE DEF y3, e
<1>9. OnLine(<<a, b>>, <<c, d>>, e) = <<u, MinusMod(P, TimesMod(P, e, MinusMod(P, a, u)), b)>>
  BY <1>3, LineByOperations
<1>. QED BY <1>2, <1>5, <1>8, <1>9 DEF ma, mb, mc, e

\* The tangent's slope, computed with words.
LEMMA TangentSlope ==
  ASSUME NEW a \in F, NEW b \in F
  PROVE  LET mx == into[a]
             my == into[b]
             xx == mMul(mx, mx)
             above == mAdd(xx, mAdd(xx, xx))
             below == mAdd(my, my)
         IN  /\ below = 0 <=> (2 * b) % P = 0
             /\ below # 0 =>
                  /\ montgomeryDivision(above, below) \in F
                  /\ outOf[montgomeryDivision(above, below)]
                       = ((3 * a * a + A) * InverseModP((2 * b) % P)) % P
<1>. DEFINE mx == into[a]  my == into[b]  xx == mMul(mx, mx)  twice == mAdd(xx, xx)
            above == mAdd(xx, twice)  below == mAdd(my, my)
            aa == a * a
<1>1. mx \in F /\ my \in F /\ outOf[mx] = a /\ outOf[my] = b
  BY RoundTrip, TablesInField
<1>. HIDE DEF mx, my
<1>2. xx \in F /\ outOf[xx] = TimesMod(P, a, a) /\ below \in F /\ outOf[below] = PlusMod(P, b, b)
  BY <1>1, OutOfOperations, TablesInField
<1>. HIDE DEF xx, below
<1>3. twice \in F /\ outOf[twice] = PlusMod(P, outOf[xx], outOf[xx])
  BY <1>2, OutOfOperations, TablesInField
<1>. HIDE DEF twice
<1>4. above \in F /\ outOf[above] = PlusMod(P, outOf[xx], outOf[twice])
  BY <1>2, <1>3, OutOfOperations, TablesInField
<1>5. a \in Int /\ b \in Int /\ aa \in Int
  BY FieldFacts, SMT
<1>6. PlusMod(P, b, b) = (2 * b) % P
  <2>1. b + b = 2 * b
    BY <1>5
  <2>. QED BY <2>1 DEF PlusMod
<1>7. outOf[above] = (3 * aa) % P
  <2>1. outOf[xx] = aa % P
    BY <1>2 DEF TimesMod
  <2>. HIDE DEF aa
  <2>2. aa % P \in Int
    BY <1>5, FieldFacts, RemainderTwice
  <2>3. PlusMod(P, aa % P, aa % P) = (aa + aa) % P
    <3>1. PlusMod(P, aa % P, aa % P) = PlusMod(P, aa, aa % P)
      BY <1>5, <2>2, FieldFacts, EarlyRemainder
    <3>2. PlusMod(P, aa, aa % P) = PlusMod(P, aa, aa)
      BY <1>5, FieldFacts, EarlyRemainder
    <3>. QED BY <3>1, <3>2 DEF PlusMod
  <2>4. PICK two \in Int : two = aa + aa
    BY <1>5
  <2>5. PlusMod(P, aa % P, two % P) = (aa + two) % P
    <3>1. two % P \in Int
      BY <2>4, FieldFacts, RemainderTwice
    <3>2. PlusMod(P, aa % P, two % P) = PlusMod(P, aa, two % P)
      BY <1>5, <3>1, FieldFacts, EarlyRemainder
    <3>3. PlusMod(P, aa, two % P) = PlusMod(P, aa, two)
      BY <1>5, <2>4, FieldFacts, EarlyRemainder
    <3>. QED BY <3>2, <3>3 DEF PlusMod
  <2>6. aa + two = 3 * aa
    BY <1>5, <2>4
  <2>7. outOf[twice] = two % P
    BY <1>2, <1>3, <2>1, <2>3, <2>4
  <2>. QED BY <1>4, <2>1, <2>5, <2>6, <2>7
<1>. HIDE DEF above
<1>8. below = 0 <=> (2 * b) % P = 0
  BY <1>2, <1>6, OutOfInjective
<1>9. ASSUME below # 0
      PROVE  /\ montgomeryDivision(above, below) \in F
             /\ outOf[montgomeryDivision(above, below)]
                  = ((3 * a * a + A) * InverseModP((2 * b) % P)) % P
  <2>. DEFINE inv == mInv[below]  v == InverseModP((2 * b) % P)
  <2>1. inv \in F /\ outOf[inv] = v
    BY <1>2, <1>6, <1>9, OutOfInverse
  <2>2. mMul(above, inv) \in F /\ outOf[mMul(above, inv)] = TimesMod(P, outOf[above], outOf[inv])
    BY <1>4, <2>1, OutOfOperations, TablesInField
  <2>3. v \in F
    BY <2>1, TablesInField
  <2>. HIDE DEF inv, v
  <2>4. v \in Int
    BY <2>3, FieldFacts
  <2>5. PICK cube \in Int : cube = 3 * aa
    BY <1>5
  <2>6. TimesMod(P, cube % P, v) = TimesMod(P, cube, v)
    BY <2>4, <2>5, FieldFacts, EarlyRemainder
  <2>7. 3 * a * a + A = cube
    <3>1. 3 * a * a = 3 * aa
      BY <1>5, SMT DEF aa
    <3>. QED BY <2>5, <3>1, AltBn128Assumption
  <2>8. TimesMod(P, outOf[above], outOf[inv]) = ((3 * a * a + A) * v) % P
    BY <1>7, <2>1, <2>5, <2>6, <2>7 DEF TimesMod
  <2>. QED BY <2>2, <2>8 DEF montgomeryDivision, inv, v
<1>. QED BY <1>8, <1>9 DEF above, below, twice, xx, mx, my

\* The chord's slope, computed with words.
LEMMA ChordSlope ==
  ASSUME NEW a \in F, NEW b \in F, NEW c \in F, NEW d \in F
  PROVE  LET above == mSub(into[d], into[b])
             below == mSub(into[c], into[a])
         IN  /\ below = 0 <=> a = c
             /\ below # 0 =>
                  /\ montgomeryDivision(above, below) \in F
                  /\ outOf[montgomeryDivision(above, below)]
                       = ((d - b) * InverseModP((c - a) % P)) % P
<1>. DEFINE above == mSub(into[d], into[b])  below == mSub(into[c], into[a])
<1>1. /\ into[a] \in F /\ into[b] \in F /\ into[c] \in F /\ into[d] \in F
      /\ outOf[into[a]] = a /\ outOf[into[b]] = b /\ outOf[into[c]] = c /\ outOf[into[d]] = d
  BY RoundTrip, TablesInField
<1>2. above \in F /\ outOf[above] = MinusMod(P, d, b)
  <2>1. above \in F
    BY <1>1, TablesInField
  <2>2. outOf[mSub(into[d], into[b])] = MinusMod(P, outOf[into[d]], outOf[into[b]])
    BY <1>1, OutOfOperations
  <2>. QED BY <1>1, <2>1, <2>2
<1>3. below \in F /\ outOf[below] = (c - a) % P
  <2>1. below \in F
    BY <1>1, TablesInField
  <2>2. outOf[mSub(into[c], into[a])] = MinusMod(P, outOf[into[c]], outOf[into[a]])
    BY <1>1, OutOfOperations
  <2>. QED BY <1>1, <2>1, <2>2 DEF MinusMod
<1>. HIDE DEF above, below
<1>4. a \in Int /\ b \in Int /\ c \in Int /\ d \in Int
  BY FieldFacts
<1>5. below = 0 <=> a = c
  <2>1. below = 0 <=> (c - a) % P = 0
    BY <1>3, OutOfInjective
  <2>2. (c - a) % P = 0 <=> c % P = a % P
    BY <1>4, FieldFacts, ZeroDifference
  <2>3. c % P = c /\ a % P = a
    BY FieldFacts, SmallRemainder
  <2>. QED BY <2>1, <2>2, <2>3
<1>6. ASSUME below # 0
      PROVE  /\ montgomeryDivision(above, below) \in F
             /\ outOf[montgomeryDivision(above, below)]
                  = ((d - b) * InverseModP((c - a) % P)) % P
  <2>. DEFINE inv == mInv[below]  v == InverseModP((c - a) % P)
  <2>1. inv \in F /\ outOf[inv] = v
    BY <1>3, <1>6, OutOfInverse
  <2>2. mMul(above, inv) \in F /\ outOf[mMul(above, inv)] = TimesMod(P, outOf[above], outOf[inv])
    BY <1>2, <2>1, OutOfOperations, TablesInField
  <2>3. v \in F
    BY <2>1, TablesInField
  <2>. HIDE DEF inv, v
  <2>4. v \in Int
    BY <2>3, FieldFacts
  <2>5. PICK e \in Int : e = d - b
    BY <1>4
  <2>6. TimesMod(P, e % P, v) = TimesMod(P, e, v)
    BY <2>4, <2>5, FieldFacts, EarlyRemainder
  <2>7. TimesMod(P, outOf[above], outOf[inv]) = ((d - b) * v) % P
    BY <1>2, <2>1, <2>5, <2>6 DEF TimesMod, MinusMod
  <2>. QED BY <2>2, <2>7 DEF montgomeryDivision, inv, v
<1>. QED BY <1>5, <1>6 DEF above, below

\* The words' test for a mirror image is the group's negation.
LEMMA Mirror ==
  ASSUME NEW b \in F
  PROVE  /\ addmod(0, sub(P, b), P) = (-b) % P
         /\ (-b) % P \in F
         /\ \A d \in F : (-b) % P = d <=> PlusMod(P, b, d) = 0
<1>1. b \in Int /\ b \in 0 .. (P - 1) /\ -b \in Int
  BY FieldFacts
<1>2. sub(P, b) = P - b
  <2>1. P - b \in 0 .. (R - 1)
    BY <1>1, FieldFacts
  <2>2. (P - b) % R = P - b
    BY <2>1, FieldFacts, SmallRemainder
  <2>. QED BY <2>2 DEF sub
<1>3. (P - b) % P = (-b) % P
  <2>1. PICK c \in Int : c = P - b
    BY <1>1, FieldFacts
  <2>2. PICK m \in Int : m = -b
    BY <1>1
  <2>3. c = m + 1 * P
    BY <1>1, <2>1, <2>2, FieldFacts
  <2>4. c % P = m % P
    BY <2>1, <2>2, <2>3, FieldFacts, SameRemainder
  <2>. QED BY <2>1, <2>2, <2>4
<1>4. addmod(0, sub(P, b), P) = (-b) % P
  <2>1. 0 + (P - b) = P - b
    BY <1>1, FieldFacts
  <2>. QED BY <1>2, <1>3, <2>1 DEF addmod
<1>5. (-b) % P \in F
  BY <1>1, FieldFacts, Remainder
<1>6. \A d \in F : (-b) % P = d <=> PlusMod(P, b, d) = 0
  <2>. TAKE d \in F
  <2>1. d \in Int /\ d % P = d
    BY FieldFacts, SmallRemainder
  <2>2. PICK m \in Int : m = -b
    BY <1>1
  <2>3. (d - m) % P = 0 <=> d % P = m % P
    BY <2>1, <2>2, FieldFacts, ZeroDifference
  <2>4. d - m = b + d
    BY <1>1, <2>1, <2>2
  <2>. QED BY <2>1, <2>2, <2>3, <2>4 DEF PlusMod
<1>. QED BY <1>4, <1>5, <1>6

-----------------------------------------------------------------------------
(***************************************************************************)
(* EcAdd.                                                                  *)
(***************************************************************************)

\* What a call on <<a, b>> and <<c, d>> has to answer.
Answer(a, b, c, d) ==
  IF ValidPoint(a, b) /\ ValidPoint(c, d)
    THEN Returned(GroupAdd(<<a, b>>, <<c, d>>)) ELSE Burned

CoordinatesAreWords == x1 \in Word /\ y1 \in Word /\ x2 \in Word /\ y2 \in Word

\* An answer that is right keeps the property.
LEMMA RightAnswer ==
  ASSUME CoordinatesAreWords, UNCHANGED <<x1, y1, x2, y2>>,
         sum' = Answer(x1, y1, x2, y2)
  PROVE  CoordinatesAreWords' /\ ReturnsGroupSum'
BY DEF CoordinatesAreWords, ReturnsGroupSum, inputsValid, Answer

LEMMA BothInfinityStep ==
  ASSUME CoordinatesAreWords, BothInfinity
  PROVE  CoordinatesAreWords' /\ ReturnsGroupSum'
<1>1. <<x1, y1>> = Infinity /\ <<x2, y2>> = Infinity /\ sum' = Returned(Infinity)
  BY Validity DEF CoordinatesAreWords, BothInfinity, p1IsInfinity, p2IsInfinity, answer, Infinity
<1>2. ValidPoint(x1, y1) /\ ValidPoint(x2, y2)
  BY <1>1 DEF ValidPoint, Points
<1>3. GroupAdd(<<x1, y1>>, <<x2, y2>>) = Infinity
  BY <1>1, GroupAddCases
<1>. QED BY <1>1, <1>2, <1>3, RightAnswer DEF Answer, BothInfinity, answer

LEMMA FirstIsInfinityStep ==
  ASSUME CoordinatesAreWords, FirstIsInfinity
  PROVE  CoordinatesAreWords' /\ ReturnsGroupSum'
<1>1. <<x1, y1>> = Infinity /\ ~isInfinity(x2, y2)
  BY Validity DEF CoordinatesAreWords, FirstIsInfinity, p1IsInfinity, p2IsInfinity
<1>2. /\ ValidPoint(x1, y1)
      /\ ValidPoint(x2, y2) <=> inField(x2, y2) /\ pointIsInCurve(into[x2], into[y2])
  BY <1>1, Validity DEF CoordinatesAreWords, ValidPoint, Points
<1>3. GroupAdd(<<x1, y1>>, <<x2, y2>>) = <<x2, y2>>
  BY <1>1, GroupAddCases
<1>. QED BY <1>2, <1>3, RightAnswer DEF Answer, FirstIsInfinity, echo, answer

LEMMA SecondIsInfinityStep ==
  ASSUME CoordinatesAreWords, SecondIsInfinity
  PROVE  CoordinatesAreWords' /\ ReturnsGroupSum'
<1>1. <<x2, y2>> = Infinity /\ ~isInfinity(x1, y1)
  BY Validity DEF CoordinatesAreWords, SecondIsInfinity, p1IsInfinity, p2IsInfinity
<1>2. /\ ValidPoint(x2, y2)
      /\ ValidPoint(x1, y1) <=> inField(x1, y1) /\ pointIsInCurve(into[x1], into[y1])
  BY <1>1, Validity DEF CoordinatesAreWords, ValidPoint, Points
<1>3. GroupAdd(<<x1, y1>>, <<x2, y2>>) = <<x1, y1>>
  BY <1>1, GroupAddCases
<1>. QED BY <1>2, <1>3, RightAnswer DEF Answer, SecondIsInfinity, echo, answer

LEMMA EitherOutsideFieldStep ==
  ASSUME CoordinatesAreWords, EitherOutsideField
  PROVE  CoordinatesAreWords' /\ ReturnsGroupSum'
<1>1. /\ ~isInfinity(x1, y1) /\ ~isInfinity(x2, y2)
      /\ ~inField(x1, y1) \/ ~inField(x2, y2)
  BY DEF EitherOutsideField, bothFinite, p1IsInfinity, p2IsInfinity
<1>2. ~ValidPoint(x1, y1) \/ ~ValidPoint(x2, y2)
  BY <1>1, Validity DEF CoordinatesAreWords
<1>. QED BY <1>2, RightAnswer DEF Answer, EitherOutsideField, answer

\* Past the checks of the field, the branches see two finite points whose
\* validity the curve check decides, and tell opposites as the group does.
LEMMA BothInField ==
  ASSUME CoordinatesAreWords, bothInField
  PROVE  /\ x1 \in F /\ y1 \in F /\ x2 \in F /\ y2 \in F
         /\ <<x1, y1>> # Infinity /\ <<x2, y2>> # Infinity
         /\ ValidPoint(x1, y1) <=> pointIsInCurve(into[x1], into[y1])
         /\ ValidPoint(x2, y2) <=> pointIsInCurve(into[x2], into[y2])
         /\ ValidPoint(x1, y1) <=> OnCurve(x1, y1)
         /\ ValidPoint(x2, y2) <=> OnCurve(x2, y2)
         /\ opposite <=> <<x2, y2>> = Negate(<<x1, y1>>)
         /\ opposite <=> x1 = x2 /\ y2 = (-y1) % P
<1>1. /\ inField(x1, y1) /\ inField(x2, y2)
      /\ ~isInfinity(x1, y1) /\ ~isInfinity(x2, y2)
  BY DEF bothInField, bothFinite, p1IsInfinity, p2IsInfinity
<1>2. /\ x1 \in F /\ y1 \in F /\ x2 \in F /\ y2 \in F
      /\ <<x1, y1>> # Infinity /\ <<x2, y2>> # Infinity
      /\ ValidPoint(x1, y1) <=> pointIsInCurve(into[x1], into[y1])
      /\ ValidPoint(x2, y2) <=> pointIsInCurve(into[x2], into[y2])
  BY <1>1, Validity DEF CoordinatesAreWords
<1>3. /\ ValidPoint(x1, y1) <=> OnCurve(x1, y1)
      /\ ValidPoint(x2, y2) <=> OnCurve(x2, y2)
  BY <1>2, CurveCheck
<1>4. opposite <=> x1 = x2 /\ y2 = (-y1) % P
  BY <1>2, Mirror DEF opposite
<1>5. Negate(<<x1, y1>>) = <<x1, (-y1) % P>>
  BY DEF Negate
<1>. QED BY <1>2, <1>3, <1>4, <1>5

LEMMA AddOppositesStep ==
  ASSUME CoordinatesAreWords, AddOpposites
  PROVE  CoordinatesAreWords' /\ ReturnsGroupSum'
<1>1. /\ bothInField /\ opposite
      /\ sum' = IF pointIsInCurve(into[x1], into[y1]) THEN Returned(<<0, 0>>) ELSE Burned
      /\ UNCHANGED <<x1, y1, x2, y2>>
  BY DEF AddOpposites, answer
<1>2. ValidPoint(x1, y1) <=> ValidPoint(x2, y2)
  BY <1>1, BothInField, MirrorOnCurve
<1>3. GroupAdd(<<x1, y1>>, <<x2, y2>>) = <<0, 0>>
  BY <1>1, BothInField, GroupAddCases DEF Infinity
<1>. QED BY <1>1, <1>2, <1>3, BothInField, RightAnswer DEF Answer

LEMMA DoubleStep ==
  ASSUME CoordinatesAreWords, Double
  PROVE  CoordinatesAreWords' /\ ReturnsGroupSum'
<1>. DEFINE mx == into[x1]  my == into[y1]  xx == mMul(mx, mx)
            above == mAdd(xx, mAdd(xx, xx))  below == mAdd(my, my)
            slope == montgomeryDivision(above, below)
            tangent == ((3 * x1 * x1 + A) * InverseModP((2 * y1) % P)) % P
<1>1. /\ bothInField /\ ~opposite /\ x1 = x2 /\ y1 = y2
      /\ sum' = IF pointIsInCurve(mx, my)
                  THEN divideThen(above, below, mx, my, mx) ELSE Burned
      /\ UNCHANGED <<x1, y1, x2, y2>>
  BY DEF Double, answer
<1>2. x1 \in F /\ y1 \in F
  BY <1>1, BothInField
<1>3. below # 0
  <2>1. PlusMod(P, y1, y1) # 0
    BY <1>1, <1>2, BothInField, Mirror
  <2>2. y1 + y1 = 2 * y1
    BY <1>2, FieldFacts
  <2>. QED BY <1>2, <2>1, <2>2, TangentSlope DEF PlusMod
<1>4. slope \in F /\ outOf[slope] = tangent
  BY <1>2, <1>3, TangentSlope
<1>. HIDE DEF slope, tangent
<1>5. lineThrough(mx, my, mx, slope) = OnLine(<<x1, y1>>, <<x1, y1>>, tangent)
  BY <1>2, <1>4, LineThrough
<1>6. GroupAdd(<<x1, y1>>, <<x2, y2>>) = OnLine(<<x1, y1>>, <<x1, y1>>, tangent)
  BY <1>1, BothInField, GroupAddCases DEF tangent
<1>7. divideThen(above, below, mx, my, mx) = Returned(lineThrough(mx, my, mx, slope))
  BY <1>3 DEF divideThen, slope
<1>. HIDE DEF above, below
<1>8. sum' = Answer(x1, y1, x2, y2)
  BY <1>1, <1>5, <1>6, <1>7, BothInField DEF Answer
<1>. QED BY <1>1, <1>8, RightAnswer

LEMMA AddDifferentStep ==
  ASSUME CoordinatesAreWords, AddDifferent
  PROVE  CoordinatesAreWords' /\ ReturnsGroupSum'
<1>. DEFINE mx1 == into[x1]  my1 == into[y1]  mx2 == into[x2]  my2 == into[y2]
            above == mSub(my2, my1)  below == mSub(mx2, mx1)
            slope == montgomeryDivision(above, below)
            chord == ((y2 - y1) * InverseModP((x2 - x1) % P)) % P
<1>1. /\ bothInField /\ ~opposite /\ <<x2, y2>> # <<x1, y1>>
      /\ sum' = IF pointIsInCurve(mx1, my1) /\ pointIsInCurve(mx2, my2)
                  THEN divideThen(above, below, mx1, my1, mx2) ELSE Burned
      /\ UNCHANGED <<x1, y1, x2, y2>>
  BY DEF AddDifferent, answer
<1>2. x1 \in F /\ y1 \in F /\ x2 \in F /\ y2 \in F
  BY <1>1, BothInField
<1>3. ASSUME ~(ValidPoint(x1, y1) /\ ValidPoint(x2, y2))
      PROVE  sum' = Answer(x1, y1, x2, y2)
  BY <1>1, <1>3, BothInField DEF Answer
<1>4. ASSUME ValidPoint(x1, y1), ValidPoint(x2, y2)
      PROVE  sum' = Answer(x1, y1, x2, y2)
  <2>1. x1 # x2
    BY <1>1, <1>2, <1>4, BothInField, SameAbscissa
  <2>2. below # 0
    BY <1>2, <2>1, ChordSlope
  <2>3. slope \in F /\ outOf[slope] = chord
    BY <1>2, <2>2, ChordSlope
  <2>. HIDE DEF slope, chord
  <2>4. lineThrough(mx1, my1, mx2, slope) = OnLine(<<x1, y1>>, <<x2, y2>>, chord)
    BY <1>2, <2>3, LineThrough
  <2>5. GroupAdd(<<x1, y1>>, <<x2, y2>>) = OnLine(<<x1, y1>>, <<x2, y2>>, chord)
    BY <1>1, BothInField, GroupAddCases DEF chord
  <2>6. divideThen(above, below, mx1, my1, mx2)
          = Returned(lineThrough(mx1, my1, mx2, slope))
    BY <2>2 DEF divideThen, slope
  <2>. HIDE DEF above, below
  <2>. QED BY <1>1, <1>4, <2>4, <2>5, <2>6, BothInField DEF Answer
<1>. QED BY <1>1, <1>3, <1>4, RightAnswer

\* On every calldata, EcAdd returns the sum in the group when both points are
\* valid, in whichever branch, and burns all gas otherwise; it never divides
\* by zero.
THEOREM EcAddReturnsSum == AddSpec => []ReturnsGroupSum
<1>. DEFINE Inv == CoordinatesAreWords /\ ReturnsGroupSum
<1>1. AddInit => Inv
  BY CoordinatesAssumption DEF AddInit, CoordinatesAreWords, ReturnsGroupSum
<1>2. Inv /\ [AddNext]_addVars => Inv'
  <2>. SUFFICES ASSUME CoordinatesAreWords, ReturnsGroupSum, [AddNext]_addVars
                PROVE  Inv'
    OBVIOUS
  <2>1. CASE BothInfinity
    BY <2>1, BothInfinityStep
  <2>2. CASE FirstIsInfinity
    BY <2>2, FirstIsInfinityStep
  <2>3. CASE SecondIsInfinity
    BY <2>3, SecondIsInfinityStep
  <2>4. CASE EitherOutsideField
    BY <2>4, EitherOutsideFieldStep
  <2>5. CASE AddOpposites
    BY <2>5, AddOppositesStep
  <2>6. CASE Double
    BY <2>6, DoubleStep
  <2>7. CASE AddDifferent
    BY <2>7, AddDifferentStep
  <2>8. CASE UNCHANGED addVars
    BY <2>8 DEF addVars, CoordinatesAreWords, ReturnsGroupSum, inputsValid
  <2>. QED BY <2>1, <2>2, <2>3, <2>4, <2>5, <2>6, <2>7, <2>8 DEF AddNext, AddTerminated
<1>3. Inv => ReturnsGroupSum
  OBVIOUS
<1>. QED BY <1>1, <1>2, <1>3, PTL DEF AddSpec

-----------------------------------------------------------------------------
(***************************************************************************)
(* The tables are what the texts of module Montgomery compute.             *)
(***************************************************************************)

\* For every word size and every prime with a spare bit in it, the tables that
\* EcAdd and EcMul are modelled with hold what the functions of the contracts
\* return on reduced operands.
THEOREM TablesAreExact == FieldOperations
<1>0. F \subseteq Word
  BY FieldFacts DEF Word
<1>1. ASSUME NEW a \in F, NEW b \in F
      PROVE  /\ mAdd(a, b) = montgomeryAdd(a, b, P)
             /\ mSub(a, b) = montgomerySub(a, b, P)
             /\ mMul(a, b) = montgomeryMul(a, b, P, N_PRIME)
  <2>1. /\ montgomeryAdd(a, b, P) = PlusMod(P, a, b)
        /\ montgomerySub(a, b, P) = MinusMod(P, a, b)
    BY FieldFacts, SumValue
  <2>2. montgomeryMul(a, b, P, N_PRIME) = TimesMod(P, TimesMod(P, a, b), R_INVERSE)
    BY <1>0, FieldFacts, ProductValue DEF decode
  <2>. QED BY <2>1, <2>2, Tables
<1>2. ASSUME NEW a \in F \ {0}
      PROVE  mInv[a] = montgomeryModularInverse(a, P, R2_MOD_P)
  <2>1. a \in 1 .. (P - 1)
    BY FieldFacts
  <2>2. mInv[a] = CHOOSE j \in 0 .. (P - 1) : (a * j - R * R) % P = 0
    BY DEF mInv, F
  <2>. QED BY <2>1, <2>2, FieldFacts, InverseValue
<1>3. ASSUME NEW a \in F
      PROVE  /\ into[a] = intoMontgomeryForm(a, P, N_PRIME, R2_MOD_P)
             /\ outOf[a] = outOfMontgomeryForm(a, P, N_PRIME)
  BY <1>0, FieldFacts, FormValue, Tables DEF encode, decode
<1>. QED BY <1>1, <1>2, <1>3 DEF FieldOperations


-----------------------------------------------------------------------------
(***************************************************************************)
(* EcMul.  What the projective formulas of the contract compute.           *)
(***************************************************************************)

\* The words have a Montgomery form, and its one and nine are constants.
LEMMA Forms ==
  /\ HasForm
  /\ \A c \in F : outOf[c] = decode(P, c)
  /\ Means(MONTGOMERY_ONE, 1) /\ Means(MONTGOMERY_B3, 9)
<1>1. HasForm  BY FieldFacts DEF HasForm
<1>2. \A c \in F : outOf[c] = decode(P, c)  BY FieldFacts, Tables DEF decode
<1>3. ASSUME NEW e \in Int PROVE Means((e * R) % P, e)
  <2>1. encode(P, e) = (e * R) % P  BY DEF encode, TimesMod
  <2>2. encode(P, e) \in F /\ decode(P, encode(P, e)) = e % P
    BY FieldFacts, EncodeDecode
  <2> QED  BY <2>1, <2>2 DEF Means
<1>4. Means(MONTGOMERY_ONE, 1)
  <2>1. 1 * R = R  BY FieldFacts
  <2>2. Means((1 * R) % P, 1)  BY <1>3
  <2> QED  BY <2>1, <2>2 DEF MONTGOMERY_ONE
<1>5. Means(MONTGOMERY_B3, 9)  BY <1>3 DEF MONTGOMERY_B3
<1> QED  BY <1>1, <1>2, <1>4, <1>5

\* The operations on words stand for those on numbers.
LEMMA MeansTables ==
  ASSUME NEW a, NEW b, NEW e, NEW f, Means(a, e), Means(b, f)
  PROVE  /\ Means(mAdd(a, b), e + f) /\ Means(mSub(a, b), e - f)
         /\ Means(mMul(a, b), e * f)
<1>1. a \in F /\ b \in F  BY DEF Means
<1>2. mMul(a, b) = decode(P, TimesMod(P, a, b))
  BY <1>1, FieldFacts, Tables DEF decode
<1> QED  BY <1>1, <1>2, Forms, Tables, MeansOperations

\* The affine point that projective words stand for is the one read from them.
LEMMA AffineReads ==
  ASSUME NEW p, NEW pt, Stands(p, pt)
  PROVE  Affine(p) = pt
<1>1. CASE p[3] = 0
  <2>1. projectiveIntoAffine(p) = <<0, 0>>  BY <1>1 DEF projectiveIntoAffine
  <2>2. Affine(p) = <<outOf[0], outOf[0]>>  BY <2>1 DEF Affine
  <2> QED  BY <1>1, <2>2, OutOfInjective DEF Stands, Infinity
<1>2. CASE p[3] # 0
  <2>1. PICK a, b \in F, z \in Int :
          /\ pt = <<a, b>> /\ Means(p[1], a * z) /\ Means(p[2], b * z) /\ Means(p[3], z)
    BY <1>2 DEF Stands, Finite
  <2> DEFINE inv == mInv[p[3]]
             n == decode(P, inv)
  <2>2. p[3] \in F /\ outOf[p[3]] = z % P  BY <2>1, Forms DEF Means
  <2>3. inv \in F /\ outOf[inv] = InverseModP(z % P) /\ z % P # 0
    BY <1>2, <2>2, OutOfInverse
  <2>4. Means(inv, n) /\ n = InverseModP(z % P) /\ n \in F /\ n \in Int
    BY <2>3, Forms, WordMeans, PrimeFacts
  <2>5. Same(z * n, 1)
    <3>1. PICK s \in F : s = (1 * InverseModP(z % P)) % P /\ Same(z * s, 1)
      <4>1. ~Same(z, 0)  BY <2>3, PrimeFacts DEF Same
      <4> QED  BY <4>1, QuotientOf
    <3>2. 1 * n = n /\ n % P = n  BY <2>4, PrimeFacts
    <3> QED  BY <2>4, <3>1, <3>2
  <2>6. projectiveIntoAffine(p) = <<mMul(p[1], inv), mMul(p[2], inv)>>
    BY <1>2 DEF projectiveIntoAffine
  <2> HIDE DEF inv, n
  <2>7. ASSUME NEW w, NEW c \in F, Means(w, c * z)
        PROVE  outOf[mMul(w, inv)] = c
    <3>1. c \in Int /\ c % P = c  BY PrimeFacts
    <3>2. Means(mMul(w, inv), (c * z) * n)  BY <2>4, <2>7, MeansTables
    <3>3. Same(c * (z * n), c * 1)  BY <2>5, <3>1, SameTimes
    <3>4. (c * z) * n = c * (z * n) /\ c * 1 = c  BY <2>4, <3>1, SMT
    <3>5. Same((c * z) * n, c)  BY <3>3, <3>4
    <3>6. mMul(w, inv) \in F  BY <3>2 DEF Means
    <3>7. Means(mMul(w, inv), c)  BY <3>2, <3>5, <3>6, Forms, WordMeans
    <3> QED  BY <3>1, <3>6, <3>7, Forms DEF Means
  <2>8. Affine(p) = <<outOf[mMul(p[1], inv)], outOf[mMul(p[2], inv)]>>
    BY <2>6 DEF Affine
  <2> QED  BY <2>1, <2>7, <2>8
<1> QED  BY <1>1, <1>2

\* The words the loop starts from stand for infinity and for (a, b).
LEMMA StartStands ==
  /\ Stands(ZeroPoint, Infinity)
  /\ \A a, b \in F : OnCurve(a, b) =>
       Stands(projectiveFromAffine(into[a], into[b]), <<a, b>>)
<1>1. 0 \in F /\ MONTGOMERY_ONE \in F  BY Forms, PrimeFacts DEF Means
<1>2. Stands(ZeroPoint, Infinity)  BY <1>1 DEF Stands, ZeroPoint
<1>3. ASSUME NEW a \in F, NEW b \in F, OnCurve(a, b)
      PROVE  Stands(projectiveFromAffine(into[a], into[b]), <<a, b>>)
  <2>1. \A c \in F : Means(into[c], c)
    <3> TAKE c \in F
    <3>1. into[c] \in F /\ outOf[into[c]] = c /\ c % P = c /\ c \in Int
      BY RoundTrip, TablesInField, PrimeFacts
    <3> QED  BY <3>1, Forms DEF Means
  <2>2. a * 1 = a /\ b * 1 = b  BY PrimeFacts
  <2>3. ~Same(1, 0)
    <3>1. 1 % P = 1 /\ 0 % P = 0  BY PrimeFacts
    <3> QED  BY <3>1 DEF Same
  <2>4. Same(a, a * 1) /\ Same(b, b * 1) /\ a \in Int /\ b \in Int
    BY <2>2, PrimeFacts, SameLaws
  <2> QED  BY <1>3, <2>1, <2>3, <2>4, Forms, StandsFor DEF projectiveFromAffine
<1> QED  BY <1>2, <1>3

\* Doubling in projective coordinates, as numbers.
LEMMA DoubleNumbers ==
  ASSUME NEW a \in Int, NEW b \in Int, NEW z \in Int,
         NEW s \in Int, NEW u \in Int, NEW v \in Int,
         Same(b * b, (a * a) * a + 3), Same((2 * b) * s, (3 * a) * a),
         Same(u, (s * s - a) - a), Same(v, s * (a - u) - b)
  PROVE  LET sq  == (b * z) * (b * z)
             two == sq + sq
             four == two + two
             z8  == four + four
             bz2 == 9 * (z * z)
             t0  == sq - ((bz2 + bz2) + bz2)
             xyt == t0 * ((a * z) * (b * z))
             l   == ((b * z) * z) * z8
         IN  /\ Same(xyt + xyt, u * l)
             /\ Same(bz2 * z8 + t0 * (sq + bz2), v * l)
             /\ ~Same(b, 0) /\ ~Same(z, 0) => ~Same(l, 0)
             /\ l \in Int /\ xyt + xyt \in Int /\ bz2 * z8 + t0 * (sq + bz2) \in Int
<1> DEFINE sq  == (b * z) * (b * z)
           two == sq + sq
           four == two + two
           z8  == four + four
           bz2 == 9 * (z * z)
           t0  == sq - ((bz2 + bz2) + bz2)
           xyt == t0 * ((a * z) * (b * z))
           l   == ((b * z) * z) * z8
           m   == 8 * ((b * b) * b)
           z4  == (z * z) * (z * z)
           e   == (2 * (a * b)) * (b * b - 27)
           f   == (b * b) * (b * b) + 54 * (b * b) - 243
<1>1. Same(e, u * m) /\ Same(f, v * m)  BY TangentNumbers
<1>2. z4 \in Int  OBVIOUS
<1>3. xyt + xyt = e * z4  BY SMT
<1>4. bz2 * z8 + t0 * (sq + bz2) = f * z4  BY SMT
<1>5. l = m * z4  BY SMT
<1>6. (u * m) * z4 = u * (m * z4) /\ (v * m) * z4 = v * (m * z4)
  <2>1. m \in Int  OBVIOUS
  <2> HIDE DEF m, z4
  <2> QED  BY <1>2, <2>1, SMT
<1>7. ~Same(b, 0) /\ ~Same(z, 0) => ~Same(m * z4, 0)
  <2>1. b * b \in Int /\ (b * b) * b \in Int /\ m \in Int /\ z * z \in Int  OBVIOUS
  <2>2. ~Same(z, 0) => ~Same(z4, 0)  BY <2>1, NotZero
  <2>3. ~Same(b, 0) => ~Same((b * b) * b, 0)  BY <2>1, NotZero
  <2>4. ~Same(b, 0) => ~Same(m, 0)  BY <2>1, <2>3, NotZero
  <2> HIDE DEF m, z4
  <2> QED  BY <1>2, <2>1, <2>2, <2>4, NotZero
<1>9. l \in Int /\ e \in Int /\ f \in Int  OBVIOUS
<1>10. xyt + xyt \in Int /\ bz2 * z8 + t0 * (sq + bz2) \in Int
  <2> HIDE DEF e, f, z4, xyt, bz2, z8, t0, sq
  <2> QED  BY <1>2, <1>3, <1>4, <1>9
<1> HIDE DEF e, f, m, z4, xyt, l, sq, two, four, z8, bz2, t0
<1>8. Same(e * z4, (u * m) * z4) /\ Same(f * z4, (v * m) * z4)
  BY <1>1, <1>2, SameTimes
<1> QED  BY <1>3, <1>4, <1>5, <1>6, <1>7, <1>8, <1>9, <1>10 DEF xyt, l, sq, two, four, z8, bz2, t0

\* projectiveDouble doubles.
LEMMA DoubleStands ==
  ASSUME NEW p, NEW pt, Stands(p, pt)
  PROVE  Stands(projectiveDouble(p), GroupAdd(pt, pt))
<1> DEFINE w1 == p[1]  w2 == p[2]  w3 == p[3]
           sq   == mMul(w2, w2)
           two  == mAdd(sq, sq)
           four == mAdd(two, two)
           z8   == mAdd(four, four)
           bz2  == mMul(MONTGOMERY_B3, mMul(w3, w3))
           t0   == mSub(sq, mAdd(mAdd(bz2, bz2), bz2))
           xyt  == mMul(t0, mMul(w1, w2))
           u1   == mAdd(xyt, xyt)
           u2   == mAdd(mMul(bz2, z8), mMul(t0, mAdd(sq, bz2)))
           u3   == mMul(mMul(w2, w3), z8)
<1>1. projectiveDouble(p) = <<u1, u2, u3>>  BY DEF projectiveDouble
<1>2. ASSUME NEW n1, NEW n2, NEW n3, Means(w1, n1), Means(w2, n2), Means(w3, n3)
      PROVE  LET nsq   == n2 * n2
                 ntwo  == nsq + nsq
                 nfour == ntwo + ntwo
                 n8    == nfour + nfour
                 nb    == 9 * (n3 * n3)
                 nt    == nsq - ((nb + nb) + nb)
                 nxyt  == nt * (n1 * n2)
             IN  /\ Means(u1, nxyt + nxyt)
                 /\ Means(u2, nb * n8 + nt * (nsq + nb))
                 /\ Means(u3, (n2 * n3) * n8)
  <2> DEFINE nsq   == n2 * n2
             ntwo  == nsq + nsq
             nfour == ntwo + ntwo
             n8    == nfour + nfour
             nb    == 9 * (n3 * n3)
             nt    == nsq - ((nb + nb) + nb)
             nxyt  == nt * (n1 * n2)
  <2> HIDE DEF w1, w2, w3
  <2>1. Means(sq, nsq)  BY <1>2, MeansTables
  <2> HIDE DEF sq, nsq
  <2>2. Means(two, ntwo)  BY <2>1, MeansTables
  <2> HIDE DEF two, ntwo
  <2>3. Means(four, nfour)  BY <2>2, MeansTables
  <2> HIDE DEF four, nfour
  <2>4. Means(z8, n8)  BY <2>3, MeansTables
  <2> HIDE DEF z8, n8
  <2>5. Means(bz2, nb)
    <3>1. Means(mMul(w3, w3), n3 * n3)  BY <1>2, MeansTables
    <3> QED  BY <3>1, Forms, MeansTables
  <2> HIDE DEF bz2, nb
  <2>6. Means(t0, nt)
    <3>1. Means(mAdd(bz2, bz2), nb + nb)  BY <2>5, MeansTables
    <3>2. Means(mAdd(mAdd(bz2, bz2), bz2), (nb + nb) + nb)  BY <2>5, <3>1, MeansTables
    <3> QED  BY <2>1, <3>2, MeansTables
  <2> HIDE DEF t0, nt
  <2>7. Means(xyt, nxyt)
    <3>1. Means(mMul(w1, w2), n1 * n2)  BY <1>2, MeansTables
    <3> QED  BY <2>6, <3>1, MeansTables
  <2> HIDE DEF xyt, nxyt
  <2>8. Means(u1, nxyt + nxyt)  BY <2>7, MeansTables
  <2>9. Means(u2, nb * n8 + nt * (nsq + nb))
    <3>1. Means(mMul(bz2, z8), nb * n8)  BY <2>4, <2>5, MeansTables
    <3>2. Means(mAdd(sq, bz2), nsq + nb)  BY <2>1, <2>5, MeansTables
    <3>3. Means(mMul(t0, mAdd(sq, bz2)), nt * (nsq + nb))  BY <2>6, <3>2, MeansTables
    <3> QED  BY <3>1, <3>3, MeansTables
  <2>10. Means(u3, (n2 * n3) * n8)
    <3>1. Means(mMul(w2, w3), n2 * n3)  BY <1>2, MeansTables
    <3> QED  BY <2>4, <3>1, MeansTables
  <2> QED  BY <2>8, <2>9, <2>10 DEF nsq, ntwo, nfour, n8, nb, nt, nxyt
<1> HIDE DEF u1, u2, u3
<1>3. CASE pt = Infinity
  <2>1. p \in F \X F \X F /\ w3 = 0  BY <1>3, Forms, StandsFinite DEF Stands
  <2>2. \A w \in F : Means(w, decode(P, w))  BY Forms, WordMeans
  <2>3. 0 \in Int /\ Means(w3, 0)
    <3>1. Means(0, decode(P, 0)) /\ decode(P, 0) = 0  BY <2>2, PrimeFacts, Forms, OutOfInjective
    <3> QED  BY <2>1, <3>1
  <2>4. PICK n1, n2 : Means(w1, n1) /\ Means(w2, n2)
    <3>1. w1 \in F /\ w2 \in F  BY <2>1
    <3> QED  BY <2>2, <3>1
  <2>5. PICK l : Means(u3, l) /\ l = 0
    <3>1. n2 \in Int  BY <2>4 DEF Means
    <3> DEFINE n8 == ((n2 * n2 + n2 * n2) + (n2 * n2 + n2 * n2)) + ((n2 * n2 + n2 * n2) + (n2 * n2 + n2 * n2))
    <3>2. Means(u3, (n2 * 0) * n8)  BY <1>2, <2>3, <2>4
    <3>3. n8 \in Int /\ (n2 * 0) = 0  BY <3>1
    <3> HIDE DEF n8
    <3>4. (n2 * 0) * n8 = 0  BY <3>3
    <3> QED  BY <3>2, <3>4
  <2>6. u3 = 0
    <3>1. u3 \in F /\ Same(l, 0)  BY <2>5, SameLaws DEF Means
    <3> QED  BY <2>5, <3>1, Forms, WordMeans DEF Means
  <2>7. u1 \in F /\ u2 \in F /\ u3 \in F  BY <1>2, <2>3, <2>4 DEF Means
  <2>8. GroupAdd(pt, pt) = Infinity  BY <1>3, GroupLaw
  <2> QED  BY <1>1, <2>6, <2>7, <2>8 DEF Stands
<1>4. CASE pt # Infinity
  <2>1. PICK a, b \in F, z \in Int :
          /\ pt = <<a, b>> /\ OnCurve(a, b) /\ ~Same(z, 0)
          /\ Means(w1, a * z) /\ Means(w2, b * z) /\ Means(w3, z)
    BY <1>4, Forms, StandsFinite
  <2>2. pt \in Points  BY Forms, StandsFinite
  <2>3. GroupAdd(pt, pt) # Infinity  BY <1>4, <2>2, NoTwoTorsion
  <2>4. b # 0
    <3> SUFFICES ASSUME b = 0 PROVE FALSE  OBVIOUS
    <3>1. Negate(pt) = pt  BY <2>1, OppositeOf
    <3> QED  BY <1>4, <2>3, <3>1, GroupAddCases
  <2>5. PICK x3, y3, s \in F :
           /\ GroupAdd(pt, pt) = <<x3, y3>>
           /\ Same((2 * b) * s, (3 * a) * a + A)
           /\ Same(x3, (s * s - a) - a) /\ Same(y3, s * (a - x3) - b)
    BY <2>1, <2>4, Tangent
  <2>6. OnCurve(x3, y3)
    <3>1. GroupAdd(pt, pt) \in Points  BY <2>2, GroupLaw
    <3> QED  BY <2>3, <2>5, <3>1, FinitePoints
  <2>7. /\ a \in Int /\ b \in Int /\ s \in Int /\ x3 \in Int /\ y3 \in Int /\ ~Same(b, 0)
    <3>1. ~Same(b, 0)  BY <2>4, PrimeFacts, SameResidue
    <3> QED  BY <3>1, PrimeFacts
  <2>8. Same((2 * b) * s, (3 * a) * a)
    <3>1. (3 * a) * a + A = (3 * a) * a  BY <2>7, AltBn128Assumption
    <3> QED  BY <2>5, <3>1
  <2>9. Same(b * b, (a * a) * a + 3)
    <3>1. a * a * a + A * a + B = (a * a) * a + 3
      <4>1. 0 * a = 0 /\ a * a * a = (a * a) * a /\ (a * a) * a \in Int  BY <2>7, SMT
      <4> QED  BY <4>1, AltBn128Assumption
    <3>2. b * b \in Int /\ (a * a) * a + 3 \in Int  BY <2>7
    <3> QED  BY <2>1, <3>1, <3>2 DEF OnCurve, Same
  <2> DEFINE nsq   == (b * z) * (b * z)
             ntwo  == nsq + nsq
             nfour == ntwo + ntwo
             n8    == nfour + nfour
             nb    == 9 * (z * z)
             nt    == nsq - ((nb + nb) + nb)
             nxyt  == nt * ((a * z) * (b * z))
             l     == ((b * z) * z) * n8
  <2>10. /\ Means(u1, nxyt + nxyt) /\ Means(u2, nb * n8 + nt * (nsq + nb)) /\ Means(u3, l)
    BY <1>2, <2>1
  <2>11. /\ Same(nxyt + nxyt, x3 * l) /\ Same(nb * n8 + nt * (nsq + nb), y3 * l)
         /\ ~Same(l, 0) /\ l \in Int /\ nxyt + nxyt \in Int /\ nb * n8 + nt * (nsq + nb) \in Int
    BY <2>1, <2>5, <2>7, <2>8, <2>9, DoubleNumbers
  <2> HIDE DEF nsq, n8, nb, nt, nxyt, l
  <2>12. Stands(<<u1, u2, u3>>, <<x3, y3>>)
    BY <2>6, <2>10, <2>11, Forms, StandsFor
  <2> QED  BY <1>1, <2>5, <2>12
<1> QED  BY <1>3, <1>4

\* What tOf, uOf and addDistinct compute from two finite points <<a, b>> and
\* <<c, d>>, as numbers.
LEMMA DistinctMeans ==
  ASSUME NEW a \in F, NEW b \in F, NEW c \in F, NEW d \in F, NEW z \in Int, NEW w \in Int,
         Means(q[1], a * z), Means(q[2], b * z), Means(q[3], z),
         Means(r[1], c * w), Means(r[2], d * w), Means(r[3], w)
  PROVE  LET nt == (b * z) * w - (d * w) * z
             nu == (a * z) * w - (c * w) * z
             nv == z * w
             no == (nt * nt) * nv - (nu * nu) * ((a * z) * w + (c * w) * z)
             sum3 == addDistinct(tOf, uOf)
         IN  /\ Means(tOf, nt) /\ Means(uOf, nu)
             /\ sum3 = <<sum3[1], sum3[2], sum3[3]>>
             /\ Means(sum3[1], nu * no)
             /\ Means(sum3[2], nt * (((a * z) * w) * (nu * nu) - no)
                                  - ((b * z) * w) * ((nu * nu) * nu))
             /\ Means(sum3[3], ((nu * nu) * nu) * nv)
<1> DEFINE t  == tOf
           u  == uOf
           t0 == mMul(q[2], r[3])
           u0 == mMul(q[1], r[3])
           u1 == mMul(r[1], q[3])
           u2 == mMul(u, u)
           u3 == mMul(u2, u)
           v  == mMul(q[3], r[3])
           o  == mSub(mMul(mMul(t, t), v), mMul(u2, mAdd(u0, u1)))
           s1 == mMul(u, o)
           s2 == mSub(mMul(t, mSub(mMul(u0, u2), o)), mMul(t0, u3))
           s3 == mMul(u3, v)
           nt0 == (b * z) * w
           nu0 == (a * z) * w
           nu1 == (c * w) * z
           nt == nt0 - (d * w) * z
           nu == nu0 - nu1
           nv == z * w
           no == (nt * nt) * nv - (nu * nu) * (nu0 + nu1)
<1>1. addDistinct(tOf, uOf) = <<s1, s2, s3>>  BY DEF addDistinct
<1>2. Means(t0, nt0) /\ Means(u0, nu0) /\ Means(u1, nu1) /\ Means(v, nv)
  BY MeansTables
<1>3. Means(t, nt)
  <2>1. Means(mMul(r[2], q[3]), (d * w) * z)  BY MeansTables
  <2> QED  BY <1>2, <2>1, MeansTables DEF tOf
<1>4. Means(u, nu)  BY <1>2, MeansTables DEF uOf
<1> HIDE DEF t, u, t0, u0, u1, v, nt0, nu0, nu1, nt, nu, nv
<1>5. Means(u2, nu * nu)  BY <1>4, MeansTables
<1> HIDE DEF u2
<1>6. Means(u3, (nu * nu) * nu)  BY <1>4, <1>5, MeansTables
<1> HIDE DEF u3
<1>7. Means(o, no)
  <2>1. Means(mMul(t, t), nt * nt)  BY <1>3, MeansTables
  <2>2. Means(mMul(mMul(t, t), v), (nt * nt) * nv)  BY <1>2, <2>1, MeansTables
  <2>3. Means(mAdd(u0, u1), nu0 + nu1)  BY <1>2, MeansTables
  <2>4. Means(mMul(u2, mAdd(u0, u1)), (nu * nu) * (nu0 + nu1))  BY <1>5, <2>3, MeansTables
  <2> QED  BY <2>2, <2>4, MeansTables
<1> HIDE DEF o, no
<1>8. Means(s1, nu * no)  BY <1>4, <1>7, MeansTables
<1>9. Means(s2, nt * (nu0 * (nu * nu) - no) - nt0 * ((nu * nu) * nu))
  <2>1. Means(mMul(u0, u2), nu0 * (nu * nu))  BY <1>2, <1>5, MeansTables
  <2>2. Means(mSub(mMul(u0, u2), o), nu0 * (nu * nu) - no)  BY <1>7, <2>1, MeansTables
  <2>3. Means(mMul(t, mSub(mMul(u0, u2), o)), nt * (nu0 * (nu * nu) - no))
    BY <1>3, <2>2, MeansTables
  <2>4. Means(mMul(t0, u3), nt0 * ((nu * nu) * nu))  BY <1>2, <1>6, MeansTables
  <2> QED  BY <2>3, <2>4, MeansTables
<1>10. Means(s3, ((nu * nu) * nu) * nv)  BY <1>2, <1>6, MeansTables
<1> HIDE DEF s1, s2, s3
<1> QED  BY <1>1, <1>3, <1>4, <1>8, <1>9, <1>10 DEF t, u, nt0, nu0, nu1, nt, nu, nv, no

\* The loop's test for equal points, and its formula for distinct ones.
LEMMA LoopAdds ==
  ASSUME NEW pq, NEW pr, Stands(q, pq), Stands(r, pr), pq # Infinity, pr # Infinity
  PROVE  /\ tOf = 0 /\ uOf = 0 => pr = pq
         /\ ~(tOf = 0 /\ uOf = 0) => Stands(addDistinct(tOf, uOf), GroupAdd(pr, pq))
<1>1. PICK a, b \in F, z \in Int :
        /\ pq = <<a, b>> /\ OnCurve(a, b) /\ ~Same(z, 0)
        /\ Means(q[1], a * z) /\ Means(q[2], b * z) /\ Means(q[3], z)
  BY Forms, StandsFinite
<1>2. PICK c, d \in F, w \in Int :
        /\ pr = <<c, d>> /\ OnCurve(c, d) /\ ~Same(w, 0)
        /\ Means(r[1], c * w) /\ Means(r[2], d * w) /\ Means(r[3], w)
  BY Forms, StandsFinite
<1> DEFINE nt == (b * z) * w - (d * w) * z
           nu == (a * z) * w - (c * w) * z
           nv == z * w
           no == (nt * nt) * nv - (nu * nu) * ((a * z) * w + (c * w) * z)
           l  == ((nu * nu) * nu) * nv
           e1 == nu * no
           e2 == nt * (((a * z) * w) * (nu * nu) - no) - ((b * z) * w) * ((nu * nu) * nu)
           sum3 == addDistinct(tOf, uOf)
<1>3. /\ Means(tOf, nt) /\ Means(uOf, nu)
      /\ sum3 = <<sum3[1], sum3[2], sum3[3]>>
      /\ Means(sum3[1], e1) /\ Means(sum3[2], e2) /\ Means(sum3[3], l)
  BY <1>1, <1>2, DistinctMeans
<1>4. a \in Int /\ b \in Int /\ c \in Int /\ d \in Int /\ a - c \in Int /\ b - d \in Int
  BY PrimeFacts
<1>5. nu = (a - c) * nv /\ nt = (b - d) * nv /\ nv \in Int /\ nu \in Int /\ nt \in Int
  BY <1>4, SMT
<1>6. ~Same(nv, 0)  BY <1>1, <1>2, NotZero
<1>7. e1 \in Int /\ e2 \in Int /\ l \in Int  BY <1>3 DEF Means
<1> HIDE DEF sum3, e1, e2, l, no, nt, nu, nv
\* The two words are zero when the coordinates agree.
<1>8. /\ tOf = 0 <=> b = d
      /\ uOf = 0 <=> a = c
      /\ ~Same(nu, 0) <=> a # c
  <2>1. tOf \in F /\ uOf \in F /\ (tOf = 0 <=> Same(nt, 0)) /\ (uOf = 0 <=> Same(nu, 0))
    <3>1. tOf \in F /\ uOf \in F  BY <1>3 DEF Means
    <3> QED  BY <1>3, <1>5, <3>1, Forms, WordMeans
  <2>2. ASSUME NEW e \in F, NEW f \in F
        PROVE  Same((e - f) * nv, 0) <=> e = f
    <3>1. e \in Int /\ f \in Int /\ e - f \in Int  BY PrimeFacts
    <3>2. e = f => (e - f) * nv = 0  BY <1>5, <3>1
    <3>3. e = f => Same((e - f) * nv, 0)
      <4>1. Same(0, 0)  BY SameLaws
      <4> QED  BY <3>2, <4>1
    <3>4. ASSUME Same((e - f) * nv, 0) PROVE e = f
      <4>1. Same(e - f, 0)  BY <1>5, <1>6, <3>1, <3>4, SameZero
      <4>2. e % P = f % P  BY <3>1, <4>1, PrimeFacts, ZeroDifference DEF Same
      <4> QED  BY <4>2, PrimeFacts
    <3> QED  BY <3>3, <3>4
  <2> QED  BY <1>5, <2>1, <2>2
<1>9. CASE a = c
  <2>1. b = d => pr = pq  BY <1>1, <1>2, <1>9
  <2>2. ASSUME b # d PROVE Stands(sum3, GroupAdd(pr, pq))
    <3>1. pq = Negate(pr)
      <4>1. b = (-d) % P  BY <1>1, <1>2, <1>9, <2>2, SameAbscissa
      <4> QED  BY <1>1, <1>2, <1>9, <4>1, OppositeOf
    <3>2. GroupAdd(pr, pq) = Infinity  BY <3>1, GroupAddCases
    <3>3. Same(l, 0)
      <4>1. a - c = 0  BY <1>4, <1>9
      <4>2. nu = 0  BY <1>5, <4>1
      <4>3. l = 0
        <5>1. (nu * nu) * nu = 0  BY <4>2
        <5> QED  BY <1>5, <5>1 DEF l
      <4> QED  BY <4>3, SameLaws
    <3>4. sum3[1] \in F /\ sum3[2] \in F /\ sum3[3] \in F  BY <1>3 DEF Means
    <3>5. sum3[3] = 0  BY <1>3, <1>7, <3>3, <3>4, Forms, WordMeans
    <3> QED  BY <1>3, <3>2, <3>4, <3>5 DEF Stands
  <2> QED  BY <1>8, <1>9, <2>1, <2>2 DEF sum3
<1>10. CASE a # c
  <2>1. PICK x3, y3, s \in F :
          /\ GroupAdd(pq, pr) = <<x3, y3>>
          /\ Same((c - a) * s, d - b)
          /\ Same(x3, (s * s - a) - c) /\ Same(y3, s * (a - x3) - b)
    BY <1>1, <1>2, <1>10, Chord
  <2>2. pq \in Points /\ pr \in Points  BY Forms, StandsFinite
  <2>3. GroupAdd(pq, pr) # Infinity
    <3> SUFFICES ASSUME GroupAdd(pq, pr) = Infinity PROVE FALSE  OBVIOUS
    <3>1. pr = Negate(pq)  BY <1>1, <2>2, OnlyOpposite
    <3> QED  BY <1>1, <1>2, <1>10, <3>1 DEF Negate
  <2>4. OnCurve(x3, y3)
    <3>1. GroupAdd(pq, pr) \in Points  BY <2>2, GroupLaw
    <3> QED  BY <2>1, <2>3, <3>1, FinitePoints
  <2>5. s \in Int /\ x3 \in Int /\ y3 \in Int  BY PrimeFacts
  <2>6. Same(e1, x3 * l) /\ Same(e2, y3 * l)
    BY <1>4, <2>1, <2>5, ProjectiveChord DEF e1, e2, l, no, nt, nu, nv
  <2>7. ~Same(l, 0)
    <3>1. nu * nu \in Int /\ (nu * nu) * nu \in Int  BY <1>5
    <3>2. ~Same((nu * nu) * nu, 0)  BY <1>5, <1>8, <1>10, <3>1, NotZero
    <3> QED  BY <1>5, <1>6, <3>1, <3>2, NotZero DEF l
  <2>8. Stands(sum3, <<x3, y3>>)
    BY <1>3, <1>7, <2>4, <2>6, <2>7, Forms, StandsFor
  <2>9. GroupAdd(pr, pq) = <<x3, y3>>  BY <2>1, <2>2, GroupLaw
  <2> QED  BY <1>8, <1>10, <2>8, <2>9 DEF sum3
<1> QED  BY <1>9, <1>10

-----------------------------------------------------------------------------
(***************************************************************************)
(* EcMul, step by step.                                                    *)
(***************************************************************************)

(* The words q and r stand for points that have the product in sight.      *)
Tracks(pq, pr) ==
  /\ Stands(q, pq) /\ Stands(r, pr) /\ pq # Infinity
  /\ GroupAdd(pr, GroupMul(scalar, pq)) = GroupMul(k, <<x, y>>)

MulInv ==
  /\ x \in Word /\ y \in Word /\ k \in Word
  /\ pc \in {"entry", "loop", "done"}
  /\ pc = "entry" => scalar = k
  /\ pc = "loop" => /\ x \in F /\ y \in F /\ OnCurve(x, y)
                    /\ scalar \in Nat
                    /\ \E pq, pr : Tracks(pq, pr)
  /\ ReturnsGroupProduct

\* Words are numbers.
LEMMA WordsAreNumbers == Word \subseteq Nat
BY WordAssumption DEF Word

\* The initial states.
LEMMA MulInitial == Init => MulInv
BY CoordinatesAssumption, ScalarsAssumption DEF Init, MulInv, ReturnsGroupProduct

\* How a call may end.
LEMMA MulEnds ==
  ASSUME MulInv, NEW res, finish(res),
         res = IF ValidPoint(x, y) THEN Returned(GroupMul(k, <<x, y>>)) ELSE Burned
  PROVE  MulInv'
BY DEF MulInv, finish, ReturnsGroupProduct

\* The early returns and the scalars with a shortcut.
LEMMA MulShortcuts ==
  ASSUME MulInv, OutsideField \/ TimesInfinity \/ OffCurve \/ SmallScalar
  PROVE  MulInv'
<1> DEFINE pt == <<x, y>>
<1>1. x \in Word /\ y \in Word /\ k \in Nat  BY WordsAreNumbers DEF MulInv
<1>2. CASE OutsideField
  <2>1. finish(Burned) /\ ~inField(x, y)  BY <1>2 DEF OutsideField
  <2>2. ~ValidPoint(x, y)
    <3>1. ~isInfinity(x, y)
      <4>1. 0 < P  BY FieldFacts
      <4> QED  BY <2>1, <4>1 DEF inField, isOnFieldOrder, isInfinity
    <3> QED  BY <1>1, <2>1, <3>1, Validity
  <2> QED  BY <2>1, <2>2, MulEnds
<1>3. CASE TimesInfinity
  <2>1. finish(Returned(<<0, 0>>)) /\ pt = Infinity /\ ValidPoint(x, y)
    BY <1>1, <1>3, Validity DEF TimesInfinity
  <2>2. GroupMul(k, pt) = <<0, 0>>
    <3>1. GroupMul(k, Infinity) = Infinity  BY <1>1, GroupLaw, MulDouble
    <3> QED  BY <2>1, <3>1 DEF Infinity
  <2> QED  BY <2>1, <2>2, MulEnds
<1>4. CASE OffCurve
  <2>1. finish(Burned) /\ ~ValidPoint(x, y)  BY <1>1, <1>4, Validity DEF OffCurve
  <2> QED  BY <2>1, MulEnds
<1>5. CASE SmallScalar
  <2>1. /\ x \in F /\ y \in F /\ ValidPoint(x, y) /\ pt # Infinity /\ pt \in Points
        /\ OnCurve(x, y)
    <3>1. x \in F /\ y \in F /\ ValidPoint(x, y) /\ pt # Infinity /\ pt \in Points
      BY <1>1, <1>5, Validity DEF SmallScalar, accepted, ValidPoint
    <3> QED  BY <3>1, FinitePoints
  <2> HIDE DEF pt
  <2>2. GroupMul(0, pt) = Infinity /\ GroupMul(1, pt) = pt /\ GroupMul(2, pt) = GroupAdd(pt, pt)
    <3>1. \A inv \in Nat : GroupMul(inv + 1, pt) = GroupAdd(GroupMul(inv, pt), pt)
      BY <2>1, MulSuccessor
    <3>2. GroupMul(0, pt) = Infinity  BY <2>1, MulSuccessor
    <3>3. GroupMul(0 + 1, pt) = pt  BY <3>1, <3>2, GroupLaw
    <3>4. GroupMul(1 + 1, pt) = GroupAdd(GroupMul(1, pt), pt)  BY <3>1
    <3> QED  BY <3>2, <3>3, <3>4
  <2>3. Affine(projectiveDouble(projectiveFromAffine(into[x], into[y]))) = GroupAdd(pt, pt)
    <3>1. Stands(projectiveFromAffine(into[x], into[y]), pt)  BY <2>1, StartStands DEF pt
    <3> QED  BY <3>1, DoubleStands, AffineReads
  <2>4. k \in 0 .. 2 /\ finish(CASE k = 0 -> Returned(<<0, 0>>)
                               [] k = 1 -> Returned(<<x, y>>)
                               [] k = 2 -> affineResult(projectiveDouble(
                                             projectiveFromAffine(into[x], into[y]))))
    BY <1>5 DEF SmallScalar
  <2>5. affineResult(projectiveDouble(projectiveFromAffine(into[x], into[y])))
          = Returned(GroupAdd(pt, pt))
    BY <2>3 DEF affineResult, Affine
  <2>6. finish(Returned(GroupMul(k, <<x, y>>)))
    <3>1. CASE k = 0  BY <2>2, <2>4, <3>1 DEF pt, Infinity
    <3>2. CASE k = 1  BY <2>2, <2>4, <3>2 DEF pt
    <3>3. CASE k = 2  BY <2>2, <2>4, <2>5, <3>3 DEF pt
    <3> QED  BY <2>4, <3>1, <3>2, <3>3
  <2> QED  BY <2>1, <2>6, MulEnds
<1> QED  BY <1>2, <1>3, <1>4, <1>5

\* The loop starts with r at infinity and q at the point.
LEMMA MulStarts == ASSUME MulInv, StartLoop PROVE MulInv'
<1>1. /\ x \in Word /\ y \in Word /\ k \in Word /\ scalar = k /\ k \in Nat
      /\ q' = projectiveFromAffine(into[x], into[y]) /\ r' = ZeroPoint /\ pc' = "loop"
      /\ UNCHANGED <<x, y, k, scalar, result>>
  BY WordsAreNumbers DEF MulInv, StartLoop, accepted
<1>2. /\ x \in F /\ y \in F /\ <<x, y>> # Infinity /\ <<x, y>> \in Points /\ OnCurve(x, y)
  <2>1. x \in F /\ y \in F /\ ValidPoint(x, y) /\ <<x, y>> # Infinity
    BY <1>1, Validity DEF StartLoop, accepted
  <2> QED  BY <2>1, FinitePoints DEF ValidPoint
<1>3. Tracks(<<x, y>>, Infinity)'
  <2>1. Stands(q', <<x, y>>) /\ Stands(r', Infinity)  BY <1>1, <1>2, StartStands
  <2>2. GroupAdd(Infinity, GroupMul(k, <<x, y>>)) = GroupMul(k, <<x, y>>)  BY GroupLaw
  <2> QED  BY <1>1, <1>2, <2>1, <2>2 DEF Tracks
<1> QED  BY <1>1, <1>2, <1>3 DEF MulInv, ReturnsGroupProduct

\* What one pass keeps: half of the scalar is left for the double of the point,
\* and an odd scalar adds the point.
LEMMA PassKeeps ==
  ASSUME NEW pq \in Points, NEW pr \in Points, pq # Infinity, NEW n \in Nat
  PROVE  /\ GroupAdd(pq, pq) \in Points /\ GroupAdd(pq, pq) # Infinity
         /\ n \div 2 \in Nat
         /\ n % 2 # 1 => GroupMul(n, pq) = GroupMul(n \div 2, GroupAdd(pq, pq))
         /\ n % 2 = 1 => GroupAdd(pr, GroupMul(n, pq))
                           = GroupAdd(GroupAdd(pr, pq), GroupMul(n \div 2, GroupAdd(pq, pq)))
<1>1. GroupAdd(pq, pq) \in Points /\ GroupAdd(pq, pq) # Infinity
  BY GroupLaw, NoTwoTorsion
<1>2. n \div 2 \in Nat /\ n = 2 * (n \div 2) + (n % 2) /\ n % 2 \in 0 .. 1
  OBVIOUS
<1>3. PICK m \in Nat : m = n \div 2  BY <1>2
<1>4. GroupMul(2 * m, pq) = GroupMul(m, GroupAdd(pq, pq)) /\ GroupMul(2 * m, pq) \in Points
  <2>1. 2 * m \in Nat  BY <1>3
  <2> QED  BY <2>1, MulDouble
<1>5. ASSUME n % 2 = 1
      PROVE  GroupAdd(pr, GroupMul(n, pq)) = GroupAdd(GroupAdd(pr, pq), GroupMul(2 * m, pq))
  <2>1. n = 2 * m + 1 /\ 2 * m \in Nat  BY <1>2, <1>3, <1>5
  <2>2. GroupMul(n, pq) = GroupAdd(GroupMul(2 * m, pq), pq)  BY <2>1, MulSuccessor
  <2>3. GroupMul(n, pq) = GroupAdd(pq, GroupMul(2 * m, pq))  BY <1>4, <2>2, GroupLaw
  <2> QED  BY <1>4, <2>3, GroupLaw
<1>6. n % 2 # 1 => n = 2 * m  BY <1>2, <1>3
<1> QED  BY <1>1, <1>2, <1>3, <1>4, <1>5, <1>6

\* The passes of the loop.
LEMMA MulPasses ==
  ASSUME MulInv, DoubleOnly \/ AddToInfinity \/ AddEqual \/ AddDistinct
  PROVE  MulInv'
<1>1. /\ pc = "loop" /\ x \in F /\ y \in F /\ OnCurve(x, y) /\ scalar \in Nat
      /\ x \in Word /\ y \in Word /\ k \in Word
  BY DEF MulInv, DoubleOnly, AddToInfinity, AddEqual, AddDistinct, adding
<1>2. PICK pq, pr : Tracks(pq, pr)  BY <1>1 DEF MulInv
<1>3. /\ Stands(q, pq) /\ Stands(r, pr) /\ pq # Infinity /\ pq \in Points /\ pr \in Points
      /\ GroupAdd(pr, GroupMul(scalar, pq)) = GroupMul(k, <<x, y>>)
      /\ projectivePointIsInfinity(r) <=> pr = Infinity
  <2>1. Stands(q, pq) /\ Stands(r, pr)  BY <1>2 DEF Tracks
  <2> QED  BY <1>2, <2>1, Forms, StandsFinite DEF Tracks, projectivePointIsInfinity
<1> DEFINE dq == GroupAdd(pq, pq)
           half == scalar \div 2
<1>4. /\ dq # Infinity /\ half \in Nat
      /\ ~lsbIsOne => GroupAdd(pr, GroupMul(half, dq)) = GroupMul(k, <<x, y>>)
      /\ lsbIsOne => GroupAdd(GroupAdd(pr, pq), GroupMul(half, dq)) = GroupMul(k, <<x, y>>)
  BY <1>1, <1>3, PassKeeps DEF lsbIsOne
<1>5. Stands(projectiveDouble(q), dq)  BY <1>3, DoubleStands
<1> HIDE DEF dq, half
<1>6. ASSUME NEW newR, NEW newQ, NEW sum3, pass(newR, newQ),
             Stands(newR, sum3), Stands(newQ, dq),
             GroupAdd(sum3, GroupMul(half, dq)) = GroupMul(k, <<x, y>>)
      PROVE  MulInv'
  <2>1. r' = newR /\ q' = newQ /\ scalar' = half /\ UNCHANGED <<x, y, k, pc, result>>
    BY <1>6 DEF pass, half
  <2>2. Tracks(dq, sum3)'  BY <1>4, <1>6, <2>1 DEF Tracks
  <2> QED  BY <1>1, <1>4, <2>1, <2>2 DEF MulInv, ReturnsGroupProduct
<1>7. CASE DoubleOnly
  <2>1. ~lsbIsOne /\ pass(r, projectiveDouble(q))  BY <1>7 DEF DoubleOnly
  <2> QED  BY <1>3, <1>4, <1>5, <1>6, <2>1
<1>8. CASE AddToInfinity
  <2>1. lsbIsOne /\ pr = Infinity /\ pass(q, projectiveDouble(q))
    BY <1>3, <1>8 DEF AddToInfinity, adding
  <2>2. GroupAdd(pr, pq) = pq  BY <2>1, GroupLaw
  <2> QED  BY <1>3, <1>4, <1>5, <1>6, <2>1, <2>2
<1>9. CASE AddEqual
  <2>1. /\ lsbIsOne /\ pr # Infinity /\ tOf = 0 /\ uOf = 0
        /\ pass(projectiveDouble(r), projectiveDouble(r))
    BY <1>3, <1>9 DEF AddEqual, adding
  <2>2. pr = pq  BY <1>3, <2>1, LoopAdds
  <2>3. Stands(projectiveDouble(r), dq)  BY <1>3, <2>2, DoubleStands DEF dq
  <2>4. GroupAdd(dq, GroupMul(half, dq)) = GroupMul(k, <<x, y>>)  BY <1>4, <2>1, <2>2 DEF dq
  <2> QED  BY <1>6, <2>1, <2>3, <2>4
<1>10. CASE AddDistinct
  <2>1. /\ lsbIsOne /\ pr # Infinity /\ ~(tOf = 0 /\ uOf = 0)
        /\ pass(addDistinct(tOf, uOf), projectiveDouble(q))
    BY <1>3, <1>10 DEF AddDistinct, adding
  <2>2. Stands(addDistinct(tOf, uOf), GroupAdd(pr, pq))  BY <1>3, <2>1, LoopAdds
  <2> QED  BY <1>4, <1>5, <1>6, <2>1, <2>2
<1> QED  BY <1>7, <1>8, <1>9, <1>10

\* The loop ends with the product in r.
LEMMA MulLeaves == ASSUME MulInv, LeaveLoop PROVE MulInv'
<1>1. /\ pc = "loop" /\ x \in F /\ y \in F /\ OnCurve(x, y) /\ scalar = 0
      /\ finish(affineResult(r))
  BY DEF MulInv, LeaveLoop
<1>2. PICK pq, pr : Tracks(pq, pr)  BY <1>1 DEF MulInv
<1>3. Stands(q, pq) /\ Stands(r, pr) /\ GroupAdd(pr, GroupMul(0, pq)) = GroupMul(k, <<x, y>>)
  BY <1>1, <1>2 DEF Tracks
<1>4. pr = GroupMul(k, <<x, y>>)
  <2>1. pq \in Points  BY <1>3, Forms, StandsFinite
  <2> QED  BY <1>3, <2>1, MulSuccessor, GroupLaw
<1>5. affineResult(r) = Returned(pr)
  <2>1. Affine(r) = pr  BY <1>3, AffineReads
  <2> QED  BY <2>1 DEF affineResult, Affine
<1>6. ValidPoint(x, y)  BY <1>1, FinitePoints DEF ValidPoint
<1> QED  BY <1>1, <1>4, <1>5, <1>6, MulEnds

\* What the proof of EcMul rests on: in the loop the two points are those of
\* the group that the double-and-add method prescribes.
THEOREM MulInvariant == Spec => []MulInv
<1>1. Init => MulInv  BY MulInitial
<1>2. MulInv /\ [Next]_vars => MulInv'
  <2> SUFFICES ASSUME MulInv, [Next]_vars PROVE MulInv'  OBVIOUS
  <2>1. CASE OutsideField \/ TimesInfinity \/ OffCurve \/ SmallScalar
    BY <2>1, MulShortcuts
  <2>2. CASE StartLoop  BY <2>2, MulStarts
  <2>3. CASE DoubleOnly \/ AddToInfinity \/ AddEqual \/ AddDistinct
    BY <2>3, MulPasses
  <2>4. CASE LeaveLoop  BY <2>4, MulLeaves
  <2>5. CASE UNCHANGED vars
    BY <2>5 DEF vars, MulInv, Tracks, ReturnsGroupProduct
  <2> QED  BY <2>1, <2>2, <2>3, <2>4, <2>5 DEF Next, Terminated
<1> QED  BY <1>1, <1>2, PTL DEF Spec

\* In the double-and-add loop r + scalar*q stays k*(x, y), both are points of
\* the curve, and the doubled point is never infinity.
THEOREM EcMulTracksProduct == Spec => []AccumulatorTracksProduct
<1>1. MulInv => AccumulatorTracksProduct
  <2> SUFFICES ASSUME MulInv, pc = "loop"
               PROVE  /\ ~projectivePointIsInfinity(q)
                      /\ Affine(r) \in Points /\ Affine(q) \in Points
                      /\ GroupAdd(Affine(r), GroupMul(scalar, Affine(q)))
                           = GroupMul(k, <<x, y>>)
    BY DEF AccumulatorTracksProduct
  <2>1. PICK pq, pr : Tracks(pq, pr)  BY DEF MulInv
  <2>2. Stands(q, pq) /\ Stands(r, pr)  BY <2>1 DEF Tracks
  <2>3. Affine(q) = pq /\ Affine(r) = pr  BY <2>2, AffineReads
  <2> QED  BY <2>1, <2>2, <2>3, Forms, StandsFinite DEF Tracks, projectivePointIsInfinity
<1> QED  BY <1>1, MulInvariant, PTL

\* EIP-196: a valid point times any scalar of the word, reduced or not; every
\* other call fails, also for the scalars with a shortcut.
THEOREM EcMulReturnsProduct == Spec => []ReturnsGroupProduct
<1>1. MulInv => ReturnsGroupProduct  BY DEF MulInv
<1> QED  BY <1>1, MulInvariant, PTL

-----------------------------------------------------------------------------
(***************************************************************************)
(* ModExp: recursion over the numbers, powers of two, and digits.          *)
(***************************************************************************)

(* The first n + 1 values that repeated steps give.                        *)
StepsTo(n, f, base, step, V) ==
  /\ f \in [0 .. n -> V] /\ f[0] = base
  /\ \A m \in 0 .. (n - 1) : f[m + 1] = step[m][f[m]]

\* Steps can be repeated any number of times.
LEMMA StepsExist ==
  ASSUME NEW V, NEW base \in V, NEW step \in [Nat -> [V -> V]], NEW n \in Nat
  PROVE  \E f : StepsTo(n, f, base, step, V)
<1> DEFINE S == {m \in Nat : \E f : StepsTo(m, f, base, step, V)}
<1>1. 0 \in S
  <2>1. StepsTo(0, [m \in 0 .. 0 |-> base], base, step, V)  BY DEF StepsTo
  <2> QED  BY <2>1
<1>2. ASSUME NEW m \in S PROVE m + 1 \in S
  <2>1. PICK f : StepsTo(m, f, base, step, V)  OBVIOUS
  <2>0. m \in Nat  OBVIOUS
  <2> DEFINE g == [j \in 0 .. (m + 1) |-> IF j = m + 1 THEN step[m][f[m]] ELSE f[j]]
  <2>2. \A j \in 0 .. m : f[j] \in V  BY <2>0, <2>1 DEF StepsTo
  <2>3. step[m][f[m]] \in V
    <3>1. f[m] \in V  BY <2>0, <2>2
    <3>2. step[m] \in [V -> V]  BY <2>0
    <3> QED  BY <3>1, <3>2
  <2>4. g \in [0 .. (m + 1) -> V]
    <3>1. \A j \in 0 .. (m + 1) : j # m + 1 => j \in 0 .. m  BY <2>0
    <3> QED  BY <2>2, <2>3, <3>1
  <2>5. \A j \in 0 .. m : g[j] = f[j] /\ j \in 0 .. (m + 1)  BY <2>0
  <2>6. g[m + 1] = step[m][f[m]]  BY <2>0
  <2> HIDE DEF g
  <2>7. \A j \in 0 .. m : g[j + 1] = step[j][g[j]]
    <3> SUFFICES ASSUME NEW j \in 0 .. m PROVE g[j + 1] = step[j][g[j]]
      OBVIOUS
    <3>1. CASE j = m  BY <2>5, <2>6, <3>1
    <3>2. CASE j # m
      <4>1. j \in 0 .. (m - 1) /\ j + 1 \in 0 .. m  BY <2>0, <3>2
      <4>2. f[j + 1] = step[j][f[j]]  BY <2>1, <4>1 DEF StepsTo
      <4> QED  BY <2>5, <4>1, <4>2
    <3> QED  BY <3>1, <3>2
  <2>8. g[0] = base  BY <2>0, <2>1, <2>5 DEF StepsTo
  <2>9. (m + 1) - 1 = m /\ m + 1 \in Nat  BY <2>0
  <2>10. StepsTo(m + 1, g, base, step, V)  BY <2>4, <2>7, <2>8, <2>9 DEF StepsTo
  <2> QED  BY <2>9, <2>10
<1> HIDE DEF S
<1>3. n \in S  BY <1>1, <1>2, SetInduction
<1> QED  BY <1>3 DEF S

\* They are determined.
LEMMA StepsAgree ==
  ASSUME NEW V, NEW base, NEW step, NEW n \in Nat, NEW l \in Nat, NEW f, NEW g,
         StepsTo(n, f, base, step, V), StepsTo(l, g, base, step, V)
  PROVE  \A m \in Nat : m <= n /\ m <= l => f[m] = g[m]
<1> DEFINE S == {m \in Nat : m <= n /\ m <= l => f[m] = g[m]}
<1>1. 0 \in S  BY DEF StepsTo
<1>2. ASSUME NEW m \in S PROVE m + 1 \in S
  <2>0. m \in Nat /\ m + 1 \in Nat  OBVIOUS
  <2>1. CASE m + 1 <= n /\ m + 1 <= l
    <3>1. m \in 0 .. (n - 1) /\ m \in 0 .. (l - 1) /\ m <= n /\ m <= l  BY <2>0, <2>1
    <3>2. f[m] = g[m]  BY <3>1
    <3>3. f[m + 1] = step[m][f[m]] /\ g[m + 1] = step[m][g[m]]  BY <3>1 DEF StepsTo
    <3> QED  BY <2>0, <3>2, <3>3
  <2> QED  BY <2>0, <2>1
<1> HIDE DEF S
<1>3. Nat \subseteq S  BY <1>1, <1>2, SetInduction
<1> QED  BY <1>3 DEF S

\* A function on the numbers can be defined by steps.
LEMMA Recursion ==
  \A V : \A base \in V : \A step \in [Nat -> [V -> V]] :
    \E f \in [Nat -> V] : f[0] = base /\ \A m \in Nat : f[m + 1] = step[m][f[m]]
<1> SUFFICES ASSUME NEW V, NEW base \in V, NEW step \in [Nat -> [V -> V]]
             PROVE  \E f \in [Nat -> V] : f[0] = base /\ \A m \in Nat : f[m + 1] = step[m][f[m]]
  OBVIOUS
<1> DEFINE upto(n) == CHOOSE f : StepsTo(n, f, base, step, V)
           f == [n \in Nat |-> upto(n)[n]]
<1>1. \A n \in Nat : StepsTo(n, upto(n), base, step, V)  BY StepsExist
<1> HIDE DEF upto
<1>2. \A n \in Nat : f[n] = upto(n)[n]  OBVIOUS
<1>3. f \in [Nat -> V]
  <2>1. \A n \in Nat : upto(n)[n] \in V  BY <1>1 DEF StepsTo
  <2> QED  BY <2>1
<1> HIDE DEF f
<1>4. f[0] = base
  <2>1. upto(0)[0] = base  BY <1>1 DEF StepsTo
  <2> QED  BY <1>2, <2>1
<1>5. ASSUME NEW n \in Nat PROVE f[n + 1] = step[n][f[n]]
  <2>1. n + 1 \in Nat /\ n <= n + 1 /\ n <= n /\ n \in 0 .. ((n + 1) - 1)  OBVIOUS
  <2>2. StepsTo(n, upto(n), base, step, V) /\ StepsTo(n + 1, upto(n + 1), base, step, V)
    BY <1>1, <2>1
  <2>3. upto(n)[n] = upto(n + 1)[n]  BY <2>1, <2>2, StepsAgree
  <2>4. upto(n + 1)[n + 1] = step[n][upto(n + 1)[n]]  BY <2>1, <2>2 DEF StepsTo
  <2> QED  BY <1>2, <2>1, <2>3, <2>4
<1> QED  BY <1>3, <1>4, <1>5

\* With numbers as values.
LEMMA NumberRecursion ==
  \A base \in Nat : \A step \in [Nat -> [Nat -> Nat]] :
    \E f \in [Nat -> Nat] : f[0] = base /\ \A m \in Nat : f[m + 1] = step[m][f[m]]
<1> DEFINE Numbers == Nat
<1> SUFFICES \A base \in Numbers : \A step \in [Nat -> [Numbers -> Numbers]] :
      \E f \in [Nat -> Numbers] : f[0] = base /\ \A m \in Nat : f[m + 1] = step[m][f[m]]
  OBVIOUS
<1> HIDE DEF Numbers
<1> QED  BY Recursion

\* The powers of two.
LEMMA PowerLaws ==
  /\ Exp!PowerOfTwo[0] = 1
  /\ \A n \in Nat : Exp!PowerOfTwo[n + 1] = 2 * Exp!PowerOfTwo[n]
  /\ \A n \in Nat : Exp!PowerOfTwo[n] \in Nat /\ Exp!PowerOfTwo[n] > 0
<1> DEFINE Positive == Nat \ {0}
           step == [n \in Nat |-> [m \in Positive |-> 2 * m]]
<1>1. step \in [Nat -> [Positive -> Positive]]
  <2>1. \A m \in Positive : 2 * m \in Positive  OBVIOUS
  <2> HIDE DEF Positive
  <2> QED  BY <2>1
<1>2. \A n \in Nat, m \in Positive : step[n][m] = 2 * m  OBVIOUS
<1> HIDE DEF step
<1>3. PICK f \in [Nat -> Positive] : f[0] = 1 /\ \A n \in Nat : f[n + 1] = step[n][f[n]]
  <2>1. 1 \in Positive  OBVIOUS
  <2> HIDE DEF Positive
  <2>2. \A base \in Positive : \A stp \in [Nat -> [Positive -> Positive]] :
          \E f \in [Nat -> Positive] : f[0] = base /\ \A m \in Nat : f[m + 1] = stp[m][f[m]]
    BY Recursion
  <2>3. \E f \in [Nat -> Positive] : f[0] = 1 /\ \A n \in Nat : f[n + 1] = step[n][f[n]]
    BY <1>1, <2>1, <2>2
  <2> QED  BY <2>3
<1> DEFINE IsIt(g) == g = [n \in Nat |-> IF n = 0 THEN 1 ELSE 2 * g[n - 1]]
<1>4. IsIt(f)
  <2>1. \A n \in Nat : f[n] = IF n = 0 THEN 1 ELSE 2 * f[n - 1]
    <3> SUFFICES ASSUME NEW n \in Nat, n # 0 PROVE f[n] = 2 * f[n - 1]
      BY <1>3
    <3>1. n - 1 \in Nat /\ (n - 1) + 1 = n  OBVIOUS
    <3>2. f[(n - 1) + 1] = step[n - 1][f[n - 1]]  BY <1>3, <3>1
    <3>3. f[n - 1] \in Positive  BY <3>1
    <3> QED  BY <1>2, <3>1, <3>2, <3>3
  <2>2. f = [n \in Nat |-> f[n]]  OBVIOUS
  <2> QED  BY <2>1, <2>2
<1> DEFINE g == Exp!PowerOfTwo
<1>5. g = CHOOSE h : IsIt(h)  BY DEF Exp!PowerOfTwo
<1>6. IsIt(g)
  <2> HIDE DEF g, IsIt
  <2> QED  BY <1>4, <1>5
<1> HIDE DEF g
<1>7. \A n \in Nat : g[n] = IF n = 0 THEN 1 ELSE 2 * g[n - 1]
  <2> DEFINE value(n) == IF n = 0 THEN 1 ELSE 2 * g[n - 1]
  <2>1. g = [n \in Nat |-> value(n)]  BY <1>6
  <2> HIDE DEF value
  <2>2. \A n \in Nat : g[n] = value(n)  BY <2>1
  <2> QED  BY <2>2 DEF value
<1>8. \A n \in Nat : g[n + 1] = 2 * g[n]
  <2> SUFFICES ASSUME NEW n \in Nat PROVE g[n + 1] = 2 * g[n]
    OBVIOUS
  <2>1. n + 1 \in Nat /\ n + 1 # 0 /\ (n + 1) - 1 = n  OBVIOUS
  <2> QED  BY <1>7, <2>1
<1> DEFINE S == {n \in Nat : g[n] \in Nat /\ g[n] > 0}
<1>9. 0 \in S  BY <1>7
<1>10. ASSUME NEW n \in S PROVE n + 1 \in S
  <2>1. n \in Nat /\ g[n] \in Nat /\ g[n] > 0 /\ g[n + 1] = 2 * g[n]  BY <1>8
  <2>2. 2 * g[n] \in Nat /\ 2 * g[n] > 0  BY <2>1
  <2> QED  BY <2>1, <2>2
<1> HIDE DEF S
<1>11. Nat \subseteq S  BY <1>9, <1>10, SetInduction
<1> QED  BY <1>7, <1>8, <1>11 DEF S, g

\* Exponents add up.
LEMMA PowerSum ==
  ASSUME NEW m \in Nat, NEW n \in Nat
  PROVE  Exp!PowerOfTwo[m + n] = Exp!PowerOfTwo[m] * Exp!PowerOfTwo[n]
<1> DEFINE g == Exp!PowerOfTwo
           S == {j \in Nat : g[m + j] = g[m] * g[j]}
<1>0. g[0] = 1 /\ \A j \in Nat : g[j + 1] = 2 * g[j] /\ g[j] \in Nat  BY PowerLaws
<1> HIDE DEF g
<1>1. 0 \in S
  <2>1. g[m] \in Nat /\ m + 0 = m  BY <1>0
  <2>2. g[m] * 1 = g[m]  BY <2>1
  <2> QED  BY <1>0, <2>1, <2>2
<1>2. ASSUME NEW j \in S PROVE j + 1 \in S
  <2>1. j \in Nat /\ g[m + j] = g[m] * g[j] /\ m + (j + 1) = (m + j) + 1 /\ m + j \in Nat
    OBVIOUS
  <2>2. g[m] \in Nat /\ g[j] \in Nat /\ g[j + 1] = 2 * g[j] /\ g[(m + j) + 1] = 2 * g[m + j]
    BY <1>0, <2>1
  <2>3. 2 * (g[m] * g[j]) = g[m] * (2 * g[j])  BY <2>2
  <2> QED  BY <2>1, <2>2, <2>3
<1> HIDE DEF S
<1>3. n \in S  BY <1>1, <1>2, SetInduction
<1> QED  BY <1>3 DEF S, g

-----------------------------------------------------------------------------
(***************************************************************************)
(* The numbers that digits stand for.                                      *)
(***************************************************************************)

(* f[m] is the number of the m most significant of n digits.               *)
Prefixes(n, d, radix, f) ==
  /\ f \in [0 .. n -> Nat] /\ f[0] = 0
  /\ \A j \in 1 .. n : f[j] = f[j - 1] * radix + d[j]

\* Digits have such numbers, and the last is the one they stand for.
LEMMA DigitsValue ==
  ASSUME NEW n \in Nat, NEW d \in [1 .. n -> Nat], NEW radix \in Nat
  PROVE  \E f : Prefixes(n, d, radix, f) /\ Exp!digitsValue(d, radix) = f[n]
<1> DEFINE digit == [m \in Nat |-> IF m \in 1 .. n THEN d[m] ELSE 0]
           step == [m \in Nat |-> [v \in Nat |-> v * radix + digit[m + 1]]]
<1>1. digit \in [Nat -> Nat] /\ \A m \in 1 .. n : digit[m] = d[m]
  OBVIOUS
<1> HIDE DEF digit
<1>2. step \in [Nat -> [Nat -> Nat]]
  <2>1. \A m, v \in Nat : v * radix + digit[m + 1] \in Nat
    <3> SUFFICES ASSUME NEW m \in Nat, NEW v \in Nat PROVE v * radix + digit[m + 1] \in Nat
      OBVIOUS
    <3>1. v * radix \in Nat /\ digit[m + 1] \in Nat  BY <1>1
    <3> QED  BY <3>1
  <2> QED  BY <2>1
<1>3. \A m, v \in Nat : step[m][v] = v * radix + digit[m + 1]  OBVIOUS
<1> HIDE DEF step
<1>4. PICK e \in [Nat -> Nat] : e[0] = 0 /\ \A m \in Nat : e[m + 1] = step[m][e[m]]
  BY <1>2, NumberRecursion
<1> DEFINE f == [m \in 0 .. n |-> e[m]]
<1>5. f \in [0 .. n -> Nat] /\ f[0] = 0 /\ \A m \in 0 .. n : f[m] = e[m]
  <2>3. \A m \in Nat : e[m] \in Nat  BY <1>4
  <2>4. \A m \in 0 .. n : m \in Nat  OBVIOUS
  <2>5. \A m \in 0 .. n : f[m] = e[m]  OBVIOUS
  <2>1. \A m \in 0 .. n : f[m] = e[m] /\ e[m] \in Nat  BY <2>3, <2>4, <2>5
  <2>2. 0 \in 0 .. n  OBVIOUS
  <2> QED  BY <1>4, <2>1, <2>2
<1> HIDE DEF f
<1>6. \A j \in 1 .. n : f[j] = f[j - 1] * radix + d[j]
  <2> SUFFICES ASSUME NEW j \in 1 .. n PROVE f[j] = f[j - 1] * radix + d[j]
    OBVIOUS
  <2>1. j - 1 \in Nat /\ (j - 1) + 1 = j /\ j - 1 \in 0 .. n /\ j \in 0 .. n  OBVIOUS
  <2>2. e[(j - 1) + 1] = step[j - 1][e[j - 1]] /\ e[j - 1] \in Nat  BY <1>4, <2>1
  <2>3. step[j - 1][e[j - 1]] = e[j - 1] * radix + digit[(j - 1) + 1]  BY <1>3, <2>1, <2>2
  <2> QED  BY <1>1, <1>5, <2>1, <2>2, <2>3
<1>7. Prefixes(n, d, radix, f)  BY <1>5, <1>6 DEF Prefixes
<1>8. Len(d) = n  OBVIOUS
<1> DEFINE value(g, m) == IF m = 0 THEN 0 ELSE g[m - 1] * radix + d[m]
           IsIt(g) == g = [m \in 0 .. n |-> value(g, m)]
           g == CHOOSE h : IsIt(h)
<1>9. Exp!digitsValue(d, radix) = g[n]
  BY <1>8 DEF Exp!digitsValue
<1>10. IsIt(f)
  <2>1. \A m \in 0 .. n : f[m] = value(f, m)
    <3> SUFFICES ASSUME NEW m \in 0 .. n PROVE f[m] = value(f, m)
      OBVIOUS
    <3>1. CASE m = 0  BY <1>5, <3>1
    <3>2. CASE m # 0
      <4>1. m \in 1 .. n  BY <3>2
      <4> QED  BY <1>6, <3>2, <4>1
    <3> QED  BY <3>1, <3>2
  <2>2. f = [m \in 0 .. n |-> f[m]]  BY <1>5
  <2> HIDE DEF value
  <2> QED  BY <2>1, <2>2
<1>11. IsIt(g)
  <2> HIDE DEF IsIt
  <2> QED  BY <1>10
<1> HIDE DEF g
<1>12. \A m \in 0 .. n : g[m] = value(g, m)
  <2> HIDE DEF value
  <2> QED  BY <1>11
<1> DEFINE S == {m \in Nat : m <= n => g[m] = f[m]}
<1>13. 0 \in S
  <2>1. 0 \in 0 .. n  OBVIOUS
  <2> QED  BY <1>5, <1>12, <2>1
<1>14. ASSUME NEW m \in S PROVE m + 1 \in S
  <2>0. m \in Nat /\ m + 1 \in Nat /\ (m + 1) - 1 = m  OBVIOUS
  <2>1. CASE m + 1 <= n
    <3>1. m + 1 \in 0 .. n /\ m + 1 \in 1 .. n /\ m + 1 # 0 /\ m <= n  BY <2>0, <2>1
    <3>2. g[m] = f[m]  BY <3>1
    <3>3. g[m + 1] = g[m] * radix + d[m + 1]  BY <1>12, <2>0, <3>1
    <3>4. f[m + 1] = f[m] * radix + d[m + 1]  BY <1>6, <2>0, <3>1
    <3> QED  BY <2>0, <3>2, <3>3, <3>4
  <2> QED  BY <2>0, <2>1
<1> HIDE DEF S
<1>15. Nat \subseteq S  BY <1>13, <1>14, SetInduction
<1>16. g[n] = f[n]  BY <1>15 DEF S
<1> QED  BY <1>7, <1>9, <1>16

\* They are determined.
LEMMA PrefixesAgree ==
  ASSUME NEW n \in Nat, NEW d, NEW radix, NEW f, NEW g,
         Prefixes(n, d, radix, f), Prefixes(n, d, radix, g)
  PROVE  \A m \in 0 .. n : f[m] = g[m]
<1> DEFINE S == {m \in Nat : m <= n => g[m] = f[m]}
<1>1. 0 \in S  BY DEF Prefixes
<1>2. ASSUME NEW m \in S PROVE m + 1 \in S
  <2>0. m \in Nat /\ m + 1 \in Nat /\ (m + 1) - 1 = m  OBVIOUS
  <2>1. CASE m + 1 <= n
    <3>1. m + 1 \in 1 .. n /\ m <= n  BY <2>0, <2>1
    <3>2. g[m] = f[m]  BY <3>1
    <3>3. f[m + 1] = f[m] * radix + d[m + 1] /\ g[m + 1] = g[m] * radix + d[m + 1]
      BY <2>0, <3>1 DEF Prefixes
    <3> QED  BY <2>0, <3>2, <3>3
  <2> QED  BY <2>0, <2>1
<1> HIDE DEF S
<1>3. Nat \subseteq S  BY <1>1, <1>2, SetInduction
<1>4. \A m \in 0 .. n : m \in S  BY <1>3
<1> QED  BY <1>4 DEF S

\* So any numbers that are built like that lead to the value.
LEMMA ValueOfPrefixes ==
  ASSUME NEW n \in Nat, NEW d \in [1 .. n -> Nat], NEW radix \in Nat, NEW f,
         Prefixes(n, d, radix, f)
  PROVE  Exp!digitsValue(d, radix) = f[n]
<1>1. PICK g : Prefixes(n, d, radix, g) /\ Exp!digitsValue(d, radix) = g[n]  BY DigitsValue
<1>2. g[n] = f[n]
  <2>1. n \in 0 .. n  OBVIOUS
  <2> QED  BY <1>1, <2>1, PrefixesAgree
<1> QED  BY <1>1, <1>2

\* A number is below the power of its radix.
LEMMA PrefixBound ==
  ASSUME NEW n \in Nat, NEW w \in Nat, NEW d, NEW f,
         d \in [1 .. n -> 0 .. (Exp!PowerOfTwo[w] - 1)],
         Prefixes(n, d, Exp!PowerOfTwo[w], f)
  PROVE  \A m \in 0 .. n : f[m] \in Nat /\ f[m] < Exp!PowerOfTwo[w * m]
<1> DEFINE pow == Exp!PowerOfTwo
           S == {m \in Nat : m <= n => f[m] < pow[w * m]}
<1>0. /\ pow[0] = 1 /\ \A m \in Nat : pow[m] \in Nat /\ pow[m] > 0
      /\ \A l, m \in Nat : pow[l + m] = pow[l] * pow[m]
  BY PowerLaws, PowerSum
<1> HIDE DEF pow
<1>1. /\ d \in [1 .. n -> 0 .. (pow[w] - 1)] /\ f \in [0 .. n -> Nat] /\ f[0] = 0
      /\ \A j \in 1 .. n : f[j] = f[j - 1] * pow[w] + d[j]
  BY DEF Prefixes, pow
<1>2. 0 \in S
  <2>1. w * 0 = 0  OBVIOUS
  <2> QED  BY <1>0, <1>1, <2>1
<1>3. ASSUME NEW m \in S PROVE m + 1 \in S
  <2>0. m \in Nat /\ m + 1 \in Nat /\ (m + 1) - 1 = m  OBVIOUS
  <2>1. CASE m + 1 <= n
    <3>1. m + 1 \in 1 .. n /\ m <= n /\ m \in 0 .. n  BY <2>0, <2>1
    <3>2. f[m] < pow[w * m] /\ f[m] \in Nat  BY <1>1, <3>1
    <3>3. f[m + 1] = f[m] * pow[w] + d[m + 1] /\ d[m + 1] \in 0 .. (pow[w] - 1)
      BY <1>1, <2>0, <3>1
    <3>4. w * (m + 1) = w * m + w /\ w * m \in Nat  BY <2>0
    <3>5. pow[w * (m + 1)] = pow[w * m] * pow[w]  BY <1>0, <3>4
    <3>6. pow[w * m] \in Nat /\ pow[w] \in Nat /\ pow[w] > 0  BY <1>0, <3>4
    <3>7. \A a, b, c, e \in Nat : a < b /\ e < c => a * c + e < b * c
      <4> SUFFICES ASSUME NEW a \in Nat, NEW b \in Nat, NEW c \in Nat, NEW e \in Nat, a < b, e < c
                   PROVE  a * c + e < b * c
        OBVIOUS
      <4>1. b - a \in Nat /\ b - a >= 1  OBVIOUS
      <4>2. (b - a) * c >= c  BY <4>1
      <4>3. b * c = a * c + (b - a) * c  BY <4>1
      <4>4. a * c \in Nat /\ b * c \in Nat  OBVIOUS
      <4> HIDE <4>1
      <4> QED  BY <4>2, <4>3, <4>4
    <3>8. d[m + 1] \in Nat /\ d[m + 1] < pow[w]  BY <3>3, <3>6
    <3>9. f[m] * pow[w] + d[m + 1] < pow[w * m] * pow[w]  BY <3>2, <3>6, <3>7, <3>8
    <3> QED  BY <2>0, <3>3, <3>5, <3>9
  <2> QED  BY <2>0, <2>1
<1> HIDE DEF S
<1>4. Nat \subseteq S  BY <1>2, <1>3, SetInduction
<1>5. ASSUME NEW m \in 0 .. n PROVE f[m] \in Nat /\ f[m] < pow[w * m]
  <2>1. m \in S /\ m <= n  BY <1>4
  <2> QED  BY <1>1, <2>1 DEF S
<1> QED  BY <1>5 DEF pow

\* Leading zeros do not count.
LEMMA Padded ==
  ASSUME NEW n \in Nat, NEW l \in Nat, n <= l, NEW radix \in Nat,
         NEW d \in [1 .. n -> Nat], NEW e \in [1 .. l -> Nat],
         \A j \in 1 .. l : e[j] = IF j <= l - n THEN 0 ELSE d[j - (l - n)]
  PROVE  Exp!digitsValue(e, radix) = Exp!digitsValue(d, radix)
<1>1. PICK f : Prefixes(n, d, radix, f) /\ Exp!digitsValue(d, radix) = f[n]  BY DigitsValue
<1> DEFINE g == [j \in 0 .. l |-> IF j <= l - n THEN 0 ELSE f[j - (l - n)]]
<1>2. /\ f \in [0 .. n -> Nat] /\ f[0] = 0
      /\ \A j \in 1 .. n : f[j] = f[j - 1] * radix + d[j]
  BY <1>1 DEF Prefixes
<1>3. \A j \in 0 .. l : g[j] = IF j <= l - n THEN 0 ELSE f[j - (l - n)]  OBVIOUS
<1>4. g \in [0 .. l -> Nat]
  <2>1. \A j \in 0 .. l : ~(j <= l - n) => f[j - (l - n)] \in Nat
    <3> SUFFICES ASSUME NEW j \in 0 .. l, ~(j <= l - n) PROVE f[j - (l - n)] \in Nat
      OBVIOUS
    <3>1. j - (l - n) \in 0 .. n  OBVIOUS
    <3> QED  BY <1>2, <3>1
  <2> QED  BY <2>1
<1> HIDE DEF g
<1>5. ASSUME NEW j \in 1 .. l PROVE g[j] = g[j - 1] * radix + e[j]
  <2>1. j \in 0 .. l /\ j - 1 \in 0 .. l  OBVIOUS
  <2>2. CASE j <= l - n
    <3>1. j - 1 <= l - n  BY <2>2
    <3>2. g[j] = 0 /\ g[j - 1] = 0 /\ e[j] = 0  BY <1>3, <2>1, <2>2, <3>1
    <3>3. 0 * radix + 0 = 0  OBVIOUS
    <3> QED  BY <3>2, <3>3
  <2>3. CASE ~(j <= l - n)
    <3> DEFINE m == j - (l - n)
    <3>1. m \in 1 .. n /\ m - 1 = (j - 1) - (l - n)  BY <2>3
    <3>2. g[j] = f[m] /\ e[j] = d[m]  BY <1>3, <2>1, <2>3
    <3>3. f[m] = f[m - 1] * radix + d[m]  BY <1>2, <3>1
    <3>4. g[j - 1] = f[m - 1]
      <4>1. CASE j - 1 <= l - n
        <5>1. m - 1 = 0  BY <2>3, <3>1, <4>1
        <5> QED  BY <1>2, <1>3, <2>1, <4>1, <5>1
      <4>2. CASE ~(j - 1 <= l - n)  BY <1>3, <2>1, <3>1, <4>2
      <4> QED  BY <4>1, <4>2
    <3> QED  BY <3>2, <3>3, <3>4
  <2> QED  BY <2>2, <2>3
<1>6. g[0] = 0
  <2>1. 0 \in 0 .. l /\ 0 <= l - n  OBVIOUS
  <2> QED  BY <1>3, <2>1
<1>7. Prefixes(l, e, radix, g)  BY <1>4, <1>5, <1>6 DEF Prefixes
<1>8. Exp!digitsValue(e, radix) = g[l]  BY <1>7, ValueOfPrefixes
<1>9. g[l] = f[n]
  <2>1. l \in 0 .. l /\ l - (l - n) = n  OBVIOUS
  <2>2. CASE l <= l - n
    <3>1. n = 0  BY <2>2
    <3> QED  BY <1>2, <1>3, <2>1, <2>2, <3>1
  <2>3. CASE ~(l <= l - n)  BY <1>3, <2>1, <2>3
  <2> QED  BY <2>2, <2>3
<1> QED  BY <1>1, <1>8, <1>9

\* Larger exponents, larger powers.
LEMMA PowerGrows ==
  ASSUME NEW m \in Nat, NEW n \in Nat, m <= n
  PROVE  Exp!PowerOfTwo[m] <= Exp!PowerOfTwo[n]
<1> DEFINE pow == Exp!PowerOfTwo
<1>1. n - m \in Nat /\ m + (n - m) = n  OBVIOUS
<1>2. pow[n] = pow[m] * pow[n - m]  BY <1>1, PowerSum
<1>3. pow[m] \in Nat /\ pow[n - m] \in Nat /\ pow[n - m] >= 1  BY <1>1, PowerLaws
<1> HIDE DEF pow
<1>4. pow[m] * pow[n - m] >= pow[m]  BY <1>3
<1>5. pow[m] <= pow[n]  BY <1>2, <1>3, <1>4
<1> QED  BY <1>5 DEF pow

\* Shifting every digit by one bit, with the bit that the digit before loses,
\* halves the number.
LEMMA Halved ==
  ASSUME NEW n \in Nat, NEW half \in Nat, half > 0,
         NEW d \in [1 .. n -> 0 .. (2 * half - 1)], NEW e,
         e = [j \in 1 .. n |-> (d[j] \div 2) + (IF j > 1 THEN (d[j - 1] % 2) * half ELSE 0)]
  PROVE  /\ e \in [1 .. n -> 0 .. (2 * half - 1)]
         /\ Exp!digitsValue(e, 2 * half) = Exp!digitsValue(d, 2 * half) \div 2
<1>1. \A j \in 1 .. n : d[j] \in Nat /\ d[j] <= 2 * half - 1  OBVIOUS
<1>2. \A j \in 1 .. n : e[j] = (d[j] \div 2) + (IF j > 1 THEN (d[j - 1] % 2) * half ELSE 0)
  OBVIOUS
<1>3. ASSUME NEW j \in 1 .. n PROVE e[j] \in 0 .. (2 * half - 1)
  <2>1. d[j] \div 2 \in 0 .. (half - 1)  BY <1>1
  <2>2. CASE j > 1
    <3>1. j - 1 \in 1 .. n  BY <2>2
    <3>2. d[j - 1] % 2 \in {0, 1}  BY <1>1, <3>1
    <3>3. (d[j - 1] % 2) * half \in {0, half}
      <4>1. CASE d[j - 1] % 2 = 0  BY <4>1
      <4>2. CASE d[j - 1] % 2 = 1  BY <4>2
      <4> QED  BY <3>2, <4>1, <4>2
    <3>4. e[j] = (d[j] \div 2) + (d[j - 1] % 2) * half  BY <1>2, <2>2
    <3>5. \A u \in 0 .. (half - 1), v \in {0, half} : u + v \in 0 .. (2 * half - 1)  OBVIOUS
    <3> QED  BY <2>1, <3>3, <3>4, <3>5
  <2>3. CASE ~(j > 1)
    <3>1. e[j] = (d[j] \div 2) + 0  BY <1>2, <2>3
    <3>2. \A u \in 0 .. (half - 1) : u + 0 \in 0 .. (2 * half - 1)  OBVIOUS
    <3> QED  BY <2>1, <3>1, <3>2
  <2> QED  BY <2>2, <2>3
<1>4. e \in [1 .. n -> 0 .. (2 * half - 1)]  BY <1>3
<1>5. d \in [1 .. n -> Nat] /\ e \in [1 .. n -> Nat] /\ 2 * half \in Nat  BY <1>1, <1>3
<1>6. PICK f : Prefixes(n, d, 2 * half, f) /\ Exp!digitsValue(d, 2 * half) = f[n]
  BY <1>5, DigitsValue
<1>7. /\ f \in [0 .. n -> Nat] /\ f[0] = 0
      /\ \A j \in 1 .. n : f[j] = f[j - 1] * (2 * half) + d[j]
  BY <1>6 DEF Prefixes
<1> DEFINE g == [j \in 0 .. n |-> f[j] \div 2]
<1>8. \A j \in 0 .. n : f[j] \in Nat /\ g[j] = f[j] \div 2  BY <1>7
<1>9. g \in [0 .. n -> Nat]
  <2>1. \A j \in 0 .. n : f[j] \div 2 \in Nat  BY <1>8
  <2> QED  BY <2>1
<1> HIDE DEF g
<1>10. ASSUME NEW j \in 1 .. n PROVE g[j] = g[j - 1] * (2 * half) + e[j]
  <2>1. j \in 0 .. n /\ j - 1 \in 0 .. n  OBVIOUS
  <2> DEFINE a == f[j - 1]
  <2>2. a \in Nat /\ f[j] = a * (2 * half) + d[j] /\ d[j] \in Nat  BY <1>1, <1>7, <1>8, <2>1
  <2>3. (a % 2) * half = IF j > 1 THEN (d[j - 1] % 2) * half ELSE 0
    <3>1. CASE j > 1
      <4>1. j - 1 \in 1 .. n /\ (j - 1) - 1 \in 0 .. n  BY <3>1
      <4>2. a = f[(j - 1) - 1] * (2 * half) + d[j - 1]  BY <1>7, <4>1
      <4>3. f[(j - 1) - 1] * half \in Nat /\ d[j - 1] \in Nat  BY <1>1, <1>8, <4>1
      <4>4. f[(j - 1) - 1] * (2 * half) = 2 * (f[(j - 1) - 1] * half)  BY <1>8, <4>1
      <4>5. \A c, h \in Nat : (2 * c + h) % 2 = h % 2  OBVIOUS
      <4>6. (2 * (f[(j - 1) - 1] * half) + d[j - 1]) % 2 = d[j - 1] % 2  BY <4>3, <4>5
      <4>7. a % 2 = d[j - 1] % 2  BY <4>2, <4>4, <4>6
      <4> QED  BY <3>1, <4>7
    <3>2. CASE ~(j > 1)
      <4>1. j - 1 = 0  BY <3>2
      <4>2. a = 0  BY <1>7, <4>1
      <4>3. 0 % 2 = 0 /\ 0 * half = 0  OBVIOUS
      <4> QED  BY <3>2, <4>2, <4>3
    <3> QED  BY <3>1, <3>2
  <2> HIDE DEF a
  <2>4. a = 2 * (a \div 2) + (a % 2) /\ a \div 2 \in Nat /\ a % 2 \in Nat  BY <2>2
  <2>5. a * (2 * half) = 2 * (a * half)  BY <2>2
  <2>6. a * half \in Nat  BY <2>2
  <2>7. \A c, h \in Nat : (2 * c + h) \div 2 = c + (h \div 2)  OBVIOUS
  <2>8. f[j] \div 2 = a * half + (d[j] \div 2)  BY <2>2, <2>5, <2>6, <2>7
  <2>9. a * half = (a \div 2) * (2 * half) + (a % 2) * half
    <3>1. \A u, v \in Nat : (2 * u + v) * half = u * (2 * half) + v * half  OBVIOUS
    <3>2. a * half = (2 * (a \div 2) + (a % 2)) * half  BY <2>4
    <3> QED  BY <2>4, <3>1, <3>2
  <2>10. g[j] = f[j] \div 2 /\ g[j - 1] = a \div 2  BY <1>8, <2>1 DEF a
  <2>11. e[j] = (d[j] \div 2) + (a % 2) * half  BY <1>2, <2>3
  <2>12. (a \div 2) * (2 * half) \in Nat /\ (a % 2) * half \in Nat /\ d[j] \div 2 \in Nat
    BY <2>2, <2>4
  <2> HIDE <2>4
  <2> QED  BY <2>8, <2>9, <2>10, <2>11, <2>12
<1>11. g[0] = 0
  <2>1. 0 \in 0 .. n /\ 0 \div 2 = 0  OBVIOUS
  <2> QED  BY <1>7, <1>8, <2>1
<1>12. Prefixes(n, e, 2 * half, g)  BY <1>9, <1>10, <1>11 DEF Prefixes
<1>13. Exp!digitsValue(e, 2 * half) = g[n]  BY <1>5, <1>12, ValueOfPrefixes
<1>14. g[n] = f[n] \div 2
  <2>1. n \in 0 .. n  OBVIOUS
  <2> QED  BY <1>8, <2>1
<1> QED  BY <1>4, <1>6, <1>13, <1>14

(* The n digits d of w bits, and the numbers of the most significant ones. *)
Digits(n, w, d, f) == d \in [1 .. n -> Nat] /\ Prefixes(n, d, Exp!PowerOfTwo[w], f)

(* e is the digits of d after position a up to position c.                 *)
IsSlice(e, d, a, c) == e = [j \in 1 .. (c - a) |-> d[a + j]]

\* The value of the digits from one position to another.
LEMMA Segment ==
  ASSUME NEW n \in Nat, NEW w \in Nat, NEW d, NEW f, Digits(n, w, d, f),
         NEW a \in 0 .. n, NEW c \in 0 .. n, a <= c, NEW e, IsSlice(e, d, a, c)
  PROVE  f[c] = f[a] * Exp!PowerOfTwo[w * (c - a)] + Exp!digitsValue(e, Exp!PowerOfTwo[w])
<1> DEFINE pow == Exp!PowerOfTwo
<1>10. d \in [1 .. n -> Nat] /\ Prefixes(n, d, Exp!PowerOfTwo[w], f)  BY DEF Digits
<1>0. /\ pow[0] = 1 /\ \A m \in Nat : pow[m] \in Nat
      /\ \A l, m \in Nat : pow[l + m] = pow[l] * pow[m]
  BY PowerLaws, PowerSum
<1>1. c - a \in Nat /\ \A j \in 1 .. (c - a) : a + j \in 1 .. n  OBVIOUS
<1>2. e \in [1 .. (c - a) -> Nat] /\ \A j \in 1 .. (c - a) : e[j] = d[a + j]
  <2>1. \A j \in 1 .. (c - a) : d[a + j] \in Nat  BY <1>1, <1>10
  <2> QED  BY <1>10, <2>1 DEF IsSlice
<1>3. PICK g : Prefixes(c - a, e, pow[w], g) /\ Exp!digitsValue(e, pow[w]) = g[c - a]
  BY <1>0, <1>1, <1>2, DigitsValue
<1> HIDE DEF pow
<1>4. /\ g \in [0 .. (c - a) -> Nat] /\ g[0] = 0
      /\ \A j \in 1 .. (c - a) : g[j] = g[j - 1] * pow[w] + e[j]
      /\ f \in [0 .. n -> Nat]
      /\ \A j \in 1 .. n : f[j] = f[j - 1] * pow[w] + d[j]
  BY <1>3, <1>10 DEF Prefixes, pow
<1> DEFINE S == {m \in Nat : m <= c - a => f[a + m] = f[a] * pow[w * m] + g[m]}
<1>5. 0 \in S
  <2>1. w * 0 = 0 /\ f[a] \in Nat /\ a + 0 = a  BY <1>4
  <2>2. f[a] * 1 + 0 = f[a]  BY <2>1
  <2> QED  BY <1>0, <1>4, <2>1, <2>2
<1>6. ASSUME NEW m \in S PROVE m + 1 \in S
  <2>0. m \in Nat /\ m + 1 \in Nat /\ (m + 1) - 1 = m  OBVIOUS
  <2>1. CASE m + 1 <= c - a
    <3>1. /\ m + 1 \in 1 .. (c - a) /\ m \in 0 .. (c - a)
          /\ a + (m + 1) \in 1 .. n /\ (a + (m + 1)) - 1 = a + m
      BY <1>1, <2>0, <2>1
    <3>2. f[a + m] = f[a] * pow[w * m] + g[m]  BY <3>1
    <3>3. f[a + (m + 1)] = f[a + m] * pow[w] + d[a + (m + 1)]  BY <1>4, <3>1
    <3>4. g[m + 1] = g[m] * pow[w] + d[a + (m + 1)]  BY <1>2, <1>4, <2>0, <3>1
    <3>5. w * (m + 1) = w * m + w /\ w * m \in Nat  BY <2>0
    <3>6. pow[w * (m + 1)] = pow[w * m] * pow[w]  BY <1>0, <3>5
    <3>7. /\ f[a] \in Nat /\ g[m] \in Nat /\ pow[w * m] \in Nat /\ pow[w] \in Nat
          /\ d[a + (m + 1)] \in Nat
      BY <1>0, <1>4, <1>10, <3>1, <3>5
    <3>8. \A t, u, v, z, h \in Nat : (t * u + v) * z + h = t * (u * z) + (v * z + h)
      <4> SUFFICES ASSUME NEW t \in Nat, NEW u \in Nat, NEW v \in Nat, NEW z \in Nat, NEW h \in Nat
                   PROVE  (t * u + v) * z + h = t * (u * z) + (v * z + h)
        OBVIOUS
      <4>1. (t * u + v) * z = (t * u) * z + v * z  OBVIOUS
      <4>2. (t * u) * z = t * (u * z)  OBVIOUS
      <4>3. t * (u * z) \in Nat /\ v * z \in Nat  OBVIOUS
      <4> QED  BY <4>1, <4>2, <4>3
    <3>9. (f[a] * pow[w * m] + g[m]) * pow[w] + d[a + (m + 1)]
            = f[a] * (pow[w * m] * pow[w]) + (g[m] * pow[w] + d[a + (m + 1)])
      <4> DEFINE t == f[a]  u == pow[w * m]  v == g[m]  z == pow[w]  h == d[a + (m + 1)]
      <4>1. t \in Nat /\ u \in Nat /\ v \in Nat /\ z \in Nat /\ h \in Nat  BY <3>7
      <4> HIDE DEF t, u, v, z, h
      <4>2. (t * u + v) * z + h = t * (u * z) + (v * z + h)  BY <3>8, <4>1
      <4> QED  BY <4>2 DEF t, u, v, z, h
    <3> QED  BY <2>0, <3>2, <3>3, <3>4, <3>6, <3>9
  <2> QED  BY <2>0, <2>1
<1> HIDE DEF S
<1>7. Nat \subseteq S  BY <1>5, <1>6, SetInduction
<1>8. a + (c - a) = c /\ c - a <= c - a  OBVIOUS
<1>9. f[a + (c - a)] = f[a] * pow[w * (c - a)] + g[c - a]  BY <1>1, <1>7, <1>8 DEF S
<1> QED  BY <1>3, <1>8, <1>9 DEF pow

\* The sizes of bytes and limbs.
LEMMA Sizes ==
  /\ BYTE_SIZE_IN_BITS \in Nat \ {0} /\ LIMB_SIZE_IN_BYTES \in Nat \ {0}
  /\ Exp!LIMB_SIZE_IN_BITS \in Nat \ {0}
  /\ Exp!LIMB_SIZE_IN_BITS = BYTE_SIZE_IN_BITS * LIMB_SIZE_IN_BYTES
  /\ Exp!LimbBase \in Nat /\ Exp!LimbBase >= 2 /\ Exp!ByteBase \in Nat /\ Exp!ByteBase >= 2
  /\ Exp!LimbBase = 2 * Exp!PowerOfTwo[Exp!LIMB_SIZE_IN_BITS - 1]
  /\ Exp!LimbBase % 2 = 0 /\ Exp!LimbBase \div 2 = Exp!PowerOfTwo[Exp!LIMB_SIZE_IN_BITS - 1]
  /\ Exp!Limb = 0 .. (Exp!LimbBase - 1) /\ Exp!Byte = 0 .. (Exp!ByteBase - 1)
<1>1. BYTE_SIZE_IN_BITS \in Nat \ {0} /\ LIMB_SIZE_IN_BYTES \in Nat \ {0}
  BY ModExpAssumption DEF Exp!SizesArePositive
<1> DEFINE w == BYTE_SIZE_IN_BITS * LIMB_SIZE_IN_BYTES
<1>2. w \in Nat \ {0}
  <2>1. \A a, c \in Nat \ {0} : a * c \in Nat \ {0}  OBVIOUS
  <2> QED  BY <1>1, <2>1
<1>3. Exp!LIMB_SIZE_IN_BITS = w  BY DEF Exp!LIMB_SIZE_IN_BITS
<1> HIDE DEF w
<1>4. ASSUME NEW n \in Nat \ {0}
      PROVE  /\ n - 1 \in Nat /\ Exp!PowerOfTwo[n] = 2 * Exp!PowerOfTwo[n - 1]
             /\ Exp!PowerOfTwo[n] \in Nat /\ Exp!PowerOfTwo[n] >= 2
             /\ Exp!PowerOfTwo[n] % 2 = 0 /\ Exp!PowerOfTwo[n] \div 2 = Exp!PowerOfTwo[n - 1]
  <2>1. n - 1 \in Nat /\ (n - 1) + 1 = n  OBVIOUS
  <2>2. Exp!PowerOfTwo[(n - 1) + 1] = 2 * Exp!PowerOfTwo[n - 1]  BY <2>1, PowerLaws
  <2>3. Exp!PowerOfTwo[n - 1] \in Nat /\ Exp!PowerOfTwo[n - 1] >= 1  BY <2>1, PowerLaws
  <2>4. \A v \in Nat : v >= 1 => 2 * v \in Nat /\ 2 * v >= 2 /\ (2 * v) % 2 = 0 /\ (2 * v) \div 2 = v
    OBVIOUS
  <2> QED  BY <2>1, <2>2, <2>3, <2>4
<1>5. Exp!LimbBase = Exp!PowerOfTwo[w] /\ Exp!ByteBase = Exp!PowerOfTwo[BYTE_SIZE_IN_BITS]
  BY <1>3 DEF Exp!LimbBase, Exp!ByteBase
<1> QED  BY <1>1, <1>2, <1>3, <1>4, <1>5 DEF w, Exp!Limb, Exp!Byte

\* A shift by one bit halves the number and keeps a leading zero.
LEMMA ShiftedRight ==
  ASSUME NEW n \in Nat, NEW limbs \in [1 .. n -> Exp!Limb]
  PROVE  /\ Exp!bigUIntOneShiftRight(limbs) \in [1 .. n -> Exp!Limb]
         /\ Exp!Value(Exp!bigUIntOneShiftRight(limbs)) = Exp!Value(limbs) \div 2
         /\ n > 0 /\ limbs[1] = 0 => Exp!bigUIntOneShiftRight(limbs)[1] = 0
<1> DEFINE half == Exp!PowerOfTwo[Exp!LIMB_SIZE_IN_BITS - 1]
           e == [j \in 1 .. n |-> (limbs[j] \div 2) + (IF j > 1 THEN (limbs[j - 1] % 2) * half ELSE 0)]
<1>0. e = [j \in 1 .. n |-> (limbs[j] \div 2) + (IF j > 1 THEN (limbs[j - 1] % 2) * half ELSE 0)]
  OBVIOUS
<1>1. half \in Nat /\ half > 0 /\ Exp!LimbBase = 2 * half /\ Exp!LimbBase \div 2 = half
  <2>1. Exp!LIMB_SIZE_IN_BITS - 1 \in Nat  BY Sizes
  <2> QED  BY <2>1, Sizes, PowerLaws
<1>2. Len(limbs) = n  OBVIOUS
<1>3. Exp!bigUIntOneShiftRight(limbs) = e
  BY <1>1, <1>2 DEF Exp!bigUIntOneShiftRight
<1> HIDE DEF half
<1>4. limbs \in [1 .. n -> 0 .. (2 * half - 1)]  BY <1>1, Sizes
<1>5. /\ e \in [1 .. n -> 0 .. (2 * half - 1)]
      /\ Exp!digitsValue(e, 2 * half) = Exp!digitsValue(limbs, 2 * half) \div 2
  <2>1. \A d \in [1 .. n -> 0 .. (2 * half - 1)] : \A f :
          f = [j \in 1 .. n |-> (d[j] \div 2) + (IF j > 1 THEN (d[j - 1] % 2) * half ELSE 0)]
          => /\ f \in [1 .. n -> 0 .. (2 * half - 1)]
             /\ Exp!digitsValue(f, 2 * half) = Exp!digitsValue(d, 2 * half) \div 2
    BY <1>1, Halved
  <2> HIDE DEF e
  <2> QED  BY <1>0, <1>4, <2>1
<1>6. n > 0 /\ limbs[1] = 0 => e[1] = 0
  <2>1. n > 0 => 1 \in 1 .. n /\ ~(1 > 1)  OBVIOUS
  <2>2. 0 \div 2 = 0 /\ 0 + 0 = 0  OBVIOUS
  <2> QED  BY <2>1, <2>2
<1> HIDE DEF e
<1> QED  BY <1>1, <1>3, <1>5, <1>6, Sizes DEF Exp!Value

\* The bits of a word.
LEMMA BitsOfWord ==
  ASSUME NEW number \in Exp!Limb
  PROVE  /\ Exp!UIntBitSize(number) \in 0 .. Exp!LIMB_SIZE_IN_BITS
         /\ number < Exp!PowerOfTwo[Exp!UIntBitSize(number)]
         /\ Exp!UIntBitSize(number) > 0 => number >= Exp!PowerOfTwo[Exp!UIntBitSize(number) - 1]
<1> DEFINE w == Exp!LIMB_SIZE_IN_BITS
           pow == Exp!PowerOfTwo
           S == {m \in Nat : m <= w /\ number < pow[w - m] /\ (m < w => number < pow[w - m - 1])}
           Is(b) == number < pow[b] /\ (b > 0 => number >= pow[b - 1])
<1>1. w \in Nat /\ number \in Nat /\ number < pow[w]
  BY Sizes DEF Exp!Limb, Exp!LimbBase
<1>2. \E b \in 0 .. w : Is(b)
  <2> DEFINE T == {m \in Nat : m <= w => number < pow[w - m]}
  <2>1. SUFFICES ASSUME ~ \E b \in 0 .. w : Is(b) PROVE FALSE
    OBVIOUS
  <2> HIDE DEF pow, w
  <2>2. 0 \in T
    <3>1. w - 0 = w  BY <1>1
    <3> QED  BY <1>1, <3>1
  <2>3. ASSUME NEW m \in T PROVE m + 1 \in T
    <3>1. CASE m + 1 <= w
      <4>1. m <= w /\ w - m \in 0 .. w /\ w - m > 0 /\ w - (m + 1) = (w - m) - 1  BY <1>1, <3>1
      <4>2. number < pow[w - m]  BY <4>1
      <4>3. ~Is(w - m)  BY <2>1, <4>1
      <4>4. ~(number >= pow[(w - m) - 1])  BY <4>1, <4>2, <4>3
      <4>5. pow[(w - m) - 1] \in Nat
        <5>1. (w - m) - 1 \in Nat  BY <4>1
        <5> QED  BY <5>1, PowerLaws DEF pow
      <4> QED  BY <1>1, <4>1, <4>4, <4>5
    <3> QED  BY <3>1
  <2> HIDE DEF T
  <2>4. w \in T  BY <1>1, <2>2, <2>3, SetInduction
  <2>5. number < pow[0]
    <3>1. w - w = 0 /\ w <= w  BY <1>1
    <3> QED  BY <2>4, <3>1 DEF T
  <2>6. Is(0)  BY <2>5
  <2> QED  BY <1>1, <2>1, <2>6
<1>3. Exp!UIntBitSize(number) = CHOOSE b \in 0 .. w : Is(b)  BY DEF Exp!UIntBitSize
<1> HIDE DEF Is
<1>4. Exp!UIntBitSize(number) \in 0 .. w /\ Is(Exp!UIntBitSize(number))  BY <1>2, <1>3
<1> QED  BY <1>4 DEF Is

\* How many limbs are not zero.
LEMMA CountedLimbs ==
  ASSUME NEW n \in Nat, NEW limbs, Len(limbs) = n
  PROVE  Exp!bigIntLimbsWithoutZeros(limbs) \in 0 .. n
<1> DEFINE T == {m \in 1 .. n : limbs[m] # 0}
<1>1. Exp!bigIntLimbsWithoutZeros(limbs) = Cardinality(T)
  BY DEF Exp!bigIntLimbsWithoutZeros, Exp!Cardinality, Cardinality
<1>2. T \subseteq 1 .. n /\ IsFiniteSet(1 .. n) /\ Cardinality(1 .. n) = n
  <2>1. IF 1 > n THEN n = 0 ELSE n - 1 + 1 = n  OBVIOUS
  <2> QED  BY <2>1, FS_Interval
<1> HIDE DEF T
<1>3. Cardinality(T) \in Nat /\ Cardinality(T) <= n  BY <1>2, FS_Subset, FS_CardinalityType
<1> QED  BY <1>1, <1>3

-----------------------------------------------------------------------------
(***************************************************************************)
(* Memory.                                                                 *)
(***************************************************************************)

(* Numbers of n limbs, memories up to an address, and what a write of n    *)
(* limbs at p leaves alone.                                                *)
Words(n) == [1 .. n -> Exp!Limb]
Memories(top) == [0 .. top -> Exp!Limb]
SameOutside(m, s, top, p, n) == \A a \in 0 .. top : a < p \/ a >= p + n => s[a] = m[a]

\* What a store writes and what it leaves alone.
LEMMA Stored ==
  ASSUME NEW top \in Nat, NEW n \in Nat, NEW p \in Nat,
         NEW m \in Memories(top), NEW limbs \in Words(n)
  PROVE  /\ Exp!Store(m, p, limbs) \in Memories(top)
         /\ SameOutside(m, Exp!Store(m, p, limbs), top, p, n)
         /\ p + n <= top + 1 => Exp!Region(Exp!Store(m, p, limbs), p, n) = limbs
<1>0. m \in [0 .. top -> Exp!Limb] /\ limbs \in [1 .. n -> Exp!Limb]  BY DEF Words, Memories
<1>1. Len(limbs) = n /\ DOMAIN m = 0 .. top  BY <1>0
<1> DEFINE value(a) == IF a \in p .. (p + n - 1) THEN limbs[a - p + 1] ELSE m[a]
           s == [a \in 0 .. top |-> value(a)]
<1>2. Exp!Store(m, p, limbs) = s  BY <1>1 DEF Exp!Store
<1>3. \A a \in 0 .. top : a < p \/ a >= p + n => value(a) = m[a] /\ m[a] \in Exp!Limb  BY <1>0
<1>4. \A a \in 0 .. top : a >= p /\ a < p + n
                          => value(a) = limbs[a - p + 1] /\ limbs[a - p + 1] \in Exp!Limb
  <2> SUFFICES ASSUME NEW a \in 0 .. top, a >= p, a < p + n
               PROVE  value(a) = limbs[a - p + 1] /\ limbs[a - p + 1] \in Exp!Limb
    OBVIOUS
  <2>1. a - p + 1 \in 1 .. n /\ a \in p .. (p + n - 1)  OBVIOUS
  <2> QED  BY <1>0, <2>1
<1> HIDE DEF value
<1>5. \A a \in 0 .. top : s[a] = value(a)  OBVIOUS
<1>6. \A a \in 0 .. top : value(a) \in Exp!Limb
  <2>1. \A a \in 0 .. top : (a < p \/ a >= p + n) \/ (a >= p /\ a < p + n)  OBVIOUS
  <2> QED  BY <1>3, <1>4, <2>1
<1>7. s \in [0 .. top -> Exp!Limb]  BY <1>6
<1> HIDE DEF s
<1>8. ASSUME p + n <= top + 1 PROVE Exp!Region(s, p, n) = limbs
  <2>1. \A j \in 1 .. n : p + j - 1 \in 0 .. top /\ p + j - 1 >= p /\ p + j - 1 < p + n
                          /\ (p + j - 1) - p + 1 = j
    BY <1>8
  <2>2. \A j \in 1 .. n : s[p + j - 1] = limbs[j]
    <3> SUFFICES ASSUME NEW j \in 1 .. n PROVE s[p + j - 1] = limbs[j]
      OBVIOUS
    <3>1. s[p + j - 1] = limbs[(p + j - 1) - p + 1]  BY <1>4, <1>5, <2>1
    <3> QED  BY <2>1, <3>1
  <2>3. Exp!Region(s, p, n) = [j \in 1 .. n |-> s[p + j - 1]]  BY DEF Exp!Region
  <2>4. limbs = [j \in 1 .. n |-> limbs[j]]  BY <1>0
  <2> QED  BY <2>2, <2>3, <2>4
<1>9. SameOutside(m, s, top, p, n)  BY <1>3, <1>5 DEF SameOutside
<1> QED  BY <1>2, <1>7, <1>8, <1>9 DEF Memories

\* A region as a sequence.
LEMMA RegionType ==
  ASSUME NEW top \in Nat, NEW n \in Nat, NEW p \in Nat, p + n <= top + 1,
         NEW m \in Memories(top)
  PROVE  /\ Exp!Region(m, p, n) \in Words(n)
         /\ \A j \in 1 .. n : Exp!Region(m, p, n)[j] = m[p + j - 1]
<1>1. \A j \in 1 .. n : p + j - 1 \in 0 .. top  OBVIOUS
<1> QED  BY <1>1 DEF Exp!Region, Words, Memories

\* A region that a write leaves alone.
LEMMA RegionKept ==
  ASSUME NEW top \in Nat, NEW n \in Nat, NEW p \in Nat, p + n <= top + 1, NEW m, NEW s,
         NEW l \in Nat, NEW f \in Nat, SameOutside(m, s, top, f, l),
         p + n <= f \/ f + l <= p
  PROVE  Exp!Region(s, p, n) = Exp!Region(m, p, n)
<1>1. ASSUME NEW j \in 1 .. n PROVE s[p + j - 1] = m[p + j - 1]
  <2>1. p + j - 1 \in 0 .. top /\ (p + j - 1 < f \/ p + j - 1 >= f + l)  OBVIOUS
  <2> QED  BY <2>1 DEF SameOutside
<1> QED  BY <1>1 DEF Exp!Region

\* Clearing and copying.
LEMMA Cleared ==
  ASSUME NEW top \in Nat, NEW n \in Nat, NEW p \in Nat, NEW m \in Memories(top)
  PROVE  /\ Exp!zeroWithLimbSizeAt(m, n, p) \in Memories(top)
         /\ SameOutside(m, Exp!zeroWithLimbSizeAt(m, n, p), top, p, n)
         /\ \A a \in 0 .. top : a >= p /\ a < p + n => Exp!zeroWithLimbSizeAt(m, n, p)[a] = 0
<1> DEFINE zeros == [j \in 1 .. n |-> 0]
           s == Exp!zeroWithLimbSizeAt(m, n, p)
<1>1. zeros \in Words(n)
  <2>1. 0 \in Exp!Limb  BY Sizes
  <2> QED  BY <2>1 DEF Words
<1>2. \A j \in 1 .. n : zeros[j] = 0  OBVIOUS
<1>3. s = Exp!Store(m, p, zeros)  BY DEF Exp!zeroWithLimbSizeAt
<1>4. \A a \in DOMAIN m : a \in p .. (p + Len(zeros) - 1) => s[a] = zeros[a - p + 1]
  BY <1>3 DEF Exp!Store
<1>5. Len(zeros) = n  OBVIOUS
<1>6. DOMAIN m = 0 .. top  BY DEF Memories
<1> HIDE DEF zeros, s
<1>7. s \in Memories(top) /\ SameOutside(m, s, top, p, n)  BY <1>1, <1>3, Stored
<1>8. \A a \in 0 .. top : a >= p /\ a < p + n => s[a] = 0
  <2> SUFFICES ASSUME NEW a \in 0 .. top, a >= p, a < p + n PROVE s[a] = 0
    OBVIOUS
  <2>1. a \in p .. (p + n - 1) /\ a - p + 1 \in 1 .. n  OBVIOUS
  <2> QED  BY <1>2, <1>4, <1>5, <1>6, <2>1
<1> QED  BY <1>7, <1>8 DEF s

LEMMA Copied ==
  ASSUME NEW top \in Nat, NEW n \in Nat, NEW p \in Nat, NEW from \in Nat, from + n <= top + 1,
         NEW m \in Memories(top)
  PROVE  /\ Exp!copyBigUint(m, n, from, p) \in Memories(top)
         /\ SameOutside(m, Exp!copyBigUint(m, n, from, p), top, p, n)
         /\ p + n <= top + 1
            => Exp!Region(Exp!copyBigUint(m, n, from, p), p, n) = Exp!Region(m, from, n)
<1>1. Exp!Region(m, from, n) \in Words(n)  BY RegionType
<1> QED  BY <1>1, Stored DEF Exp!copyBigUint

\* A function on 0 .. n that each step keeps inside V stays inside V.
LEMMA StepsStay ==
  ASSUME NEW V, NEW n \in Nat, NEW g, g[0] \in V,
         \A j \in 1 .. n : g[j - 1] \in V => g[j] \in V
  PROVE  \A j \in 0 .. n : g[j] \in V
<1> DEFINE S == {m \in Nat : m <= n => g[m] \in V}
<1>1. 0 \in S  OBVIOUS
<1>2. ASSUME NEW m \in S PROVE m + 1 \in S
  <2>1. CASE m + 1 <= n
    <3>1. m + 1 \in 1 .. n /\ (m + 1) - 1 = m /\ m <= n  BY <2>1
    <3>2. g[(m + 1) - 1] \in V  BY <3>1
    <3>3. g[m + 1] \in V  BY <3>1, <3>2
    <3> QED  BY <3>3
  <2> QED  BY <2>1
<1> HIDE DEF S
<1>3. Nat \subseteq S  BY <1>1, <1>2, SetInduction
<1>4. \A j \in 0 .. n : j \in S  BY <1>3
<1> QED  BY <1>4 DEF S

(* Steps from 1 to n inside V, and the values they lead through.           *)
Steps(n, V) == [1 .. n -> [V -> V]]
Taken(f, n, V, base, step) ==
  f \in [0 .. n -> V] /\ f[0] = base /\ \A j \in 1 .. n : f[j] = step[j][f[j - 1]]

\* Steps from 1 to n that stay inside V can be taken.
LEMMA StepsTaken ==
  \A V : \A n \in Nat : \A base \in V : \A step \in Steps(n, V) :
    \E f : Taken(f, n, V, base, step)
<1> TAKE V
<1>0. \A base \in V : \A step \in [Nat -> [V -> V]] :
        \E f \in [Nat -> V] : f[0] = base /\ \A m \in Nat : f[m + 1] = step[m][f[m]]
  BY Recursion
<1> SUFFICES ASSUME NEW n \in Nat, NEW base \in V, NEW step \in Steps(n, V)
             PROVE  \E f : Taken(f, n, V, base, step)
  OBVIOUS
<1>8. step \in [1 .. n -> [V -> V]]  BY DEF Steps
<1> DEFINE same == [v \in V |-> v]
           all == [m \in Nat |-> IF m + 1 \in 1 .. n THEN step[m + 1] ELSE same]
<1>1. same \in [V -> V]  OBVIOUS
<1> HIDE DEF same
<1>2. all \in [Nat -> [V -> V]]  BY <1>8, <1>1
<1>3. \A j \in 1 .. n : all[j - 1] = step[j]
  <2>1. \A j \in 1 .. n : j - 1 \in Nat /\ (j - 1) + 1 = j  OBVIOUS
  <2> QED  BY <2>1
<1> HIDE DEF all
<1>4. PICK h \in [Nat -> V] : h[0] = base /\ \A m \in Nat : h[m + 1] = all[m][h[m]]
  BY <1>0, <1>2
<1> DEFINE f == [j \in 0 .. n |-> h[j]]
<1>5. f \in [0 .. n -> V] /\ \A j \in 0 .. n : f[j] = h[j]
  <2>1. \A j \in 0 .. n : j \in Nat  OBVIOUS
  <2> QED  BY <2>1
<1> HIDE DEF f
<1>6. f[0] = base
  <2>1. 0 \in 0 .. n  OBVIOUS
  <2> QED  BY <1>4, <1>5, <2>1
<1>7. ASSUME NEW j \in 1 .. n PROVE f[j] = step[j][f[j - 1]]
  <2>1. j - 1 \in Nat /\ (j - 1) + 1 = j /\ j \in 0 .. n /\ j - 1 \in 0 .. n  OBVIOUS
  <2>2. h[(j - 1) + 1] = all[j - 1][h[j - 1]]  BY <1>4, <2>1
  <2> QED  BY <1>3, <1>5, <2>1, <2>2
<1> QED  BY <1>5, <1>6, <1>7 DEF Taken

\* The bits that come in from the next limb and those of the limb itself.
LEMMA ShiftedLimb ==
  ASSUME NEW a \in Nat, a > 0, NEW c \in Nat, c > 0, NEW u \in Nat, u < a * c, NEW v \in Nat
  PROVE  (u \div c) + ((v * a) % (a * c)) \in 0 .. (a * c - 1)
<1>1. u \div c \in Nat /\ u = c * (u \div c) + (u % c) /\ u % c \in Nat
  <2>1. u \div c \in Int /\ u % c \in 0 .. (c - 1) /\ u = c * (u \div c) + (u % c)  BY DivMod
  <2>2. u \div c >= 0  OBVIOUS
  <2> QED  BY <2>1, <2>2
<1> DEFINE t == u \div c
<1>2. t < a
  <2> HIDE DEF t
  <2>1. SUFFICES ASSUME t >= a PROVE FALSE
    BY <1>1 DEF t
  <2>2. t \in Nat /\ u >= c * t  BY <1>1 DEF t
  <2>3. c * t >= a * c  BY <2>1, <2>2
  <2>4. c * t \in Nat /\ a * c \in Nat  BY <2>2
  <2> QED  BY <2>2, <2>3, <2>4
<1>3. v \div c \in Int /\ v % c \in 0 .. (c - 1) /\ v = c * (v \div c) + (v % c)  BY DivMod
<1> DEFINE z == v % c  o == v \div c
<1>4. (v * a) % (a * c) = a * z
  <2>0. z \in Nat /\ z <= c - 1 /\ o \in Int /\ v = c * o + z  BY <1>3
  <2> HIDE DEF z, o
  <2>1. v * a = (a * c) * o + a * z
    <3>1. (c * o + z) * a = (c * o) * a + z * a  BY <2>0
    <3>2. (c * o) * a = (a * c) * o /\ z * a = a * z  BY <2>0
    <3> QED  BY <2>0, <3>1, <3>2
  <2>2. a * z \in Nat /\ a * z <= a * (c - 1) /\ a * (c - 1) = a * c - a  BY <2>0
  <2>3. a * c \in Nat /\ a * c > 0
    <3>1. \A f, g \in Nat : f > 0 /\ g > 0 => f * g \in Nat /\ f * g > 0  OBVIOUS
    <3> QED  BY <3>1
  <2>4. a * z \in 0 .. (a * c - 1)  BY <2>2, <2>3
  <2> QED  BY <2>0, <2>1, <2>3, <2>4, DivModUnique
<1>5. z \in Nat /\ z <= c - 1  BY <1>3
<1> HIDE DEF t, z, o
<1>6. a * z \in Nat /\ a * z <= a * (c - 1) /\ a * (c - 1) = a * c - a /\ a * c \in Nat  BY <1>5
<1>7. t \in Nat  BY <1>1 DEF t
<1>8. t + a * z \in 0 .. (a * c - 1)  BY <1>2, <1>6, <1>7
<1> QED  BY <1>4, <1>8 DEF t

\* The limb that a shift by part of a limb writes.
LEMMA ShiftedWord ==
  ASSUME NEW shifts \in 1 .. (Exp!LIMB_SIZE_IN_BITS - 1), NEW u \in Exp!Limb, NEW v \in Exp!Limb
  PROVE  /\ (u \div Exp!PowerOfTwo[Exp!LIMB_SIZE_IN_BITS - shifts])
            + ((v * Exp!PowerOfTwo[shifts]) % Exp!LimbBase) \in Exp!Limb
         /\ (v * Exp!PowerOfTwo[shifts]) % Exp!LimbBase \in Exp!Limb
         /\ (0 * Exp!PowerOfTwo[shifts]) % Exp!LimbBase = 0
<1> DEFINE w == Exp!LIMB_SIZE_IN_BITS
           a == Exp!PowerOfTwo[shifts]
           c == Exp!PowerOfTwo[w - shifts]
<1>1. w \in Nat /\ Exp!LimbBase = Exp!PowerOfTwo[w] /\ Exp!Limb = 0 .. (Exp!LimbBase - 1)
      /\ Exp!LimbBase \in Nat /\ Exp!LimbBase >= 2
  BY Sizes DEF Exp!LimbBase
<1> HIDE DEF w
<1>2. shifts \in Nat /\ w - shifts \in Nat /\ shifts + (w - shifts) = w  BY <1>1 DEF w
<1>3. Exp!PowerOfTwo[shifts + (w - shifts)] = Exp!PowerOfTwo[shifts] * Exp!PowerOfTwo[w - shifts]
  BY <1>2, PowerSum
<1>4. a \in Nat /\ a > 0 /\ c \in Nat /\ c > 0  BY <1>2, PowerLaws
<1>5. Exp!LimbBase = a * c  BY <1>1, <1>2, <1>3
<1> HIDE DEF a, c
<1>6. u \in Nat /\ v \in Nat /\ u < a * c  BY <1>1, <1>5
<1>7. (u \div c) + ((v * a) % (a * c)) \in 0 .. (a * c - 1)  BY <1>4, <1>6, ShiftedLimb
<1>8. \A z \in Nat : z % Exp!LimbBase \in 0 .. (Exp!LimbBase - 1)
  <2>1. Exp!LimbBase > 0  BY <1>1
  <2> QED  BY <1>1, <2>1, DivMod
<1>9. v * a \in Nat  BY <1>4, <1>6
<1>10. (0 * a) % Exp!LimbBase = 0
  <2>1. 0 * a = 0  BY <1>4
  <2>2. 0 % Exp!LimbBase = 0  BY <1>1
  <2> QED  BY <2>1, <2>2
<1> QED  BY <1>1, <1>5, <1>7, <1>8, <1>9, <1>10 DEF a, c, w

\* bigUIntShl writes its destination and one limb more, and that one stays zero.
LEMMA ShiftedLeft ==
  ASSUME NEW top \in Nat, NEW n \in Nat, NEW number \in Nat, NEW to \in Nat,
         number + n <= top, to + n <= top, NEW m \in Memories(top),
         NEW times \in Nat, times <= Exp!LIMB_SIZE_IN_BITS * n
  PROVE  /\ Exp!bigUIntShl(m, times, number, n, to) \in Memories(top)
         /\ SameOutside(m, Exp!bigUIntShl(m, times, number, n, to), top, to, n + 1)
         /\ m[to + n] = 0 => Exp!bigUIntShl(m, times, number, n, to)[to + n] = 0
<1> DEFINE w == Exp!LIMB_SIZE_IN_BITS
           effectiveShifts == times % w
           limbsToShiftOut == times \div w
           kept == n - limbsToShiftOut
           b_inv == w - effectiveShifts
           s == Exp!bigUIntShl(m, times, number, n, to)
<1>1. w \in Nat \ {0}  BY Sizes
<1>2. /\ effectiveShifts \in 0 .. (w - 1) /\ limbsToShiftOut \in Nat
      /\ times = w * limbsToShiftOut + effectiveShifts
  <2>0. w \in Nat /\ w > 0 /\ times \in Int /\ times >= 0  BY <1>1
  <2> HIDE DEF w
  <2>1. times \div w \in Int /\ times % w \in 0 .. (w - 1) /\ times = w * (times \div w) + (times % w)
    BY <2>0, DivMod
  <2>2. times \div w >= 0  BY <2>0
  <2> QED  BY <2>1, <2>2
<1>3. times <= w * n  OBVIOUS
<1>4. limbsToShiftOut <= n /\ kept \in Nat /\ kept <= n /\ kept + limbsToShiftOut = n
  <2> HIDE DEF w, effectiveShifts, limbsToShiftOut
  <2>1. ~(limbsToShiftOut >= n + 1)
    <3> SUFFICES ASSUME limbsToShiftOut >= n + 1 PROVE FALSE
      OBVIOUS
    <3>1. w * limbsToShiftOut >= w * (n + 1)  BY <1>1, <1>2
    <3>2. w * (n + 1) = w * n + w /\ w * n \in Nat /\ w * limbsToShiftOut \in Nat  BY <1>1, <1>2
    <3> QED  BY <1>1, <1>2, <1>3, <3>1, <3>2
  <2> QED  BY <1>2, <2>1
<1>5. \A a \in 0 .. top : m[a] \in Exp!Limb  BY DEF Memories
<1>6. CASE effectiveShifts = 0
  <2> DEFINE copy == Exp!copyBigUint(m, kept, number + limbsToShiftOut, to)
  <2>1. s = Exp!zeroWithLimbSizeAt(copy, limbsToShiftOut, to + kept)
    BY <1>6 DEF Exp!bigUIntShl
  <2> HIDE DEF w, effectiveShifts, limbsToShiftOut, kept, s
  <2>2. number + limbsToShiftOut \in Nat /\ number + limbsToShiftOut + kept <= top + 1
        /\ to + kept \in Nat
    BY <1>2, <1>4
  <2>3. copy \in Memories(top) /\ SameOutside(m, copy, top, to, kept)
    BY <1>4, <2>2, Copied
  <2> HIDE DEF copy
  <2>4. s \in Memories(top) /\ SameOutside(copy, s, top, to + kept, limbsToShiftOut)
    BY <1>2, <2>1, <2>2, <2>3, Cleared
  <2>5. \A a \in 0 .. top : a < to \/ a >= to + n => s[a] = m[a]
    <3> SUFFICES ASSUME NEW a \in 0 .. top, a < to \/ a >= to + n PROVE s[a] = m[a]
      OBVIOUS
    <3>1. a < to \/ a >= to + kept  BY <1>4
    <3>2. a < to + kept \/ a >= to + kept + limbsToShiftOut  BY <1>2, <1>4
    <3>3. copy[a] = m[a]  BY <2>3, <3>1 DEF SameOutside
    <3>4. s[a] = copy[a]  BY <2>4, <3>2 DEF SameOutside
    <3> QED  BY <3>3, <3>4
  <2>6. SameOutside(m, s, top, to, n + 1)  BY <2>5 DEF SameOutside
  <2>7. s[to + n] = m[to + n]
    <3>1. to + n \in 0 .. top /\ to + n >= to + n  OBVIOUS
    <3> QED  BY <2>5, <3>1
  <2> QED  BY <2>4, <2>6, <2>7 DEF s
<1>7. CASE effectiveShifts # 0
  <2> DEFINE limb(l, k_) ==
               (l[number + limbsToShiftOut + k_] \div Exp!PowerOfTwo[b_inv])
               + ((l[number + limbsToShiftOut + k_ - 1] * Exp!PowerOfTwo[effectiveShifts]) % Exp!LimbBase)
             shiftLimb(l, k_) == [l EXCEPT ![to + k_ - 1] = limb(l, k_)]
             IsIt(h) == h = [k_ \in 0 .. kept |-> IF k_ = 0 THEN m ELSE shiftLimb(h[k_ - 1], k_)]
             written == CHOOSE h : IsIt(h)
             shifted == written[kept]
             lastLimb == (shifted[to + kept] * Exp!PowerOfTwo[effectiveShifts]) % Exp!LimbBase
             ended == [shifted EXCEPT ![to + kept] = lastLimb]
  <2>1. s = Exp!zeroWithLimbSizeAt(ended, limbsToShiftOut, to + kept + 1)
    BY <1>7 DEF Exp!bigUIntShl
  <2> DEFINE V == {l \in Memories(top) : \A a \in 0 .. top : a < to \/ a >= to + kept => l[a] = m[a]}
  <2> HIDE DEF s, w, effectiveShifts, limbsToShiftOut, kept
  <2>2. ASSUME NEW l \in V, NEW j \in 1 .. kept PROVE shiftLimb(l, j) \in V
    <3>1. to + j - 1 \in 0 .. top /\ to + j - 1 >= to /\ to + j - 1 < to + kept  BY <1>4
    <3>2. /\ number + limbsToShiftOut + j \in 0 .. top
          /\ number + limbsToShiftOut + j - 1 \in 0 .. top
      BY <1>2, <1>4
    <3>3. l \in [0 .. top -> Exp!Limb]  BY DEF Memories
    <3>4. /\ l[number + limbsToShiftOut + j] \in Exp!Limb
          /\ l[number + limbsToShiftOut + j - 1] \in Exp!Limb
      BY <3>2, <3>3
    <3>5. effectiveShifts \in 1 .. (w - 1)  BY <1>1, <1>2, <1>7
    <3>6. limb(l, j) \in Exp!Limb  BY <3>4, <3>5, ShiftedWord DEF w
    <3> HIDE DEF limb
    <3>7. shiftLimb(l, j) \in [0 .. top -> Exp!Limb]  BY <3>1, <3>3, <3>6
    <3>8. \A a \in 0 .. top : a < to \/ a >= to + kept => shiftLimb(l, j)[a] = l[a]
      <4>1. \A a \in 0 .. top : a < to \/ a >= to + kept => a # to + j - 1  BY <1>4, <3>1
      <4>2. \A a \in 0 .. top : a # to + j - 1 => shiftLimb(l, j)[a] = l[a]  BY <3>3
      <4> QED  BY <4>1, <4>2
    <3> HIDE DEF shiftLimb
    <3> QED  BY <3>7, <3>8 DEF Memories
  <2>3. m \in V  OBVIOUS
  <2> HIDE DEF V, limb, shiftLimb
  <2>4. \E h : IsIt(h)
    <3> DEFINE step == [j \in 1 .. kept |-> [l \in V |-> shiftLimb(l, j)]]
    <3>1. step \in [1 .. kept -> [V -> V]]  BY <2>2
    <3>2. \A j \in 1 .. kept, l \in V : step[j][l] = shiftLimb(l, j)  OBVIOUS
    <3> HIDE DEF step
    <3>3. PICK f : Taken(f, kept, V, m, step)
      BY <1>4, <2>3, <3>1, StepsTaken DEF Steps
    <3>7. f \in [0 .. kept -> V] /\ f[0] = m /\ \A j \in 1 .. kept : f[j] = step[j][f[j - 1]]
      BY <3>3 DEF Taken
    <3>4. ASSUME NEW j \in 0 .. kept PROVE f[j] = IF j = 0 THEN m ELSE shiftLimb(f[j - 1], j)
      <4>1. CASE j = 0  BY <3>7, <4>1
      <4>2. CASE j # 0
        <5>1. j \in 1 .. kept /\ j - 1 \in 0 .. kept  BY <1>4, <4>2
        <5>2. f[j - 1] \in V  BY <3>7, <5>1
        <5> QED  BY <3>2, <3>7, <4>2, <5>1, <5>2
      <4> QED  BY <4>1, <4>2
    <3>5. f = [j \in 0 .. kept |-> f[j]]  BY <3>7
    <3>6. IsIt(f)  BY <3>4, <3>5
    <3> QED  BY <3>6
  <2>5. IsIt(written)
    <3> HIDE DEF IsIt
    <3> QED  BY <2>4
  <2> HIDE DEF written
  <2>6. \A j \in 0 .. kept : written[j] = IF j = 0 THEN m ELSE shiftLimb(written[j - 1], j)
    <3> DEFINE value(j) == IF j = 0 THEN m ELSE shiftLimb(written[j - 1], j)
    <3>1. written = [j \in 0 .. kept |-> value(j)]  BY <2>5
    <3> HIDE DEF value
    <3>2. \A j \in 0 .. kept : written[j] = value(j)  BY <3>1
    <3> QED  BY <3>2 DEF value
  <2>7. shifted \in V
    <3>1. written[0] \in V
      <4>1. 0 \in 0 .. kept  BY <1>4
      <4>2. written[0] = m  BY <2>6, <4>1
      <4> QED  BY <2>3, <4>2
    <3>2. \A j \in 1 .. kept : written[j - 1] \in V => written[j] \in V
      <4>1. \A j \in 1 .. kept : j \in 0 .. kept /\ j # 0  BY <1>4
      <4> QED  BY <2>2, <2>6, <4>1
    <3>3. \A j \in 0 .. kept : written[j] \in V  BY <1>4, <3>1, <3>2, StepsStay
    <3>4. kept \in 0 .. kept  BY <1>4
    <3> QED  BY <3>3, <3>4
  <2> HIDE DEF shifted
  <2>8. /\ shifted \in [0 .. top -> Exp!Limb]
        /\ \A a \in 0 .. top : a < to \/ a >= to + kept => shifted[a] = m[a]
    BY <2>7 DEF V, Memories
  <2>9. to + kept \in 0 .. top /\ to + kept >= to + kept  BY <1>4
  <2>10. shifted[to + kept] \in Exp!Limb /\ shifted[to + kept] = m[to + kept]  BY <2>8, <2>9
  <2>11. effectiveShifts \in 1 .. (w - 1)  BY <1>1, <1>2, <1>7
  <2>12. lastLimb \in Exp!Limb /\ (m[to + kept] = 0 => lastLimb = 0)
    <3>1. \A v \in Exp!Limb : /\ (v * Exp!PowerOfTwo[effectiveShifts]) % Exp!LimbBase \in Exp!Limb
                              /\ (0 * Exp!PowerOfTwo[effectiveShifts]) % Exp!LimbBase = 0
      BY <2>11, ShiftedWord DEF w
    <3> QED  BY <2>10, <3>1
  <2> HIDE DEF lastLimb
  <2>13. ended \in [0 .. top -> Exp!Limb]  BY <2>8, <2>12
  <2>14. \A a \in 0 .. top : ended[a] = IF a = to + kept THEN lastLimb ELSE shifted[a]  BY <2>8
  <2> HIDE DEF ended
  <2>15. to + kept + 1 \in Nat /\ limbsToShiftOut \in Nat  BY <1>2, <1>4
  <2>16. ended \in Memories(top)  BY <2>13 DEF Memories
  <2>17. /\ s \in Memories(top)
         /\ SameOutside(ended, s, top, to + kept + 1, limbsToShiftOut)
         /\ \A a \in 0 .. top : a >= to + kept + 1 /\ a < to + kept + 1 + limbsToShiftOut => s[a] = 0
    BY <2>1, <2>15, <2>16, Cleared
  <2>18. SameOutside(m, s, top, to, n + 1)
    <3> SUFFICES ASSUME NEW a \in 0 .. top, a < to \/ a >= to + (n + 1) PROVE s[a] = m[a]
      BY DEF SameOutside
    <3>1. /\ a < to + kept + 1 \/ a >= to + kept + 1 + limbsToShiftOut
          /\ a < to \/ a >= to + kept
          /\ a # to + kept
      BY <1>2, <1>4
    <3>2. s[a] = ended[a]  BY <2>17, <3>1 DEF SameOutside
    <3> QED  BY <2>8, <2>14, <3>1, <3>2
  <2>19. m[to + n] = 0 => s[to + n] = 0
    <3> SUFFICES ASSUME m[to + n] = 0 PROVE s[to + n] = 0
      OBVIOUS
    <3>0. to + n \in 0 .. top  OBVIOUS
    <3>1. CASE limbsToShiftOut = 0
      <4>1. to + n = to + kept /\ to + n < to + kept + 1  BY <1>4, <3>1
      <4>2. s[to + n] = ended[to + n]  BY <2>17, <3>0, <4>1 DEF SameOutside
      <4> QED  BY <2>12, <2>14, <3>0, <4>1, <4>2
    <3>2. CASE limbsToShiftOut # 0
      <4>1. to + n >= to + kept + 1 /\ to + n < to + kept + 1 + limbsToShiftOut  BY <1>2, <1>4, <3>2
      <4> QED  BY <2>17, <3>0, <4>1
    <3> QED  BY <3>1, <3>2
  <2> QED  BY <2>17, <2>18, <2>19 DEF s
<1> QED  BY <1>6, <1>7

\* The differences are words and the borrow is a bit.
LEMMA Subtracted ==
  ASSUME NEW n \in Nat, NEW a \in Words(n), NEW c \in Words(n)
  PROVE  /\ Exp!bigUIntSubWithBorrow(a, c).difference \in Words(n)
         /\ Exp!bigUIntSubWithBorrow(a, c).borrow \in {0, 1}
<1> DEFINE subtracted(j, b) == Exp!overflowingSubWithBorrow(a[j], c[j], b)
           flag(j, b) == subtracted(n - j + 1, b).overflowed
           IsIt(h) == h = [done \in 0 .. n |-> IF done = 0 THEN 0 ELSE flag(done, h[done - 1])]
           borrow == CHOOSE h : IsIt(h)
           difference == [j \in 1 .. n |-> subtracted(j, borrow[n - j]).difference]
<1>0. a \in [1 .. n -> Exp!Limb] /\ c \in [1 .. n -> Exp!Limb]  BY DEF Words
<1>1. Len(a) = n  BY <1>0
<1>2. Exp!bigUIntSubWithBorrow(a, c) = [difference |-> difference, borrow |-> borrow[n]]
  BY <1>1 DEF Exp!bigUIntSubWithBorrow
<1>3. \A j, b : flag(j, b) \in {0, 1}  BY DEF Exp!overflowingSubWithBorrow
<1>4. ASSUME NEW j \in 1 .. n, NEW b \in {0, 1} PROVE subtracted(j, b).difference \in Exp!Limb
  <2>1. a[j] \in Int /\ c[j] + b \in Int  BY <1>0, Sizes
  <2>2. \A z \in Int : z % Exp!LimbBase \in 0 .. (Exp!LimbBase - 1)
    <3>1. Exp!LimbBase \in Nat /\ Exp!LimbBase > 0  BY Sizes
    <3> QED  BY <3>1, DivMod
  <2>3. (c[j] + b) % Exp!LimbBase \in Int  BY <2>1, <2>2
  <2>4. a[j] - ((c[j] + b) % Exp!LimbBase) \in Int  BY <2>1, <2>3
  <2>5. (a[j] - ((c[j] + b) % Exp!LimbBase)) % Exp!LimbBase \in Exp!Limb  BY <2>2, <2>4, Sizes
  <2> QED  BY <2>5 DEF Exp!overflowingSubWithBorrow
<1> HIDE DEF subtracted, flag
<1>5. \E h : IsIt(h)
  <2> DEFINE V == {0, 1}
             step == [j \in 1 .. n |-> [b \in V |-> flag(j, b)]]
  <2>1. step \in Steps(n, V)  BY <1>3 DEF Steps
  <2>2. \A j \in 1 .. n, b \in V : step[j][b] = flag(j, b)  OBVIOUS
  <2>3. 0 \in V  OBVIOUS
  <2> HIDE DEF step, V
  <2>4. PICK f : Taken(f, n, V, 0, step)  BY <2>1, <2>3, StepsTaken
  <2>5. f \in [0 .. n -> V] /\ f[0] = 0 /\ \A j \in 1 .. n : f[j] = step[j][f[j - 1]]
    BY <2>4 DEF Taken
  <2>6. ASSUME NEW j \in 0 .. n PROVE f[j] = IF j = 0 THEN 0 ELSE flag(j, f[j - 1])
    <3>1. CASE j = 0  BY <2>5, <3>1
    <3>2. CASE j # 0
      <4>1. j \in 1 .. n /\ j - 1 \in 0 .. n  BY <3>2
      <4>2. f[j - 1] \in V  BY <2>5, <4>1
      <4> QED  BY <2>2, <2>5, <3>2, <4>1, <4>2
    <3> QED  BY <3>1, <3>2
  <2>7. f = [j \in 0 .. n |-> f[j]]  BY <2>5
  <2>8. IsIt(f)  BY <2>6, <2>7
  <2> QED  BY <2>8
<1>6. IsIt(borrow)
  <2> HIDE DEF IsIt
  <2> QED  BY <1>5
<1> HIDE DEF borrow
<1>7. \A j \in 0 .. n : borrow[j] = IF j = 0 THEN 0 ELSE flag(j, borrow[j - 1])
  <2> DEFINE value(j) == IF j = 0 THEN 0 ELSE flag(j, borrow[j - 1])
  <2>1. borrow = [j \in 0 .. n |-> value(j)]  BY <1>6
  <2> HIDE DEF value
  <2>2. \A j \in 0 .. n : borrow[j] = value(j)  BY <2>1
  <2> QED  BY <2>2 DEF value
<1>8. \A j \in 0 .. n : borrow[j] \in {0, 1}  BY <1>3, <1>7
<1>9. \A j \in 1 .. n : subtracted(j, borrow[n - j]).difference \in Exp!Limb
  <2>1. \A j \in 1 .. n : n - j \in 0 .. n  OBVIOUS
  <2> QED  BY <1>4, <1>8, <2>1
<1>10. difference \in Words(n)  BY <1>9 DEF Words
<1>11. borrow[n] \in {0, 1}
  <2>1. n \in 0 .. n  OBVIOUS
  <2> QED  BY <1>8, <2>1
<1> HIDE DEF difference
<1> QED  BY <1>2, <1>10, <1>11

\* The sum of two words and its carry.
LEMMA AddedWords ==
  ASSUME NEW a \in Exp!Limb, NEW c \in Exp!Limb
  PROVE  /\ Exp!overflowingAdd(a, c).sum \in Exp!Limb
         /\ Exp!overflowingAdd(a, c).overflowed \in {0, 1}
         /\ a + c = Exp!overflowingAdd(a, c).sum + Exp!LimbBase * Exp!overflowingAdd(a, c).overflowed
<1> DEFINE radix == Exp!LimbBase
           s == (a + c) % radix
<1>1. radix \in Nat /\ radix > 0 /\ a \in Nat /\ c \in Nat /\ a < radix /\ c < radix
      /\ Exp!Limb = 0 .. (radix - 1)
  BY Sizes
<1>2. Exp!overflowingAdd(a, c).sum = s /\ Exp!overflowingAdd(a, c).overflowed = IF s < a THEN 1 ELSE 0
  BY DEF Exp!overflowingAdd
<1> HIDE DEF radix
<1>3. CASE a + c < radix
  <2>1. s = a + c
    <3>1. a + c \in 0 .. (radix - 1)  BY <1>1, <1>3
    <3> QED  BY <1>1, <3>1, SmallRemainder
  <2>2. ~(s < a)  BY <1>1, <2>1
  <2>3. s \in Exp!Limb  BY <1>1, <1>3, <2>1
  <2>4. a + c = s + radix * 0  BY <1>1, <2>1
  <2> QED  BY <1>2, <2>2, <2>3, <2>4 DEF radix
<1>4. CASE a + c >= radix
  <2>1. s = a + c - radix
    <3>1. a + c - radix \in 0 .. (radix - 1) /\ radix * 1 + (a + c - radix) = a + c
      BY <1>1, <1>4
    <3>2. (radix * 1 + (a + c - radix)) % radix = a + c - radix  BY <1>1, <3>1, DivModUnique
    <3> QED  BY <3>1, <3>2
  <2>2. s < a /\ s \in Exp!Limb /\ a + c = s + radix * 1  BY <1>1, <1>4, <2>1
  <2> QED  BY <1>2, <2>2 DEF radix
<1> QED  BY <1>1, <1>3, <1>4

(* What the multiplication of a row works on.                              *)
Accumulators(l) == [product : Words(l), carry : Exp!Limb]

\* One limb times one limb, plus a limb and a carry, fits in two limbs.
LEMMA MultipliedLimbs ==
  ASSUME NEW l \in Nat, NEW acc \in Accumulators(l), NEW position \in 1 .. l,
         NEW u \in Exp!Limb, NEW v \in Exp!Limb
  PROVE  /\ Exp!mulLimb(acc, position, u, v) \in Accumulators(l)
         /\ \A j \in 1 .. l : j # position
              => Exp!mulLimb(acc, position, u, v).product[j] = acc.product[j]
         /\ Exp!LimbBase * Exp!mulLimb(acc, position, u, v).carry
            + Exp!mulLimb(acc, position, u, v).product[position]
              = u * v + acc.product[position] + acc.carry
<1> DEFINE radix == Exp!LimbBase
           z == (u * v) % radix
           high == (u * v) \div radix
           low == Exp!overflowingAdd(z, acc.carry)
           word == Exp!overflowingAdd(acc.product[position], low.sum)
           next == Exp!mulLimb(acc, position, u, v)
<1>1. /\ radix \in Nat /\ radix >= 2 /\ Exp!Limb = 0 .. (radix - 1)
      /\ u \in Nat /\ v \in Nat /\ u <= radix - 1 /\ v <= radix - 1
  BY Sizes
<1>2. /\ acc.product \in [1 .. l -> Exp!Limb] /\ acc.carry \in Exp!Limb
      /\ acc.product[position] \in Exp!Limb
  BY DEF Accumulators, Words
<1>3. next = [product |-> [acc.product EXCEPT ![position] = word.sum],
              carry |-> high + low.overflowed + word.overflowed]
  BY DEF Exp!mulLimb, Exp!getHighestHalfOfMultiplication
<1> HIDE DEF radix, next
<1>4. u * v \in Nat /\ u * v <= (radix - 1) * (radix - 1)
      /\ (radix - 1) * (radix - 1) = radix * radix - 2 * radix + 1 /\ radix * radix \in Nat
  <2>0. \A a, b, c \in Nat : a <= c /\ b <= c => a * b <= c * c
    <3> SUFFICES ASSUME NEW a \in Nat, NEW b \in Nat, NEW c \in Nat, a <= c, b <= c
                 PROVE  a * b <= c * c
      OBVIOUS
    <3>1. a * b <= c * b  OBVIOUS
    <3>2. c * b <= c * c  OBVIOUS
    <3>3. a * b \in Nat /\ c * b \in Nat /\ c * c \in Nat  OBVIOUS
    <3> QED  BY <3>1, <3>2, <3>3
  <2>1. radix - 1 \in Nat  BY <1>1
  <2>2. u * v <= (radix - 1) * (radix - 1)  BY <1>1, <2>0, <2>1
  <2>3. u * v \in Nat /\ radix * radix \in Nat  BY <1>1
  <2>4. (radix - 1) * (radix - 1) = radix * radix - 2 * radix + 1  BY <1>1
  <2> QED  BY <2>2, <2>3, <2>4
<1>5. z \in 0 .. (radix - 1) /\ high \in Nat /\ u * v = radix * high + z
  <2> DEFINE t == u * v
  <2>1. t \in Nat  BY <1>4
  <2> HIDE DEF t
  <2>2. t \div radix \in Int /\ t % radix \in 0 .. (radix - 1)
        /\ t = radix * (t \div radix) + (t % radix)
    <3>1. radix > 0 /\ t \in Int  BY <1>1, <2>1
    <3> QED  BY <1>1, <3>1, DivMod
  <2>3. t \div radix >= 0  BY <1>1, <2>1
  <2> QED  BY <2>2, <2>3 DEF t
<1> HIDE DEF z, high
<1>6. /\ low.sum \in Exp!Limb /\ low.overflowed \in {0, 1}
      /\ z + acc.carry = low.sum + radix * low.overflowed
  <2>1. z \in Exp!Limb  BY <1>1, <1>5
  <2> QED  BY <1>2, <2>1, AddedWords DEF radix
<1> HIDE DEF low
<1>7. /\ word.sum \in Exp!Limb /\ word.overflowed \in {0, 1}
      /\ acc.product[position] + low.sum = word.sum + radix * word.overflowed
  BY <1>2, <1>6, AddedWords DEF radix
<1> HIDE DEF word
<1> DEFINE carry == high + low.overflowed + word.overflowed
           p == acc.product[position]
           c == acc.carry
<1>8. p \in Nat /\ p <= radix - 1 /\ c \in Nat /\ c <= radix - 1 /\ word.sum \in Nat
      /\ low.sum \in Nat /\ low.overflowed \in Nat /\ word.overflowed \in Nat /\ carry \in Nat
  <2>1. \A a \in Exp!Limb : a \in Nat /\ a <= radix - 1  BY <1>1
  <2>2. \A a \in {0, 1} : a \in Nat  OBVIOUS
  <2>3. low.overflowed \in Nat /\ word.overflowed \in Nat  BY <1>6, <1>7, <2>2
  <2>4. p \in Nat /\ p <= radix - 1 /\ c \in Nat /\ c <= radix - 1  BY <1>2, <2>1
  <2>5. word.sum \in Nat /\ low.sum \in Nat  BY <1>6, <1>7, <2>1
  <2>6. carry \in Nat  BY <1>5, <2>3
  <2> HIDE DEF carry, p, c
  <2> QED  BY <2>3, <2>4, <2>5, <2>6
<1>9. radix * carry + word.sum = u * v + p + c
  <2> DEFINE lo == low.overflowed  wo == word.overflowed
  <2>1. radix * (high + lo + wo) = radix * high + radix * lo + radix * wo
    <3>1. \A a, b, d \in Nat : radix * (a + b + d) = radix * a + radix * b + radix * d  BY <1>1
    <3> QED  BY <1>5, <1>8, <3>1
  <2>2. z + c = low.sum + radix * lo /\ p + low.sum = word.sum + radix * wo  BY <1>6, <1>7
  <2>3. radix * high \in Nat /\ radix * lo \in Nat /\ radix * wo \in Nat /\ z \in Nat
    BY <1>1, <1>5, <1>8
  <2>4. radix * carry = radix * (high + lo + wo) /\ u * v = radix * high + z  BY <1>5
  <2>5. radix * carry = radix * high + radix * lo + radix * wo  BY <2>1, <2>4
  <2> DEFINE rh == radix * high  rl == radix * lo  rw == radix * wo
  <2>6. /\ rh \in Nat /\ rl \in Nat /\ rw \in Nat /\ z \in Nat
        /\ p \in Nat /\ c \in Nat /\ word.sum \in Nat /\ low.sum \in Nat
        /\ z + c = low.sum + rl /\ p + low.sum = word.sum + rw
    BY <1>8, <2>2, <2>3
  <2> HIDE DEF rh, rl, rw, p, c
  <2>7. (rh + rl + rw) + word.sum = (rh + z) + p + c  BY <2>6
  <2> QED  BY <2>4, <2>5, <2>7 DEF rh, rl, rw
<1> HIDE DEF carry, p, c
<1>10. carry <= radix - 1
  <2>1. SUFFICES ASSUME carry >= radix PROVE FALSE
    BY <1>1, <1>8
  <2>2. radix * carry >= radix * radix  BY <1>1, <1>8, <2>1
  <2>3. radix * carry \in Nat  BY <1>1, <1>8
  <2> QED  BY <1>1, <1>4, <1>8, <1>9, <2>2, <2>3
<1>11. next.carry = carry /\ next.product = [acc.product EXCEPT ![position] = word.sum]
  BY <1>3 DEF carry
<1>12. next.product \in [1 .. l -> Exp!Limb] /\ next.product[position] = word.sum
       /\ \A j \in 1 .. l : j # position => next.product[j] = acc.product[j]
  BY <1>2, <1>7, <1>11
<1>13. next.carry \in Exp!Limb  BY <1>1, <1>8, <1>10, <1>11
<1>14. next \in Accumulators(l)  BY <1>3, <1>12, <1>13 DEF Accumulators, Words
<1>15. Exp!LimbBase * next.carry + next.product[position] = u * v + p + c
  BY <1>9, <1>11, <1>12 DEF radix
<1> QED  BY <1>12, <1>14, <1>15 DEF next, p, c

(* What a row starts with, and what it makes of it: limb o of a times c.   *)
RowSteps(n, a, c, o, before, h) ==
  /\ h[0] = [product |-> before, carry |-> 0]
  /\ \A t \in 0 .. n : h[t] \in Accumulators(2 * n)
  /\ \A t \in 1 .. n : h[t] = Exp!mulLimb(h[t - 1], o + (n - t + 1), a[o], c[n - t + 1])

RowOf(n, a, c, o, before, after) ==
  \E h : RowSteps(n, a, c, o, before, h) /\ after = [h[n].product EXCEPT ![o] = h[n].carry]

\* bigUIntMul starts from zeroes and takes a row for every limb, from the least
\* significant one up; every row stays inside 2 * n limbs.
LEMMA MultipliedByRows ==
  ASSUME NEW n \in Nat, NEW a \in Words(n), NEW c \in Words(n)
  PROVE  \E rows : /\ \A done \in 0 .. n : rows[done] \in Words(2 * n)
                   /\ rows[0] = [j \in 1 .. (2 * n) |-> 0]
                   /\ \A done \in 1 .. n : RowOf(n, a, c, n - done + 1, rows[done - 1], rows[done])
                   /\ Exp!bigUIntMul(a, c) = rows[n]
<1> DEFINE next(acc, o, done) ==
             Exp!mulLimb(acc, o + (n - done + 1), a[o], c[n - done + 1])
           IsRow(h, o, product) ==
             h = [done \in 0 .. n |-> IF done = 0 THEN [product |-> product, carry |-> 0]
                                      ELSE next(h[done - 1], o, done)]
           accs(o, product) == CHOOSE h : IsRow(h, o, product)
           row(o, product) ==
             [accs(o, product)[n].product EXCEPT ![o] = accs(o, product)[n].carry]
           IsIt(h) ==
             h = [done \in 0 .. n |-> IF done = 0 THEN [j \in 1 .. (2 * n) |-> 0]
                                      ELSE row(n - done + 1, h[done - 1])]
           rows == CHOOSE h : IsIt(h)
           V == Accumulators(2 * n)
           W == Words(2 * n)
<1>0. a \in [1 .. n -> Exp!Limb] /\ c \in [1 .. n -> Exp!Limb] /\ 2 * n \in Nat  BY DEF Words
<1>1. Len(a) = n  BY <1>0
<1>2. Exp!bigUIntMul(a, c) = rows[n]
  BY <1>1 DEF Exp!bigUIntMul
<1>3. ASSUME NEW acc \in V, NEW o \in 1 .. n, NEW done \in 1 .. n PROVE next(acc, o, done) \in V
  <2>1. n - done + 1 \in 1 .. n /\ o + (n - done + 1) \in 1 .. (2 * n)  OBVIOUS
  <2>2. a[o] \in Exp!Limb /\ c[n - done + 1] \in Exp!Limb  BY <1>0, <2>1
  <2> QED  BY <1>0, <2>1, <2>2, MultipliedLimbs
<1> HIDE DEF next
<1>4. ASSUME NEW o \in 1 .. n, NEW product \in W PROVE row(o, product) \in W /\ RowOf(n, a, c, o, product, row(o, product))
  <2> DEFINE base == [product |-> product, carry |-> 0]
             step == [done \in 1 .. n |-> [acc \in V |-> next(acc, o, done)]]
             g == accs(o, product)
  <2>1. base \in V
    <3>1. 0 \in Exp!Limb  BY Sizes
    <3> QED  BY <3>1 DEF Accumulators
  <2>2. step \in Steps(n, V)
    <3> HIDE DEF V
    <3> QED  BY <1>3 DEF Steps
  <2>3. \A done \in 1 .. n, acc \in V : step[done][acc] = next(acc, o, done)  OBVIOUS
  <2> HIDE DEF step, V, base
  <2>4. PICK f : Taken(f, n, V, base, step)  BY <2>1, <2>2, StepsTaken
  <2>5. f \in [0 .. n -> V] /\ f[0] = base /\ \A j \in 1 .. n : f[j] = step[j][f[j - 1]]
    BY <2>4 DEF Taken
  <2>6. ASSUME NEW j \in 0 .. n PROVE f[j] = IF j = 0 THEN base ELSE next(f[j - 1], o, j)
    <3>1. CASE j = 0  BY <2>5, <3>1
    <3>2. CASE j # 0
      <4>1. j \in 1 .. n /\ j - 1 \in 0 .. n  BY <3>2
      <4>2. f[j - 1] \in V  BY <2>5, <4>1
      <4> QED  BY <2>3, <2>5, <3>2, <4>1, <4>2
    <3> QED  BY <3>1, <3>2
  <2>7. f = [j \in 0 .. n |-> f[j]]  BY <2>5
  <2>8. IsRow(f, o, product)  BY <2>6, <2>7 DEF base
  <2>9. IsRow(g, o, product)
    <3> HIDE DEF IsRow
    <3> QED  BY <2>8
  <2> HIDE DEF g, accs
  <2>10. \A j \in 0 .. n : g[j] = IF j = 0 THEN base ELSE next(g[j - 1], o, j)
    <3> DEFINE value(j) == IF j = 0 THEN base ELSE next(g[j - 1], o, j)
    <3>1. g = [j \in 0 .. n |-> value(j)]  BY <2>9 DEF base
    <3> HIDE DEF value
    <3>2. \A j \in 0 .. n : g[j] = value(j)  BY <3>1
    <3> QED  BY <3>2 DEF value
  <2>11. \A j \in 0 .. n : g[j] \in V
    <3>1. g[0] \in V
      <4>1. 0 \in 0 .. n  OBVIOUS
      <4> QED  BY <2>1, <2>10, <4>1
    <3>2. \A j \in 1 .. n : g[j - 1] \in V => g[j] \in V
      <4>1. \A j \in 1 .. n : j \in 0 .. n /\ j # 0  OBVIOUS
      <4> QED  BY <1>3, <2>10, <4>1 DEF V
    <3> QED  BY <3>1, <3>2, StepsStay
  <2>12. g[n] \in V
    <3>1. n \in 0 .. n  OBVIOUS
    <3> QED  BY <2>11, <3>1
  <2>13. g[n].product \in [1 .. (2 * n) -> Exp!Limb] /\ g[n].carry \in Exp!Limb
    BY <2>12 DEF V, Accumulators, Words
  <2>14. row(o, product) = [g[n].product EXCEPT ![o] = g[n].carry]  BY DEF g
  <2>15. [g[n].product EXCEPT ![o] = g[n].carry] \in [1 .. (2 * n) -> Exp!Limb]  BY <2>13
  <2>16. RowSteps(n, a, c, o, product, g)
    <3>1. \A j \in 1 .. n : j \in 0 .. n /\ j # 0  OBVIOUS
    <3>2. g[0] = base
      <4>1. 0 \in 0 .. n  OBVIOUS
      <4> QED  BY <2>10, <4>1
    <3>3. \A j \in 1 .. n : g[j] = next(g[j - 1], o, j)  BY <2>10, <3>1
    <3>4. g[0] = [product |-> product, carry |-> 0]  BY <3>2 DEF base
    <3>5. \A j \in 1 .. n : g[j] = Exp!mulLimb(g[j - 1], o + (n - j + 1), a[o], c[n - j + 1])
      BY <3>3 DEF next
    <3>6. \A j \in 0 .. n : g[j] \in Accumulators(2 * n)  BY <2>11 DEF V
    <3> QED  BY <3>4, <3>5, <3>6 DEF RowSteps
  <2> QED  BY <2>14, <2>15, <2>16 DEF Words, RowOf
<1> HIDE DEF row
<1> DEFINE zeros == [j \in 1 .. (2 * n) |-> 0]
<1>5. zeros \in W
  <2>1. 0 \in Exp!Limb  BY Sizes
  <2> QED  BY <2>1 DEF Words
<1>6. \A j \in 1 .. n : n - j + 1 \in 1 .. n  OBVIOUS
<1>7. \E h : IsIt(h)
  <2> DEFINE step == [j \in 1 .. n |-> [product \in W |-> row(n - j + 1, product)]]
  <2> HIDE DEF W
  <2>1. step \in Steps(n, W)  BY <1>4, <1>6 DEF Steps
  <2>2. \A j \in 1 .. n, product \in W : step[j][product] = row(n - j + 1, product)  OBVIOUS
  <2> HIDE DEF step, zeros
  <2>4. PICK f : Taken(f, n, W, zeros, step)  BY <1>5, <2>1, StepsTaken
  <2>5. f \in [0 .. n -> W] /\ f[0] = zeros /\ \A j \in 1 .. n : f[j] = step[j][f[j - 1]]
    BY <2>4 DEF Taken
  <2>6. ASSUME NEW j \in 0 .. n PROVE f[j] = IF j = 0 THEN zeros ELSE row(n - j + 1, f[j - 1])
    <3>1. CASE j = 0  BY <2>5, <3>1
    <3>2. CASE j # 0
      <4>1. j \in 1 .. n /\ j - 1 \in 0 .. n  BY <3>2
      <4>2. f[j - 1] \in W  BY <2>5, <4>1
      <4> QED  BY <2>2, <2>5, <3>2, <4>1, <4>2
    <3> QED  BY <3>1, <3>2
  <2>7. f = [j \in 0 .. n |-> f[j]]  BY <2>5
  <2>8. IsIt(f)  BY <2>6, <2>7 DEF zeros
  <2> QED  BY <2>8
<1>8. IsIt(rows)
  <2> HIDE DEF IsIt
  <2> QED  BY <1>7
<1> HIDE DEF rows
<1>9. \A j \in 0 .. n : rows[j] = IF j = 0 THEN zeros ELSE row(n - j + 1, rows[j - 1])
  <2> DEFINE value(j) == IF j = 0 THEN zeros ELSE row(n - j + 1, rows[j - 1])
  <2>1. rows = [j \in 0 .. n |-> value(j)]  BY <1>8
  <2> HIDE DEF value
  <2>2. \A j \in 0 .. n : rows[j] = value(j)  BY <2>1
  <2> QED  BY <2>2 DEF value
<1>10. \A j \in 0 .. n : rows[j] \in W
  <2> HIDE DEF W, zeros
  <2>1. rows[0] \in W
    <3>1. 0 \in 0 .. n  OBVIOUS
    <3> QED  BY <1>5, <1>9, <3>1
  <2>2. \A j \in 1 .. n : rows[j - 1] \in W => rows[j] \in W
    <3>1. \A j \in 1 .. n : j \in 0 .. n /\ j # 0  OBVIOUS
    <3> QED  BY <1>4, <1>6, <1>9, <3>1
  <2> QED  BY <2>1, <2>2, StepsStay
<1>11. rows[0] = zeros
  <2>1. 0 \in 0 .. n  OBVIOUS
  <2> QED  BY <1>9, <2>1
<1>12. ASSUME NEW done \in 1 .. n PROVE RowOf(n, a, c, n - done + 1, rows[done - 1], rows[done])
  <2>1. done \in 0 .. n /\ done # 0 /\ done - 1 \in 0 .. n  OBVIOUS
  <2>2. rows[done] = row(n - done + 1, rows[done - 1]) /\ rows[done - 1] \in W
    BY <1>9, <1>10, <2>1
  <2> HIDE DEF W
  <2> QED  BY <1>4, <1>6, <2>2
<1> QED  BY <1>2, <1>10, <1>11, <1>12

\* A product of two numbers of n limbs has 2 * n limbs.
LEMMA Multiplied ==
  ASSUME NEW n \in Nat, NEW a \in Words(n), NEW c \in Words(n)
  PROVE  Exp!bigUIntMul(a, c) \in Words(2 * n)
<1>1. PICK rows : /\ \A done \in 0 .. n : rows[done] \in Words(2 * n)
                  /\ Exp!bigUIntMul(a, c) = rows[n]
  BY MultipliedByRows
<1>2. n \in 0 .. n  OBVIOUS
<1> QED  BY <1>1, <1>2

\* A part of a sequence.
LEMMA Part ==
  ASSUME NEW S, NEW d \in Seq(S), NEW a \in 1 .. (Len(d) + 1), NEW c \in 0 .. Len(d), c + 1 >= a
  PROVE  SubSeq(d, a, c) = [j \in 1 .. (c - a + 1) |-> d[a - 1 + j]]
<1>1. Len(SubSeq(d, a, c)) = c - a + 1 /\ SubSeq(d, a, c) \in Seq(S)
  OBVIOUS
<1>2. \A j \in 1 .. (c - a + 1) : SubSeq(d, a, c)[j] = d[a - 1 + j]
  OBVIOUS
<1> QED  BY <1>1, <1>2

\* As many bytes as a limb has make a limb.
LEMMA LimbOfBytes ==
  ASSUME NEW l \in 0 .. LIMB_SIZE_IN_BYTES, NEW e \in [1 .. l -> Exp!Byte]
  PROVE  Exp!digitsValue(e, Exp!ByteBase) \in Exp!Limb
<1> DEFINE w == BYTE_SIZE_IN_BITS
<1>0. /\ w \in Nat /\ l \in Nat /\ LIMB_SIZE_IN_BYTES \in Nat /\ l <= LIMB_SIZE_IN_BYTES
      /\ Exp!ByteBase = Exp!PowerOfTwo[w] /\ Exp!Byte = 0 .. (Exp!PowerOfTwo[w] - 1)
      /\ Exp!ByteBase \in Nat
      /\ Exp!LimbBase = Exp!PowerOfTwo[w * LIMB_SIZE_IN_BYTES]
      /\ Exp!Limb = 0 .. (Exp!LimbBase - 1) /\ Exp!LimbBase \in Nat
  BY Sizes DEF Exp!ByteBase, Exp!Byte, Exp!LimbBase, Exp!LIMB_SIZE_IN_BITS
<1> HIDE DEF w
<1>1. e \in [1 .. l -> 0 .. (Exp!PowerOfTwo[w] - 1)]  BY <1>0
<1>2. e \in [1 .. l -> Nat]
  <2>1. \A j \in 1 .. l : e[j] \in Nat  BY <1>1
  <2> QED  BY <1>1, <2>1
<1>3. PICK f : Prefixes(l, e, Exp!PowerOfTwo[w], f)
               /\ Exp!digitsValue(e, Exp!PowerOfTwo[w]) = f[l]
  BY <1>0, <1>2, DigitsValue
<1>4. f[l] \in Nat /\ f[l] < Exp!PowerOfTwo[w * l]
  <2>1. l \in 0 .. l  BY <1>0
  <2>2. \A j \in 0 .. l : f[j] \in Nat /\ f[j] < Exp!PowerOfTwo[w * j]
    BY <1>0, <1>1, <1>3, PrefixBound
  <2> QED  BY <2>1, <2>2
<1>5. w * l \in Nat /\ w * LIMB_SIZE_IN_BYTES \in Nat /\ w * l <= w * LIMB_SIZE_IN_BYTES
  BY <1>0
<1>6. Exp!PowerOfTwo[w * l] <= Exp!PowerOfTwo[w * LIMB_SIZE_IN_BYTES]
      /\ Exp!PowerOfTwo[w * l] \in Nat
  BY <1>5, PowerGrows, PowerLaws
<1>7. f[l] \in Exp!Limb  BY <1>0, <1>4, <1>6
<1> QED  BY <1>0, <1>3, <1>7

\* A number of limbs that the bytes just fill.
LEMMA LimbsNeeded ==
  ASSUME NEW length \in Nat
  PROVE  /\ Exp!bigIntLimbs(length) \in Nat
         /\ length <= LIMB_SIZE_IN_BYTES * Exp!bigIntLimbs(length)
         /\ length > 0 => /\ Exp!bigIntLimbs(length) > 0
                          /\ length > LIMB_SIZE_IN_BYTES * (Exp!bigIntLimbs(length) - 1)
         /\ length = 0 => Exp!bigIntLimbs(length) = 0
<1> DEFINE b == LIMB_SIZE_IN_BYTES
           t == length \div b
           z == length % b
<1>0. b \in Nat /\ b > 0  BY Sizes
<1>1. t \in Nat /\ z \in 0 .. (b - 1) /\ length = b * t + z
  <2> HIDE DEF b
  <2>1. t \in Int /\ z \in 0 .. (b - 1) /\ length = b * t + z
    BY <1>0, DivMod
  <2>2. t >= 0  BY <1>0
  <2> QED  BY <2>1, <2>2
<1>2. Exp!bigIntLimbs(length) = t + (IF z = 0 THEN 0 ELSE 1)  BY DEF Exp!bigIntLimbs
<1>3. b * t \in Nat /\ b * (t + 1) = b * t + b /\ b * (t - 1) = b * t - b
  <2> HIDE DEF b, t
  <2> QED  BY <1>0, <1>1
<1>5. t = 0 => b * t = 0
  <2> HIDE DEF b, t
  <2> QED  BY <1>0
<1>6. t > 0 => b * t > 0
  <2> HIDE DEF b, t
  <2> QED  BY <1>0, <1>1
<1> HIDE DEF b, t, z
<1>7. CASE z = 0
  <2>1. Exp!bigIntLimbs(length) = t  BY <1>1, <1>2, <1>7
  <2>2. length = b * t /\ (length > 0 => t > 0) /\ (length = 0 => t = 0)
    BY <1>1, <1>3, <1>5, <1>6, <1>7
  <2>3. length > 0 => length > b * (t - 1)  BY <1>0, <1>3, <2>2
  <2>4. length <= b * t  BY <1>3, <2>2
  <2> QED  BY <1>1, <2>1, <2>2, <2>3, <2>4 DEF b
<1>8. CASE z # 0
  <2>1. Exp!bigIntLimbs(length) = t + 1 /\ (t + 1) - 1 = t  BY <1>1, <1>2, <1>8
  <2>2. length <= b * (t + 1) /\ length > b * t /\ length > 0  BY <1>0, <1>1, <1>3, <1>8
  <2> QED  BY <1>1, <2>1, <2>2 DEF b
<1> QED  BY <1>7, <1>8

\* The limbs of a number of bytes stand for the same number.
LEMMA Parsed ==
  ASSUME NEW bytes \in Seq(Exp!Byte)
  PROVE  /\ Exp!parseCalldata(bytes) \in Words(Exp!bigIntLimbs(Len(bytes)))
         /\ Exp!Value(Exp!parseCalldata(bytes)) = Exp!BytesValue(bytes)
         /\ Exp!BytesValue(bytes) \in Nat
<1> DEFINE w == BYTE_SIZE_IN_BITS
           b == LIMB_SIZE_IN_BYTES
           m == Len(bytes)
           l == Exp!bigIntLimbs(m)
           end(j) == m - b * (l - j)
           start(j) == IF j = 1 THEN 1 ELSE end(j) - b + 1
           limb(j) == Exp!BytesValue(SubSeq(bytes, start(j), end(j)))
           limbs == [j \in 1 .. l |-> limb(j)]
<1>0. /\ w \in Nat /\ b \in Nat /\ b > 0 /\ m \in Nat
      /\ Exp!ByteBase = Exp!PowerOfTwo[w] /\ Exp!ByteBase \in Nat
      /\ Exp!LimbBase = Exp!PowerOfTwo[w * b] /\ Exp!LimbBase \in Nat
      /\ Exp!Byte = 0 .. (Exp!ByteBase - 1)
  BY Sizes DEF Exp!ByteBase, Exp!LimbBase, Exp!LIMB_SIZE_IN_BITS
<1>1. /\ l \in Nat /\ m <= b * l
      /\ m > 0 => l > 0 /\ m > b * (l - 1)
      /\ m = 0 => l = 0
  BY <1>0, LimbsNeeded
<1>2. Exp!parseCalldata(bytes) = limbs  BY DEF Exp!parseCalldata
<1>3. bytes \in [1 .. m -> Exp!Byte] /\ bytes \in [1 .. m -> Nat]
  <2>1. bytes \in [1 .. m -> Exp!Byte]  OBVIOUS
  <2>2. \A j \in 1 .. m : bytes[j] \in Nat  BY <1>0, <2>1
  <2> QED  BY <2>1, <2>2
<1>4. PICK f : Prefixes(m, bytes, Exp!PowerOfTwo[w], f)
               /\ Exp!digitsValue(bytes, Exp!PowerOfTwo[w]) = f[m]
  BY <1>0, <1>3, DigitsValue
<1>5. f \in [0 .. m -> Nat] /\ f[0] = 0  BY <1>4 DEF Prefixes
<1> HIDE DEF m, l
<1>6. ASSUME NEW j \in 1 .. l
      PROVE  /\ end(j) \in 1 .. m /\ start(j) \in 1 .. m /\ end(j) + 1 - start(j) \in 0 .. b
             /\ j = 1 => start(j) = 1
             /\ j > 1 => start(j) - 1 = end(j - 1) /\ end(j) - (start(j) - 1) = b
             /\ j = l => end(j) = m
  <2>1. l - j \in Nat /\ l - j <= l - 1 /\ m > 0  BY <1>0, <1>1
  <2>2. b * (l - j) \in Nat /\ b * (l - j) <= b * (l - 1)  BY <1>0, <1>1, <2>1
  <2>3. end(j) \in 1 .. m  BY <1>0, <1>1, <2>1, <2>2
  <2>4. b * (l - 1) = b * l - b /\ b * l \in Nat  BY <1>0, <1>1
  <2>5. end(1) <= b /\ end(1) >= 1  BY <1>0, <1>1, <2>1, <2>4
  <2>6. CASE j = 1
    <3>1. start(j) = 1 /\ end(j) = end(1)  BY <2>6
    <3>2. end(j) + 1 - start(j) \in 0 .. b  BY <1>0, <1>1, <2>3, <2>5, <3>1
    <3>3. j = l => end(j) = m
      <4>1. j = l => l - j = 0 /\ b * 0 = 0  BY <1>0, <1>1
      <4> QED  BY <1>0, <4>1
    <3>4. 1 \in 1 .. m  BY <1>0, <2>1
    <3> QED  BY <2>3, <2>6, <3>1, <3>2, <3>3, <3>4
  <2>7. CASE j > 1
    <3>1. start(j) = end(j) - b + 1  BY <2>7
    <3>2. l - (j - 1) = (l - j) + 1 /\ l - (j - 1) \in Nat  BY <1>1, <2>7
    <3>3. b * (l - (j - 1)) = b * (l - j) + b
      <4>1. b * ((l - j) + 1) = b * (l - j) + b  BY <1>0, <2>1
      <4> QED  BY <3>2, <4>1
    <3>4. end(j - 1) = end(j) - b  BY <1>0, <2>2, <3>3
    <3>5. l - (j - 1) <= l - 1  BY <1>1, <2>7
    <3>6. b * (l - (j - 1)) <= b * (l - 1) /\ b * (l - (j - 1)) \in Nat  BY <1>0, <1>1, <3>2, <3>5
    <3>7. end(j - 1) >= 1  BY <1>0, <1>1, <2>1, <3>6
    <3> DEFINE e == end(j)  d == end(j - 1)
    <3>8. e \in Nat /\ d \in Int /\ d >= 1 /\ d = e - b /\ start(j) = e - b + 1 /\ e <= m
      BY <1>0, <2>3, <3>1, <3>4, <3>7
    <3>9. j = l => e = m
      <4>1. j = l => l - j = 0 /\ b * 0 = 0  BY <1>0, <1>1
      <4> QED  BY <1>0, <4>1
    <3> HIDE DEF e, d
    <3>10. /\ start(j) \in 1 .. m /\ e + 1 - start(j) \in 0 .. b
           /\ start(j) - 1 = d /\ e - (start(j) - 1) = b
      <4> HIDE DEF start
      <4> QED  BY <1>0, <3>8
    <3> QED  BY <2>3, <2>7, <3>9, <3>10 DEF e, d
  <2> QED  BY <2>6, <2>7
<1> HIDE DEF start, end
<1>7. ASSUME NEW j \in 1 .. l
      PROVE  /\ limb(j) \in Exp!Limb
             /\ j = 1 => f[end(j)] = limb(j)
             /\ j > 1 => f[end(j)] = f[end(j - 1)] * Exp!LimbBase + limb(j)
  <2> DEFINE a == start(j)
             c == end(j)
             e == [t \in 1 .. (c - (a - 1)) |-> bytes[(a - 1) + t]]
  <2>1. /\ c \in 1 .. m /\ a \in 1 .. m /\ c + 1 - a \in 0 .. b
        /\ c + 1 - a = c - (a - 1) /\ a - 1 \in 0 .. m /\ c \in 0 .. m /\ a - 1 <= c
        /\ a \in 1 .. (m + 1) /\ c + 1 >= a
    <3>1. c \in 1 .. m /\ a \in 1 .. m /\ c + 1 - a \in 0 .. b  BY <1>6
    <3> HIDE DEF a, c
    <3> QED  BY <1>0, <3>1
  <2> HIDE DEF a, c
  <2>2. SubSeq(bytes, a, c) = e
    <3>1. c - a + 1 = c - (a - 1)  BY <1>0, <2>1
    <3>2. SubSeq(bytes, a, c) = [t \in 1 .. (c - a + 1) |-> bytes[a - 1 + t]]
      BY <2>1, Part DEF m
    <3> QED  BY <3>1, <3>2
  <2>3. limb(j) = Exp!digitsValue(e, Exp!PowerOfTwo[w])
    BY <1>0, <2>2 DEF a, c, Exp!BytesValue
  <2>4. e \in [1 .. (c + 1 - a) -> Exp!Byte]
    <3>1. \A t \in 1 .. (c - (a - 1)) : (a - 1) + t \in 1 .. m  BY <1>0, <2>1
    <3>2. \A t \in 1 .. (c - (a - 1)) : bytes[(a - 1) + t] \in Exp!Byte  BY <1>3, <3>1
    <3> QED  BY <2>1, <3>2
  <2>5. limb(j) \in Exp!Limb
    <3> HIDE DEF e, limb
    <3>1. c + 1 - a \in 0 .. LIMB_SIZE_IN_BYTES  BY <2>1
    <3> QED  BY <1>0, <2>3, <2>4, <3>1, LimbOfBytes
  <2>6. f[c] = f[a - 1] * Exp!PowerOfTwo[w * (c - (a - 1))] + limb(j)
    <3>1. e = [t \in 1 .. (c - (a - 1)) |-> bytes[(a - 1) + t]]  OBVIOUS
    <3> DEFINE o == a - 1
    <3>2. o \in 0 .. m /\ c \in 0 .. m /\ o <= c /\ e = [t \in 1 .. (c - o) |-> bytes[o + t]]
      BY <2>1, <3>1
    <3> HIDE DEF e, limb, o
    <3>3. bytes \in [1 .. m -> Nat] /\ m \in Nat /\ w \in Nat /\ Prefixes(m, bytes, Exp!PowerOfTwo[w], f)
      BY <1>0, <1>3, <1>4
    <3>4. IsSlice(e, bytes, o, c)  BY <3>2 DEF IsSlice
    <3>5. f[c] = f[o] * Exp!PowerOfTwo[w * (c - o)] + Exp!digitsValue(e, Exp!PowerOfTwo[w])
      <4>1. Digits(m, w, bytes, f)  BY <3>3 DEF Digits
      <4>2. m \in Nat /\ w \in Nat /\ o \in 0 .. m /\ c \in 0 .. m /\ o <= c  BY <3>2, <3>3
      <4> QED  BY <3>4, <4>1, <4>2, Segment
    <3> QED  BY <2>3, <3>5 DEF o
  <2> HIDE DEF limb, e
  <2>7. limb(j) \in Nat  BY <2>5, Sizes
  <2>8. ASSUME j = 1 PROVE f[c] = limb(j)
    <3>1. a - 1 = 0  BY <1>6, <2>8 DEF a
    <3>2. Exp!PowerOfTwo[w * (c - (a - 1))] \in Nat
      <4>1. c - (a - 1) \in Nat  BY <1>0, <2>1
      <4>2. w * (c - (a - 1)) \in Nat  BY <1>0, <4>1
      <4> QED  BY <4>2, PowerLaws
    <3>3. f[a - 1] = 0  BY <1>5, <3>1
    <3>4. \A z, y_ \in Nat : 0 * z + y_ = y_  OBVIOUS
    <3> QED  BY <2>6, <2>7, <3>2, <3>3, <3>4
  <2>9. ASSUME j > 1 PROVE f[c] = f[end(j - 1)] * Exp!LimbBase + limb(j)
    <3>1. a - 1 = end(j - 1) /\ c - (a - 1) = b  BY <1>6, <2>9 DEF a, c
    <3> QED  BY <1>0, <2>6, <3>1
  <2> QED  BY <2>5, <2>8, <2>9 DEF c
<1> DEFINE g == [j \in 0 .. l |-> IF j = 0 THEN 0 ELSE f[end(j)]]
<1>8. limbs \in [1 .. l -> Exp!Limb] /\ limbs \in [1 .. l -> Nat]
      /\ \A j \in 1 .. l : limbs[j] = limb(j)
  <2>1. \A j \in 1 .. l : limb(j) \in Exp!Limb /\ limb(j) \in Nat
    <3>1. \A z \in Exp!Limb : z \in Nat  BY Sizes
    <3> HIDE DEF limb
    <3> QED  BY <1>7, <3>1
  <2> HIDE DEF limb
  <2> QED  BY <2>1
<1> HIDE DEF limb, limbs
<1>9. g \in [0 .. l -> Nat] /\ g[0] = 0 /\ \A j \in 1 .. l : g[j] = f[end(j)]
  <2>1. \A j \in 1 .. l : f[end(j)] \in Nat
    <3>1. \A j \in 1 .. l : end(j) \in 0 .. m
      <4>1. 1 .. m \subseteq 0 .. m  BY <1>0
      <4> QED  BY <1>6, <4>1
    <3> QED  BY <1>5, <3>1
  <2>2. \A j \in 0 .. l : j # 0 => j \in 1 .. l  BY <1>1
  <2>3. \A j \in 1 .. l : j \in 0 .. l /\ j # 0  BY <1>1
  <2>4. 0 \in 0 .. l  BY <1>1
  <2> QED  BY <2>1, <2>2, <2>3, <2>4
<1> HIDE DEF g
<1>10. \A j \in 1 .. l : g[j] = g[j - 1] * Exp!LimbBase + limbs[j]
  <2> SUFFICES ASSUME NEW j \in 1 .. l PROVE g[j] = g[j - 1] * Exp!LimbBase + limbs[j]
    OBVIOUS
  <2>1. limbs[j] \in Nat /\ limbs[j] = limb(j)  BY <1>8
  <2>2. CASE j = 1
    <3>1. g[j] = limb(j) /\ g[j - 1] = 0  BY <1>7, <1>9, <2>2
    <3>2. 0 * Exp!LimbBase + limbs[j] = limbs[j]  BY <1>0, <2>1
    <3> QED  BY <2>1, <3>1, <3>2
  <2>3. CASE j > 1
    <3>1. j - 1 \in 1 .. l  BY <1>1, <2>3
    <3>2. g[j] = f[end(j)] /\ g[j - 1] = f[end(j - 1)]  BY <1>9, <3>1
    <3> QED  BY <1>7, <2>1, <2>3, <3>2
  <2> QED  BY <1>1, <2>2, <2>3
<1>11. Prefixes(l, limbs, Exp!LimbBase, g)  BY <1>9, <1>10 DEF Prefixes
<1>12. Exp!Value(limbs) = g[l]  BY <1>0, <1>1, <1>8, <1>11, ValueOfPrefixes DEF Exp!Value
<1>13. g[l] = f[m]
  <2>1. CASE l = 0
    <3>1. m = 0
      <4>1. m <= b * 0 /\ b * 0 = 0  BY <1>0, <1>1, <2>1
      <4> QED  BY <1>0, <4>1
    <3> QED  BY <1>5, <1>9, <2>1, <3>1
  <2>2. CASE l # 0
    <3>1. l \in 1 .. l  BY <1>1, <2>2
    <3> QED  BY <1>6, <1>9, <3>1
  <2> QED  BY <2>1, <2>2
<1>14. Exp!BytesValue(bytes) = f[m]  BY <1>0, <1>4 DEF Exp!BytesValue
<1>15. f[m] \in Nat
  <2>1. m \in 0 .. m  BY <1>0
  <2> QED  BY <1>5, <2>1
<1> QED  BY <1>2, <1>8, <1>12, <1>13, <1>14, <1>15 DEF Words, l, m

\* A number that is not zero has at least as much value as its bits.
LEMMA BitsOfNumber ==
  ASSUME NEW n \in Nat, NEW limbs \in Words(n)
  PROVE  /\ Exp!bigUIntBitSize(limbs) \in Nat
         /\ Exp!Value(limbs) \in Nat
         /\ Exp!Value(limbs) > 0
            => /\ Exp!bigUIntBitSize(limbs) > 0
               /\ Exp!Value(limbs) >= Exp!PowerOfTwo[Exp!bigUIntBitSize(limbs) - 1]
<1> DEFINE w == Exp!LIMB_SIZE_IN_BITS
           pow == Exp!PowerOfTwo
           T == {j \in 1 .. n : limbs[j] # 0}
           leading == Exp!SelectInSeq(limbs, LAMBDA l : l # 0)
           bits == Exp!bigUIntBitSize(limbs)
<1>0. /\ w \in Nat /\ w > 0 /\ Exp!LimbBase = pow[w] /\ Exp!LimbBase \in Nat
      /\ \A j \in Nat : pow[j] \in Nat /\ pow[j] >= 1
  <2>1. w \in Nat /\ w > 0 /\ Exp!LimbBase = pow[w] /\ Exp!LimbBase \in Nat
    BY Sizes DEF Exp!LimbBase
  <2>2. \A j \in Nat : pow[j] \in Nat /\ pow[j] > 0  BY PowerLaws
  <2> HIDE DEF pow, w
  <2>3. \A j \in Nat : pow[j] \in Nat /\ pow[j] >= 1  BY <2>2
  <2> QED  BY <2>1, <2>3
<1>1. limbs \in [1 .. n -> Exp!Limb] /\ Len(limbs) = n  BY DEF Words
<1>2. leading = IF T # {} THEN Exp!Min(T) ELSE 0  BY <1>1 DEF Exp!SelectInSeq
<1>3. T # {} => leading \in T
  <2> SUFFICES ASSUME T # {} PROVE leading \in T
    OBVIOUS
  <2>1. T \subseteq Nat  OBVIOUS
  <2> HIDE DEF T
  <2>2. \E j \in T : \A l \in T : j <= l  BY <2>1, Least
  <2>3. Exp!Min(T) \in T  BY <2>2 DEF Exp!Min
  <2> QED  BY <1>2, <2>3
<1>4. bits = IF leading = 0 THEN 0 ELSE (n - leading) * w + Exp!UIntBitSize(limbs[leading])
  BY <1>1 DEF Exp!bigUIntBitSize
<1> HIDE DEF leading, w, pow, bits
<1>5. limbs \in [1 .. n -> Nat]
  <2>1. \A j \in 1 .. n : limbs[j] \in Nat  BY <1>1, Sizes
  <2> QED  BY <1>1, <2>1
<1>6. PICK f : Prefixes(n, limbs, Exp!LimbBase, f) /\ Exp!digitsValue(limbs, Exp!LimbBase) = f[n]
  BY <1>0, <1>5, DigitsValue
<1>7. /\ f \in [0 .. n -> Nat] /\ f[0] = 0
      /\ \A j \in 1 .. n : f[j] = f[j - 1] * Exp!LimbBase + limbs[j]
  BY <1>6 DEF Prefixes
<1>8. Exp!Value(limbs) = f[n] /\ f[n] \in Nat
  <2>1. n \in 0 .. n  OBVIOUS
  <2> QED  BY <1>6, <1>7, <2>1 DEF Exp!Value
<1>9. CASE T = {}
  <2>1. \A j \in 1 .. n : limbs[j] = 0  BY <1>9
  <2>2. \A j \in 1 .. n : f[j - 1] \in {0} => f[j] \in {0}
    <3>1. 0 * Exp!LimbBase + 0 = 0  BY <1>0
    <3> QED  BY <1>7, <2>1, <3>1
  <2>3. f[0] \in {0}  BY <1>7
  <2>4. \A j \in 0 .. n : f[j] \in {0}
    <3> DEFINE V == {0}
    <3>1. f[0] \in V /\ \A j \in 1 .. n : f[j - 1] \in V => f[j] \in V  BY <2>2, <2>3
    <3> HIDE DEF V
    <3>2. \A j \in 0 .. n : f[j] \in V  BY <3>1, StepsStay
    <3> QED  BY <3>2 DEF V
  <2>5. f[n] = 0
    <3>1. n \in 0 .. n  OBVIOUS
    <3> QED  BY <2>4, <3>1
  <2>6. bits = 0  BY <1>2, <1>4, <1>9
  <2> QED  BY <1>8, <2>5, <2>6 DEF bits
<1>10. CASE T # {}
  <2> DEFINE h == leading
             ub == Exp!UIntBitSize(limbs[h])
  <2>1. h \in 1 .. n /\ limbs[h] # 0  BY <1>3, <1>10
  <2>2. limbs[h] \in Exp!Limb /\ limbs[h] \in Nat  BY <1>1, <1>5, <2>1
  <2>3. ub \in 0 .. w /\ limbs[h] < pow[ub] /\ (ub > 0 => limbs[h] >= pow[ub - 1])
    BY <2>2, BitsOfWord DEF w, pow
  <2>4. pow[0] = 1  BY PowerLaws DEF pow
  <2>5. ub \in Nat /\ ub > 0
    <3>1. ub \in Nat  BY <1>0, <2>3
    <3>2. ub # 0  BY <2>1, <2>2, <2>3, <2>4
    <3> QED  BY <3>1, <3>2
  <2>6. bits = (n - h) * w + ub  BY <1>4, <2>1
  <2> HIDE DEF ub, h
  <2>7. n - h \in Nat /\ (n - h) * w \in Nat /\ w * (n - h) = (n - h) * w  BY <1>0, <2>1
  <2>8. bits \in Nat /\ bits > 0 /\ bits - 1 = (n - h) * w + (ub - 1) /\ ub - 1 \in Nat
    BY <2>5, <2>6, <2>7
  <2>9. pow[bits - 1] = pow[(n - h) * w] * pow[ub - 1]  BY <2>7, <2>8, PowerSum DEF pow
  <2>10. h - 1 \in 0 .. n /\ h \in 0 .. n  BY <2>1
  <2>11. f[h] \in Nat /\ f[h] >= pow[ub - 1]
    <3>1. f[h - 1] \in Nat /\ f[h] = f[h - 1] * Exp!LimbBase + limbs[h]  BY <1>7, <2>1, <2>10
    <3>2. f[h - 1] * Exp!LimbBase \in Nat  BY <1>0, <3>1
    <3>3. pow[ub - 1] \in Nat /\ limbs[h] >= pow[ub - 1]  BY <1>0, <2>3, <2>5, <2>8
    <3> QED  BY <2>2, <3>1, <3>2, <3>3
  <2> DEFINE e == [j \in 1 .. (n - h) |-> limbs[h + j]]
  <2>12. e \in [1 .. (n - h) -> Nat]
    <3>1. \A j \in 1 .. (n - h) : h + j \in 1 .. n  BY <2>1
    <3> QED  BY <1>5, <3>1
  <2>13. IsSlice(e, limbs, h, n)  BY DEF IsSlice
  <2> HIDE DEF e
  <2>14. f[n] = f[h] * pow[w * (n - h)] + Exp!digitsValue(e, pow[w])
    <3>1. Digits(n, w, limbs, f)  BY <1>0, <1>5, <1>6 DEF Digits, pow
    <3>2. n \in 0 .. n /\ h <= n  BY <2>1
    <3> QED  BY <1>0, <2>10, <2>13, <3>1, <3>2, Segment DEF pow
  <2>15. Exp!digitsValue(e, pow[w]) \in Nat
    <3>1. PICK g : Prefixes(n - h, e, pow[w], g) /\ Exp!digitsValue(e, pow[w]) = g[n - h]
      BY <1>0, <2>7, <2>12, DigitsValue
    <3>2. n - h \in 0 .. (n - h)  BY <2>7
    <3> QED  BY <3>1, <3>2 DEF Prefixes
  <2>16. f[n] >= f[h] * pow[w * (n - h)]
    <3>1. pow[w * (n - h)] \in Nat  BY <1>0, <2>7
    <3>2. f[h] * pow[w * (n - h)] \in Nat  BY <2>11, <3>1
    <3> QED  BY <2>14, <2>15, <3>2
  <2>17. f[h] * pow[w * (n - h)] >= pow[bits - 1]
    <3> DEFINE a == f[h]  b == pow[ub - 1]  c == pow[(n - h) * w]
    <3>1. a \in Nat /\ b \in Nat /\ c \in Nat /\ a >= b  BY <1>0, <2>7, <2>8, <2>11
    <3>2. f[h] * pow[w * (n - h)] = a * c /\ pow[bits - 1] = c * b  BY <2>7, <2>9
    <3> HIDE DEF a, b, c
    <3>3. a * c >= b * c /\ b * c = c * b  BY <3>1
    <3> QED  BY <3>2, <3>3
  <2>18. f[n] >= pow[bits - 1]
    <3>1. pow[bits - 1] \in Nat /\ f[h] * pow[w * (n - h)] \in Nat
      BY <1>0, <2>7, <2>8, <2>11
    <3> QED  BY <1>8, <2>16, <2>17, <3>1
  <2> QED  BY <1>8, <2>8, <2>18 DEF bits, pow
<1> QED  BY <1>9, <1>10

\* Padding a number changes its length only, and leads it with zeros.
LEMMA PaddedNumber ==
  ASSUME NEW l \in Nat, NEW n \in Nat, l <= n, NEW limbs \in Words(l)
  PROVE  /\ Exp!bigUIntPadWithZeros(limbs, n) \in Words(n)
         /\ Exp!Value(Exp!bigUIntPadWithZeros(limbs, n)) = Exp!Value(limbs)
         /\ l < n => Exp!bigUIntPadWithZeros(limbs, n)[1] = 0
<1> DEFINE e == Exp!bigUIntPadWithZeros(limbs, n)
<1>1. limbs \in [1 .. l -> Exp!Limb] /\ Len(limbs) = l  BY DEF Words
<1>2. e = [j \in 1 .. n |-> IF j <= n - l THEN 0 ELSE limbs[j - (n - l)]]
  BY <1>1 DEF Exp!bigUIntPadWithZeros
<1> HIDE DEF e
<1>3. \A j \in 1 .. n : e[j] = IF j <= n - l THEN 0 ELSE limbs[j - (n - l)]  BY <1>2
<1>4. \A j \in 1 .. n : e[j] \in Exp!Limb
  <2> SUFFICES ASSUME NEW j \in 1 .. n PROVE e[j] \in Exp!Limb
    OBVIOUS
  <2>1. 0 \in Exp!Limb  BY Sizes
  <2>2. CASE j <= n - l  BY <1>3, <2>1, <2>2
  <2>3. CASE ~(j <= n - l)
    <3>1. j - (n - l) \in 1 .. l  BY <2>3
    <3> QED  BY <1>1, <1>3, <2>3, <3>1
  <2> QED  BY <2>2, <2>3
<1>5. e \in [1 .. n -> Exp!Limb]  BY <1>2, <1>4
<1>6. limbs \in [1 .. l -> Nat] /\ e \in [1 .. n -> Nat]
  <2>1. \A v \in Exp!Limb : v \in Nat  BY Sizes
  <2>2. \A j \in 1 .. n : e[j] \in Nat  BY <1>5, <2>1
  <2>3. \A j \in 1 .. l : limbs[j] \in Nat  BY <1>1, <2>1
  <2> QED  BY <1>1, <1>5, <2>2, <2>3
<1>7. Exp!LimbBase \in Nat  BY Sizes
<1>8. Exp!digitsValue(e, Exp!LimbBase) = Exp!digitsValue(limbs, Exp!LimbBase)
  BY <1>3, <1>6, <1>7, Padded
<1>9. l < n => e[1] = 0
  <2>1. l < n => 1 \in 1 .. n /\ 1 <= n - l  OBVIOUS
  <2> QED  BY <1>3, <2>1
<1> QED  BY <1>5, <1>8, <1>9 DEF e, Words, Exp!Value

\* The lower half of the limbs.
LEMMA LowerHalf ==
  ASSUME NEW n \in Nat, NEW limbs \in Words(2 * n)
  PROVE  Exp!bigUIntLowerHalf(limbs) \in Words(n)
<1>1. limbs \in [1 .. (2 * n) -> Exp!Limb] /\ limbs \in Seq(Exp!Limb) /\ Len(limbs) = 2 * n
  BY DEF Words
<1>2. (2 * n) \div 2 = n /\ n + 1 \in 1 .. (2 * n + 1) /\ 2 * n \in 0 .. (2 * n)
      /\ 2 * n + 1 >= n + 1 /\ 2 * n - (n + 1) + 1 = n
  OBVIOUS
<1>3. Exp!bigUIntLowerHalf(limbs) = SubSeq(limbs, n + 1, 2 * n)
  BY <1>1, <1>2 DEF Exp!bigUIntLowerHalf
<1>4. SubSeq(limbs, n + 1, 2 * n) = [j \in 1 .. n |-> limbs[n + 1 - 1 + j]]
  BY <1>1, <1>2, Part
<1>5. \A j \in 1 .. n : n + 1 - 1 + j \in 1 .. (2 * n)  OBVIOUS
<1>6. \A j \in 1 .. n : limbs[n + 1 - 1 + j] \in Exp!Limb  BY <1>1, <1>5
<1> QED  BY <1>3, <1>4, <1>6 DEF Words

\* The memory is laid out in numbers of the same even length, which has room
\* for each operand twice.
LEMMA Layout ==
  ASSUME call \in Calls
  PROVE  /\ call.base \in Seq(Exp!Byte) /\ call.exp \in Seq(Exp!Byte) /\ call.mod \in Seq(Exp!Byte)
         /\ \E h \in Nat : /\ Exp!nLimbs = 2 * h
                           /\ Exp!bigIntLimbs(Len(call.base)) <= h
                           /\ Exp!bigIntLimbs(Len(call.exp)) <= h
                           /\ Exp!bigIntLimbs(Len(call.mod)) <= h
<1>1. call \in [base : Seq(Exp!Byte), exp : Seq(Exp!Byte), mod : Seq(Exp!Byte)]
  BY ModExpAssumption DEF Exp!CallsAreRequests
<1>2. call.base \in Seq(Exp!Byte) /\ call.exp \in Seq(Exp!Byte) /\ call.mod \in Seq(Exp!Byte)
  BY <1>1
<1> DEFINE a == Exp!bigIntLimbs(Len(call.base))
           b == Exp!bigIntLimbs(Len(call.exp))
           c == Exp!bigIntLimbs(Len(call.mod))
<1>3. a \in Nat /\ b \in Nat /\ c \in Nat
  <2>1. Len(call.base) \in Nat /\ Len(call.exp) \in Nat /\ Len(call.mod) \in Nat  BY <1>2
  <2> QED  BY <2>1, LimbsNeeded
<1>4. Exp!nLimbs = 2 * Exp!Max({a, b, c})
  BY DEF Exp!nLimbs, Exp!baseLen, Exp!expLen, Exp!modLen
<1> HIDE DEF a, b, c
<1>5. \E h \in {a, b, c} : \A o \in {a, b, c} : h >= o  BY <1>3
<1>6. Exp!Max({a, b, c}) \in {a, b, c} /\ \A o \in {a, b, c} : Exp!Max({a, b, c}) >= o
  BY <1>5 DEF Exp!Max
<1> QED  BY <1>2, <1>3, <1>4, <1>6 DEF a, b, c

\* The operands in limbs.
LEMMA OperandsInLimbs ==
  ASSUME call \in Calls
  PROVE  /\ Exp!nLimbs \in Nat
         /\ Exp!modulus \in Words(Exp!nLimbs) /\ Exp!Value(Exp!modulus) = Exp!ModValue
         /\ Exp!exponent \in Words(Exp!nLimbs) /\ Exp!Value(Exp!exponent) = Exp!ExpValue
         /\ Exp!bigUIntPadWithZeros(Exp!parseCalldata(call.base), Exp!nLimbs) \in Words(Exp!nLimbs)
         /\ Exp!nLimbs > 0 => Exp!exponent[1] = 0
         /\ Exp!ModValue \in Nat /\ Exp!ExpValue \in Nat
<1>1. PICK h \in Nat : /\ Exp!nLimbs = 2 * h
                       /\ Exp!bigIntLimbs(Len(call.base)) <= h
                       /\ Exp!bigIntLimbs(Len(call.exp)) <= h
                       /\ Exp!bigIntLimbs(Len(call.mod)) <= h
  BY Layout
<1>2. call.base \in Seq(Exp!Byte) /\ call.exp \in Seq(Exp!Byte) /\ call.mod \in Seq(Exp!Byte)
  BY Layout
<1>3. ASSUME NEW bytes \in Seq(Exp!Byte), Exp!bigIntLimbs(Len(bytes)) <= h
      PROVE  /\ Exp!bigUIntPadWithZeros(Exp!parseCalldata(bytes), Exp!nLimbs) \in Words(Exp!nLimbs)
             /\ Exp!Value(Exp!bigUIntPadWithZeros(Exp!parseCalldata(bytes), Exp!nLimbs))
                  = Exp!BytesValue(bytes)
             /\ Exp!BytesValue(bytes) \in Nat
             /\ Exp!nLimbs > 0
                => Exp!bigUIntPadWithZeros(Exp!parseCalldata(bytes), Exp!nLimbs)[1] = 0
  <2> DEFINE l == Exp!bigIntLimbs(Len(bytes))
  <2>1. l \in Nat
    <3>1. Len(bytes) \in Nat  OBVIOUS
    <3> QED  BY <3>1, LimbsNeeded
  <2>2. Exp!parseCalldata(bytes) \in Words(l)  BY Parsed
  <2>3. l <= h  BY <1>3
  <2> HIDE DEF l
  <2>4. Exp!nLimbs \in Nat /\ l <= Exp!nLimbs /\ (Exp!nLimbs > 0 => l < Exp!nLimbs)
    BY <1>1, <2>1, <2>3
  <2>5. Exp!Value(Exp!parseCalldata(bytes)) = Exp!BytesValue(bytes) /\ Exp!BytesValue(bytes) \in Nat
    BY Parsed
  <2> QED  BY <2>1, <2>2, <2>4, <2>5, PaddedNumber
<1>4. Exp!nLimbs \in Nat  BY <1>1
<1> QED
  BY <1>1, <1>2, <1>3, <1>4
     DEF Exp!modulus, Exp!exponent, Exp!ModValue, Exp!ExpValue

(* Where a call is past its special cases.                                 *)
Busy == {"reduceBase", "rem", "flip", "loop", "square"}

(* Two memories that agree on the exponent and the modulus.                *)
OperandsKept(n, m, s) == \A a \in n .. (3 * n - 1) : s[a] = m[a]

(* The four buffers that a division works on, by the place it returns to.  *)
Division(n, dividendPtr, first, second, remPtr, returnTo) ==
  \/ /\ dividendPtr = 0 /\ first = 3 * n /\ second = 4 * n /\ remPtr = 5 * n
     /\ returnTo = "flip"
  \/ /\ dividendPtr = 3 * n /\ first = 0 /\ second = 4 * n /\ remPtr = 6 * n
     /\ returnTo = "square"
  \/ /\ dividendPtr = 4 * n /\ first = 3 * n /\ second = 0 /\ remPtr = 5 * n
     /\ returnTo = "loop"

\* Half of a quotient by a power of two is the quotient by the next one.
LEMMA HalfOfQuotient ==
  ASSUME NEW a \in Nat, NEW n \in Nat
  PROVE  /\ (a \div Exp!PowerOfTwo[n]) \div 2 = a \div Exp!PowerOfTwo[n + 1]
         /\ a \div Exp!PowerOfTwo[n] \in Nat
<1> DEFINE p == Exp!PowerOfTwo[n]
<1>1. p \in Nat /\ p > 0 /\ Exp!PowerOfTwo[n + 1] = 2 * p  BY PowerLaws
<1> HIDE DEF p
<1> DEFINE t == a \div p  z == a % p  h == t \div 2  u == t % 2
<1>2. t \in Int /\ z \in 0 .. (p - 1) /\ a = p * t + z
  BY <1>1, DivMod
<1>3. t \in Nat
  <2>1. a \div p >= 0  BY <1>1
  <2> QED  BY <1>2, <2>1
<1> HIDE DEF t, z
<1>4. h \in Int /\ u \in {0, 1} /\ t = 2 * h + u  BY <1>3
<1> HIDE DEF h, u
<1>5. p * t = (2 * p) * h + p * u
  <2>1. p * (2 * h + u) = p * (2 * h) + p * u /\ p * (2 * h) = (2 * p) * h  BY <1>1, <1>4
  <2> QED  BY <1>4, <2>1
<1>6. p * u + z \in 0 .. (2 * p - 1)
  <2>1. CASE u = 0
    <3>1. p * u = 0  BY <1>1, <2>1
    <3> QED  BY <1>1, <1>2, <3>1
  <2>2. CASE u = 1
    <3>1. p * u = p  BY <1>1, <2>2
    <3> QED  BY <1>1, <1>2, <3>1
  <2> QED  BY <1>4, <2>1, <2>2
<1>7. a = (2 * p) * h + (p * u + z)
  <2>1. (2 * p) * h \in Int /\ p * u \in Int /\ p * t \in Int  BY <1>1, <1>3, <1>4
  <2> QED  BY <1>2, <1>5, <2>1
<1>8. a \div (2 * p) = h
  <2>1. 2 * p \in Nat /\ 2 * p > 0  BY <1>1
  <2>2. ((2 * p) * h + (p * u + z)) \div (2 * p) = h  BY <1>4, <1>6, <2>1, DivModUnique
  <2> QED  BY <1>7, <2>2
<1> QED  BY <1>1, <1>3, <1>8 DEF h, t, p

\* What is said of a call only depends on the call.
LEMMA SameCall ==
  ASSUME call' = call
  PROVE  /\ Exp!nLimbs' = Exp!nLimbs /\ Exp!modulus' = Exp!modulus
         /\ Exp!exponent' = Exp!exponent
         /\ Exp!ModValue' = Exp!ModValue /\ Exp!ExpValue' = Exp!ExpValue
<1>1. Exp!nLimbs' = Exp!nLimbs
  BY DEF Exp!nLimbs, Exp!baseLen, Exp!expLen, Exp!modLen
<1>2. Exp!modulus' = Exp!modulus /\ Exp!exponent' = Exp!exponent
  BY <1>1 DEF Exp!modulus, Exp!exponent
<1> QED  BY <1>1, <1>2 DEF Exp!ModValue, Exp!ExpValue

\* A division writes neither the exponent nor the modulus before its loop, nor
\* the other of the base and the result, and copies the dividend.
LEMMA DivisionStarts ==
  ASSUME call \in Calls, Exp!nLimbs > 0,
         NEW m \in Memories(7 * Exp!nLimbs - 1), m[Exp!nLimbs] = 0,
         NEW dividendPtr, NEW first, NEW second, NEW remPtr, NEW returnTo,
         Division(Exp!nLimbs, dividendPtr, first, second, remPtr, returnTo),
         Exp!bigUIntRem(m, dividendPtr, first, second, remPtr, returnTo)
  PROVE  /\ mem' \in Memories(7 * Exp!nLimbs - 1)
         /\ OperandsKept(Exp!nLimbs, m, mem')
         /\ \A p \in {5 * Exp!nLimbs, 6 * Exp!nLimbs} :
              p # remPtr => Exp!Region(mem', p, Exp!nLimbs) = Exp!Region(m, p, Exp!nLimbs)
         /\ Exp!Region(mem', remPtr, Exp!nLimbs) = Exp!Region(m, dividendPtr, Exp!nLimbs)
         /\ frame' = [tmp_ptr_1 |-> first, tmp_ptr_2 |-> second,
                      rem_ptr |-> remPtr, returnTo |-> returnTo]
         /\ \/ expPc' = "rem" /\ bd' \in Nat
            \/ expPc' = "outOfGas"
<1> DEFINE n == Exp!nLimbs
           top == 7 * n - 1
           number == Exp!Region(m, dividendPtr, n)
           clear1 == Exp!zeroWithLimbSizeAt(m, n, first)
           cleared == Exp!zeroWithLimbSizeAt(clear1, n, second)
           copied == Exp!copyBigUint(cleared, n, dividendPtr, remPtr)
           counted == Exp!LIMB_SIZE_IN_BITS * Exp!bigIntLimbsWithoutZeros(number)
           difference == counted - Exp!modulusBitSize
           shifted == Exp!bigUIntShl(copied, difference, Exp!moduloStartPtr, n, first)
<1>1. /\ frame' = [tmp_ptr_1 |-> first, tmp_ptr_2 |-> second,
                   rem_ptr |-> remPtr, returnTo |-> returnTo]
      /\ \/ difference >= 0 /\ expPc' = "rem" /\ bd' = difference /\ mem' = shifted
         \/ expPc' = "outOfGas" /\ mem' = copied
  BY DEF Exp!bigUIntRem
<1>2. n \in Nat /\ n > 0 /\ top \in Nat /\ Exp!moduloStartPtr = 2 * n
      /\ Exp!modulus \in Words(n) /\ m \in Memories(top) /\ m[n] = 0
  <2>1. Exp!nLimbs \in Nat /\ Exp!modulus \in Words(Exp!nLimbs)  BY OperandsInLimbs
  <2>2. Exp!moduloStartPtr = 2 * n  BY DEF Exp!moduloStartPtr
  <2> HIDE DEF n
  <2>3. n \in Nat /\ n > 0 /\ Exp!modulus \in Words(n)  BY <2>1 DEF n
  <2>4. top \in Nat  BY <2>3
  <2>5. m \in Memories(top) /\ m[n] = 0  BY DEF n
  <2> QED  BY <2>2, <2>3, <2>4, <2>5
<1>3. Division(n, dividendPtr, first, second, remPtr, returnTo)  OBVIOUS
<1> HIDE DEF n
<1>4. /\ first \in {0, 3 * n} /\ second \in {0, 4 * n} /\ remPtr \in {5 * n, 6 * n}
      /\ dividendPtr \in {0, 3 * n, 4 * n}
      /\ first \in Nat /\ second \in Nat /\ remPtr \in Nat /\ dividendPtr \in Nat
      /\ first + n <= dividendPtr \/ dividendPtr + n <= first
      /\ second + n <= dividendPtr \/ dividendPtr + n <= second
      /\ dividendPtr + n <= top + 1 /\ remPtr + n <= top + 1
      /\ first + n <= top /\ 2 * n + n <= top
      /\ first + n + 1 <= remPtr
  BY <1>2, <1>3 DEF Division
<1>5. clear1 \in Memories(top) /\ SameOutside(m, clear1, top, first, n)
  BY <1>2, <1>4, Cleared
<1> HIDE DEF clear1
<1>6. cleared \in Memories(top) /\ SameOutside(clear1, cleared, top, second, n)
  BY <1>2, <1>4, <1>5, Cleared
<1> HIDE DEF cleared
<1>7. /\ copied \in Memories(top) /\ SameOutside(cleared, copied, top, remPtr, n)
      /\ Exp!Region(copied, remPtr, n) = Exp!Region(cleared, dividendPtr, n)
  BY <1>2, <1>4, <1>6, Copied
<1> HIDE DEF copied
<1>8. Exp!Region(cleared, dividendPtr, n) = number
  <2>1. Exp!Region(cleared, dividendPtr, n) = Exp!Region(clear1, dividendPtr, n)
    BY <1>2, <1>4, <1>6, RegionKept
  <2>2. Exp!Region(clear1, dividendPtr, n) = Exp!Region(m, dividendPtr, n)
    BY <1>2, <1>4, <1>5, RegionKept
  <2> QED  BY <2>1, <2>2
<1>9. \A a \in n .. (3 * n - 1) : copied[a] = m[a]
  <2> SUFFICES ASSUME NEW a \in n .. (3 * n - 1) PROVE copied[a] = m[a]
    OBVIOUS
  <2>1. a \in 0 .. top  BY <1>2
  <2>2. a < first \/ a >= first + n  BY <1>2, <1>4
  <2>3. a < second \/ a >= second + n  BY <1>2, <1>4
  <2>4. a < remPtr \/ a >= remPtr + n  BY <1>2, <1>4
  <2> QED  BY <1>5, <1>6, <1>7, <2>1, <2>2, <2>3, <2>4 DEF SameOutside
<1>10. \A p \in {5 * n, 6 * n} : p # remPtr => Exp!Region(copied, p, n) = Exp!Region(m, p, n)
  <2> SUFFICES ASSUME NEW p \in {5 * n, 6 * n}, p # remPtr
               PROVE  Exp!Region(copied, p, n) = Exp!Region(m, p, n)
    OBVIOUS
  <2>1. /\ p \in Nat /\ p + n <= top + 1 /\ first + n <= p /\ second + n <= p
        /\ p + n <= remPtr \/ remPtr + n <= p
    BY <1>2, <1>4
  <2>2. Exp!Region(clear1, p, n) = Exp!Region(m, p, n)
    BY <1>2, <1>4, <1>5, <2>1, RegionKept
  <2>3. Exp!Region(cleared, p, n) = Exp!Region(clear1, p, n)
    BY <1>2, <1>4, <1>6, <2>1, RegionKept
  <2>4. Exp!Region(copied, p, n) = Exp!Region(cleared, p, n)
    BY <1>2, <1>4, <1>7, <2>1, RegionKept
  <2> QED  BY <2>2, <2>3, <2>4
<1>11. counted \in Nat /\ Exp!modulusBitSize \in Nat /\ counted <= Exp!LIMB_SIZE_IN_BITS * n
  <2>1. number \in Words(n)  BY <1>2, <1>4, RegionType
  <2>2. Len(number) = n  BY <1>2, <2>1 DEF Words
  <2> HIDE DEF number
  <2>3. Exp!bigIntLimbsWithoutZeros(number) \in 0 .. n  BY <1>2, <2>2, CountedLimbs
  <2> DEFINE z == Exp!bigIntLimbsWithoutZeros(number)
  <2>4. z \in Nat /\ z <= n  BY <1>2, <2>3
  <2> HIDE DEF z
  <2>5. \A w \in Nat : w * z \in Nat /\ w * z <= w * n  BY <1>2, <2>4
  <2>6. Exp!LIMB_SIZE_IN_BITS \in Nat  BY Sizes
  <2>7. Exp!modulusBitSize \in Nat  BY <1>2, BitsOfNumber DEF Exp!modulusBitSize
  <2> QED  BY <2>5, <2>6, <2>7 DEF z
<1> HIDE DEF counted
<1>12. ASSUME difference >= 0
       PROVE  /\ difference \in Nat
              /\ shifted \in Memories(top)
              /\ SameOutside(copied, shifted, top, first, n + 1)
              /\ copied[first + n] = 0 => shifted[first + n] = 0
  <2>1. difference \in Nat /\ difference <= Exp!LIMB_SIZE_IN_BITS * n
    <3>1. Exp!LIMB_SIZE_IN_BITS * n \in Nat
      <4>1. Exp!LIMB_SIZE_IN_BITS \in Nat  BY Sizes
      <4> QED  BY <1>2, <4>1
    <3> QED  BY <1>11, <1>12, <3>1
  <2> HIDE DEF difference
  <2>2. 2 * n \in Nat /\ 2 * n + n <= top /\ top \in Nat /\ first + n <= top /\ first \in Nat
    BY <1>2, <1>4
  <2> DEFINE from == 2 * n
             s == Exp!bigUIntShl(copied, difference, from, n, first)
  <2>3. from \in Nat /\ from + n <= top /\ n \in Nat /\ copied \in Memories(top)  BY <1>2, <1>7, <2>2
  <2> HIDE DEF top, from
  <2>4. /\ s \in Memories(top)
        /\ SameOutside(copied, s, top, first, n + 1)
        /\ copied[first + n] = 0 => s[first + n] = 0
    BY <2>1, <2>2, <2>3, ShiftedLeft
  <2>5. shifted = s  BY <1>2 DEF from
  <2> HIDE DEF s, shifted
  <2> QED  BY <2>1, <2>4, <2>5
<1>13. CASE difference >= 0 /\ expPc' = "rem" /\ bd' = difference /\ mem' = shifted
  <2>1. OperandsKept(n, m, shifted)
    <3> SUFFICES ASSUME NEW a \in n .. (3 * n - 1) PROVE shifted[a] = m[a]
      BY DEF OperandsKept
    <3>1. a \in 0 .. top  BY <1>2
    <3>2. CASE a < first \/ a >= first + (n + 1)
      <4>1. shifted[a] = copied[a]  BY <1>12, <1>13, <3>1, <3>2 DEF SameOutside
      <4> QED  BY <1>9, <4>1
    <3>3. CASE ~(a < first \/ a >= first + (n + 1))
      <4>1. first = 0 /\ a = n /\ first + n = n  BY <1>2, <1>4, <3>3
      <4>2. copied[n] = 0  BY <1>2, <1>9, <4>1
      <4>3. shifted[n] = 0  BY <1>12, <1>13, <4>1, <4>2
      <4> QED  BY <1>2, <4>1, <4>3
    <3> QED  BY <3>2, <3>3
  <2>2. Exp!Region(shifted, remPtr, n) = Exp!Region(copied, remPtr, n)
    <3>1. SameOutside(copied, shifted, top, first, n + 1)  BY <1>12, <1>13
    <3>2. n + 1 \in Nat /\ first + (n + 1) <= remPtr  BY <1>2, <1>4
    <3> HIDE DEF shifted, top
    <3> QED  BY <1>2, <1>4, <3>1, <3>2, RegionKept
  <2>3. shifted \in Memories(top) /\ difference \in Nat  BY <1>12, <1>13
  <2>4. \A p \in {5 * n, 6 * n} : p # remPtr => Exp!Region(shifted, p, n) = Exp!Region(m, p, n)
    <3> SUFFICES ASSUME NEW p \in {5 * n, 6 * n}, p # remPtr
                 PROVE  Exp!Region(shifted, p, n) = Exp!Region(m, p, n)
      OBVIOUS
    <3>1. SameOutside(copied, shifted, top, first, n + 1)  BY <1>12, <1>13
    <3>2. /\ n + 1 \in Nat /\ first + (n + 1) <= p /\ p \in Nat /\ p + n <= top + 1
      BY <1>2, <1>4
    <3>3. Exp!Region(shifted, p, n) = Exp!Region(copied, p, n)
      <4> HIDE DEF shifted, top
      <4> QED  BY <1>2, <1>4, <3>1, <3>2, RegionKept
    <3> QED  BY <1>10, <3>3
  <2> HIDE DEF shifted, difference
  <2> QED  BY <1>1, <1>7, <1>8, <1>13, <2>1, <2>2, <2>3, <2>4 DEF n
<1>14. CASE expPc' = "outOfGas" /\ mem' = copied
  BY <1>1, <1>7, <1>8, <1>9, <1>14, <1>10 DEF OperandsKept, n
<1> QED  BY <1>1, <1>13, <1>14

(* A memory with the modulus of the call and an exponent of value e, the   *)
(* most significant limb of which is zero.                                 *)
HoldsOperands(m, e) ==
  /\ m \in Memories(7 * Exp!nLimbs - 1)
  /\ Exp!Region(m, 2 * Exp!nLimbs, Exp!nLimbs) = Exp!modulus
  /\ Exp!Value(Exp!Region(m, Exp!nLimbs, Exp!nLimbs)) = e
  /\ m[Exp!nLimbs] = 0

(***************************************************************************)
(* The operands of a call that is past its special cases are where they    *)
(* were loaded, the two swapped buffers are where flip left them, and a    *)
(* division works on buffers that do not overlap.                          *)
(***************************************************************************)
OperandsInvariant ==
  /\ expPc = "start" => call \in Calls /\ i = 0
  /\ expPc \in Busy =>
       /\ call \in Calls /\ Exp!nLimbs > 0 /\ i \in Nat
       /\ HoldsOperands(mem, Exp!ExpValue \div Exp!PowerOfTwo[i])
       /\ expPc \in {"reduceBase", "flip"} => basePtr = 0 /\ scratchBuf3Ptr = 5 * Exp!nLimbs
       /\ expPc \in {"loop", "square"} => basePtr = 5 * Exp!nLimbs /\ scratchBuf3Ptr = 0
       /\ expPc = "rem" =>
            /\ bd \in Nat
            /\ \E dividendPtr : Division(Exp!nLimbs, dividendPtr, frame.tmp_ptr_1, frame.tmp_ptr_2,
                                         frame.rem_ptr, frame.returnTo)
            /\ IF frame.returnTo = "flip"
               THEN basePtr = 0 /\ scratchBuf3Ptr = 5 * Exp!nLimbs
               ELSE basePtr = 5 * Exp!nLimbs /\ scratchBuf3Ptr = 0

\* The operands stay where a memory keeps them.
LEMMA OperandsStay ==
  ASSUME call \in Calls, Exp!nLimbs > 0, NEW m, NEW e, HoldsOperands(m, e),
         NEW s \in Memories(7 * Exp!nLimbs - 1), OperandsKept(Exp!nLimbs, m, s)
  PROVE  HoldsOperands(s, e)
<1> DEFINE n == Exp!nLimbs
<1>1. n \in Nat /\ n > 0  BY OperandsInLimbs
<1>2. \A a \in n .. (3 * n - 1) : s[a] = m[a]  BY DEF OperandsKept
<1>3. m[n] = 0  BY DEF HoldsOperands
<1> HIDE DEF n
<1>4. ASSUME NEW p \in {n, 2 * n} PROVE Exp!Region(s, p, n) = Exp!Region(m, p, n)
  <2>1. \A j \in 1 .. n : p + j - 1 \in n .. (3 * n - 1)  BY <1>1
  <2>2. \A j \in 1 .. n : s[p + j - 1] = m[p + j - 1]  BY <1>2, <2>1
  <2> QED  BY <2>2 DEF Exp!Region
<1>5. s[n] = 0
  <2>1. n \in n .. (3 * n - 1)  BY <1>1
  <2> QED  BY <1>2, <1>3, <2>1
<1> QED  BY <1>4, <1>5 DEF HoldsOperands, n

\* A number stored in another buffer leaves the operands alone.
LEMMA StoredElsewhere ==
  ASSUME call \in Calls, Exp!nLimbs > 0, NEW m, NEW e, HoldsOperands(m, e),
         NEW limbs \in Words(Exp!nLimbs), NEW p,
         p \in {0, 3 * Exp!nLimbs, 4 * Exp!nLimbs, 5 * Exp!nLimbs, 6 * Exp!nLimbs}
  PROVE  HoldsOperands(Exp!Store(m, p, limbs), e)
<1> DEFINE n == Exp!nLimbs
           top == 7 * n - 1
           s == Exp!Store(m, p, limbs)
<1>1. n \in Nat /\ n > 0 /\ m \in Memories(top) /\ limbs \in Words(n)
      /\ p \in {0, 3 * n, 4 * n, 5 * n, 6 * n}
  BY OperandsInLimbs DEF HoldsOperands
<1> HIDE DEF n
<1>2. p \in Nat /\ top \in Nat /\ (p + n <= n \/ 3 * n <= p)  BY <1>1
<1>3. s \in Memories(top) /\ SameOutside(m, s, top, p, n)  BY <1>1, <1>2, Stored
<1> HIDE DEF s
<1>4. OperandsKept(n, m, s)
  <2> SUFFICES ASSUME NEW a \in n .. (3 * n - 1) PROVE s[a] = m[a]
    BY DEF OperandsKept
  <2>1. a \in 0 .. top /\ (a < p \/ a >= p + n)  BY <1>1, <1>2
  <2> QED  BY <1>3, <2>1 DEF SameOutside
<1> QED  BY <1>3, <1>4, OperandsStay DEF n, s

\* The result starts as one limb with its lowest bit set.
LEMMA OrWithOne ==
  ASSUME NEW n \in Nat, NEW limbs \in Words(n)
  PROVE  Exp!bigUIntInPlaceOrWith1(limbs) \in Words(n)
<1>1. limbs \in [1 .. n -> Exp!Limb] /\ Len(limbs) = n  BY DEF Words
<1>2. ASSUME NEW j \in 1 .. n, limbs[j] % 2 = 0 PROVE limbs[j] + 1 \in Exp!Limb
  <2>1. limbs[j] \in 0 .. (Exp!LimbBase - 1) /\ Exp!LimbBase \in Nat  BY <1>1, Sizes
  <2>2. limbs[j] # Exp!LimbBase - 1
    <3>1. Exp!LimbBase % 2 = 0 /\ Exp!LimbBase >= 2  BY Sizes
    <3>2. (Exp!LimbBase - 1) % 2 = 1  BY <2>1, <3>1
    <3> QED  BY <1>2, <3>2
  <2> QED  BY <2>1, <2>2, Sizes
<1> QED  BY <1>1, <1>2 DEF Words, Exp!bigUIntInPlaceOrWith1

\* Loading puts the operands in place, and one in the result.
LEMMA LoadEstablishes ==
  ASSUME OperandsInvariant, Exp!Load
  PROVE  /\ OperandsInvariant'
         /\ Exp!Region(mem', 0, Exp!nLimbs)
              = Exp!bigUIntPadWithZeros(Exp!parseCalldata(call.base), Exp!nLimbs)
         /\ Exp!Region(mem', 6 * Exp!nLimbs, Exp!nLimbs)
              = Exp!bigUIntInPlaceOrWith1([j \in 1 .. Exp!nLimbs |-> 0])
         /\ Exp!nLimbs > 0
<1>1. /\ expPc = "start" /\ ~Exp!callDataBufferIsZero(call.exp)
      /\ basePtr' = 0 /\ scratchBuf3Ptr' = 5 * Exp!nLimbs /\ expPc' = "reduceBase"
      /\ call' = call /\ i' = i
  BY DEF Exp!Load, Exp!General, Exp!baseStartPtr
<1>2. call \in Calls /\ i = 0  BY <1>1 DEF OperandsInvariant
<1> DEFINE n == Exp!nLimbs
           top == 7 * n - 1
           base == Exp!bigUIntPadWithZeros(Exp!parseCalldata(call.base), n)
           zeroes == [a \in 0 .. top |-> 0]
           based == Exp!Store(zeroes, 0, base)
           raised == Exp!Store(based, n, Exp!exponent)
           loaded == Exp!Store(raised, 2 * n, Exp!modulus)
           one == Exp!bigUIntInPlaceOrWith1(Exp!Region(loaded, 6 * n, n))
           result_ == Exp!Store(loaded, 6 * n, one)
<1>3. n > 0
  <2>1. PICK h \in Nat : n = 2 * h /\ Exp!bigIntLimbs(Len(call.exp)) <= h  BY <1>2, Layout
  <2>2. call.exp \in Seq(Exp!Byte)  BY <1>2, Layout
  <2>3. Len(call.exp) \in Nat /\ Len(call.exp) > 0
    BY <1>1, <2>2 DEF Exp!callDataBufferIsZero
  <2>4. Exp!bigIntLimbs(Len(call.exp)) \in Nat /\ Exp!bigIntLimbs(Len(call.exp)) > 0
    BY <2>3, LimbsNeeded
  <2> QED  BY <2>1, <2>4
<1>4. mem' = result_
  BY DEF Exp!Load, Exp!baseStartPtr, Exp!exponentStartPtr, Exp!moduloStartPtr, Exp!resultPtr
<1>5. /\ n \in Nat /\ Exp!modulus \in Words(n) /\ Exp!exponent \in Words(n) /\ base \in Words(n)
      /\ Exp!exponent[1] = 0 /\ Exp!Value(Exp!exponent) = Exp!ExpValue /\ Exp!ExpValue \in Nat
  BY <1>2, <1>3, OperandsInLimbs
<1> HIDE DEF n, base
<1>6. /\ top \in Nat /\ 0 \in Nat /\ 2 * n \in Nat /\ 6 * n \in Nat
      /\ n + n <= top + 1 /\ 2 * n + n <= top + 1 /\ 6 * n + n <= top + 1
  BY <1>3, <1>5
<1>7. zeroes \in Memories(top)
  <2>1. 0 \in Exp!Limb  BY Sizes
  <2> QED  BY <2>1 DEF Memories
<1>8. Exp!Region(zeroes, 6 * n, n) = [j \in 1 .. n |-> 0]
  <2>1. \A j \in 1 .. n : 6 * n + j - 1 \in 0 .. top  BY <1>3, <1>5
  <2>2. \A j \in 1 .. n : zeroes[6 * n + j - 1] = 0  BY <2>1
  <2> HIDE DEF zeroes
  <2> QED  BY <2>2 DEF Exp!Region
<1> HIDE DEF zeroes, top
<1>9. /\ based \in Memories(top) /\ Exp!Region(based, 0, n) = base
      /\ SameOutside(zeroes, based, top, 0, n)
  BY <1>5, <1>6, <1>7, Stored
<1> HIDE DEF based
<1>10. /\ raised \in Memories(top) /\ Exp!Region(raised, n, n) = Exp!exponent
      /\ SameOutside(based, raised, top, n, n)
  BY <1>5, <1>6, <1>9, Stored
<1> HIDE DEF raised
<1>11. /\ loaded \in Memories(top) /\ Exp!Region(loaded, 2 * n, n) = Exp!modulus
       /\ SameOutside(raised, loaded, top, 2 * n, n)
  BY <1>5, <1>6, <1>10, Stored
<1> HIDE DEF loaded
<1>12. Exp!Region(loaded, n, n) = Exp!exponent
  <2>1. n + n <= 2 * n  BY <1>5
  <2> QED  BY <1>5, <1>6, <1>10, <1>11, <2>1, RegionKept
<1>13. /\ Exp!Region(loaded, 0, n) = base
       /\ Exp!Region(loaded, 6 * n, n) = [j \in 1 .. n |-> 0]
  <2>1. /\ 0 + n <= n /\ 0 + n <= 2 * n /\ 0 + n <= 6 * n /\ 0 + n <= top + 1
        /\ n + n <= 6 * n /\ 2 * n + n <= 6 * n
    BY <1>5, <1>6
  <2>2. Exp!Region(raised, 0, n) = base  BY <1>5, <1>6, <1>9, <1>10, <2>1, RegionKept
  <2>3. Exp!Region(loaded, 0, n) = base  BY <1>5, <1>6, <1>11, <2>1, <2>2, RegionKept
  <2>4. Exp!Region(based, 6 * n, n) = [j \in 1 .. n |-> 0]
    BY <1>5, <1>6, <1>9, <1>8, <2>1, RegionKept
  <2>5. Exp!Region(raised, 6 * n, n) = [j \in 1 .. n |-> 0]
    BY <1>5, <1>6, <1>10, <2>1, <2>4, RegionKept
  <2>6. Exp!Region(loaded, 6 * n, n) = [j \in 1 .. n |-> 0]
    BY <1>5, <1>6, <1>11, <2>1, <2>5, RegionKept
  <2> QED  BY <2>3, <2>6
<1>14. one = Exp!bigUIntInPlaceOrWith1([j \in 1 .. n |-> 0])  BY <1>13
<1>15. one \in Words(n)  BY <1>5, <1>6, <1>11, RegionType, OrWithOne
<1> HIDE DEF one
<1>16. /\ result_ \in Memories(top) /\ SameOutside(loaded, result_, top, 6 * n, n)
       /\ Exp!Region(result_, 6 * n, n) = one
  BY <1>5, <1>6, <1>11, <1>15, Stored
<1> HIDE DEF result_
<1>17. Exp!Region(result_, 0, n) = base
  <2>1. 0 + n <= 6 * n /\ 0 + n <= top + 1  BY <1>5, <1>6
  <2> QED  BY <1>5, <1>6, <1>16, <1>13, <2>1, RegionKept
<1>18. Exp!Region(result_, n, n) = Exp!exponent /\ Exp!Region(result_, 2 * n, n) = Exp!modulus
  <2>1. n + n <= 6 * n /\ 2 * n + n <= 6 * n  BY <1>5
  <2>2. Exp!Region(result_, n, n) = Exp!Region(loaded, n, n)
    BY <1>5, <1>6, <1>16, <2>1, RegionKept
  <2>3. Exp!Region(result_, 2 * n, n) = Exp!Region(loaded, 2 * n, n)
    BY <1>5, <1>6, <1>16, <2>1, RegionKept
  <2> QED  BY <1>11, <1>12, <2>2, <2>3
<1>19. result_[n] = 0
  <2>1. 1 \in 1 .. n /\ n + 1 - 1 = n  BY <1>3, <1>5
  <2>2. Exp!Region(result_, n, n)[1] = result_[n + 1 - 1]  BY <2>1 DEF Exp!Region
  <2> QED  BY <1>5, <1>18, <2>1, <2>2
<1>20. Exp!ExpValue \div Exp!PowerOfTwo[i] = Exp!ExpValue
  <2>1. Exp!PowerOfTwo[0] = 1  BY PowerLaws
  <2>2. \A v \in Nat : v \div 1 = v  OBVIOUS
  <2> QED  BY <1>2, <1>5, <2>1, <2>2
<1>21. HoldsOperands(result_, Exp!ExpValue \div Exp!PowerOfTwo[i])
  BY <1>5, <1>16, <1>18, <1>19, <1>20 DEF HoldsOperands, n, top
<1>22. HoldsOperands(mem, Exp!ExpValue \div Exp!PowerOfTwo[i])'
  BY <1>1, <1>4, <1>21, SameCall DEF HoldsOperands
<1>23. Exp!nLimbs' = Exp!nLimbs  BY <1>1, SameCall
<1>24. OperandsInvariant'  BY <1>1, <1>2, <1>3, <1>22, <1>23 DEF OperandsInvariant, Busy, n
<1> QED  BY <1>3, <1>4, <1>16, <1>14, <1>17, <1>24 DEF n, base

(* A division begins, with the operands in place in memory m.              *)
DivisionBegins(m, dividendPtr, first, second, remPtr, returnTo) ==
  /\ call \in Calls /\ Exp!nLimbs > 0 /\ call' = call /\ i' \in Nat
  /\ HoldsOperands(m, Exp!ExpValue \div Exp!PowerOfTwo[i'])
  /\ Division(Exp!nLimbs, dividendPtr, first, second, remPtr, returnTo)
  /\ Exp!bigUIntRem(m, dividendPtr, first, second, remPtr, returnTo)
  /\ IF returnTo = "flip" THEN basePtr' = 0 /\ scratchBuf3Ptr' = 5 * Exp!nLimbs
     ELSE basePtr' = 5 * Exp!nLimbs /\ scratchBuf3Ptr' = 0

(* Some division begins.                                                   *)
SomeDivisionBegins ==
  \E m, dividendPtr, first, second, remPtr, returnTo :
    DivisionBegins(m, dividendPtr, first, second, remPtr, returnTo)

(* The memories that the product of the result and the base, and the       *)
(* square of the base, are divided in.                                     *)
MemoryOfProduct ==
  Exp!Store(mem, Exp!scratchBuf1Ptr, Exp!bigUIntMul(Exp!bigUIntLowerHalf(Exp!Number(Exp!resultPtr)),
                                                    Exp!bigUIntLowerHalf(Exp!Number(basePtr))))
MemoryOfSquare ==
  Exp!Store(Exp!Store(mem, Exp!nLimbs, Exp!bigUIntOneShiftRight(Exp!Region(mem, Exp!nLimbs, Exp!nLimbs))),
            Exp!scratchBuf2Ptr,
            Exp!bigUIntMul(Exp!bigUIntLowerHalf(Exp!Number(basePtr)),
                           Exp!bigUIntLowerHalf(Exp!Number(basePtr))))

\* The operands stay in place where a division begins.
LEMMA DivisionKeeps ==
  ASSUME SomeDivisionBegins
  PROVE  OperandsInvariant'
<1> PICK m, dividendPtr, first, second, remPtr, returnTo :
      DivisionBegins(m, dividendPtr, first, second, remPtr, returnTo)
  BY DEF SomeDivisionBegins
<1>0. /\ call \in Calls /\ Exp!nLimbs > 0 /\ call' = call /\ i' \in Nat
      /\ HoldsOperands(m, Exp!ExpValue \div Exp!PowerOfTwo[i'])
      /\ Division(Exp!nLimbs, dividendPtr, first, second, remPtr, returnTo)
      /\ Exp!bigUIntRem(m, dividendPtr, first, second, remPtr, returnTo)
      /\ IF returnTo = "flip" THEN basePtr' = 0 /\ scratchBuf3Ptr' = 5 * Exp!nLimbs
         ELSE basePtr' = 5 * Exp!nLimbs /\ scratchBuf3Ptr' = 0
  BY DEF DivisionBegins
<1>1. m \in Memories(7 * Exp!nLimbs - 1) /\ m[Exp!nLimbs] = 0  BY <1>0 DEF HoldsOperands
<1>2. /\ mem' \in Memories(7 * Exp!nLimbs - 1)
      /\ OperandsKept(Exp!nLimbs, m, mem')
      /\ frame' = [tmp_ptr_1 |-> first, tmp_ptr_2 |-> second,
                   rem_ptr |-> remPtr, returnTo |-> returnTo]
      /\ \/ expPc' = "rem" /\ bd' \in Nat
         \/ expPc' = "outOfGas"
  BY <1>0, <1>1, DivisionStarts
<1>3. HoldsOperands(mem', Exp!ExpValue \div Exp!PowerOfTwo[i'])
  BY <1>0, <1>2, OperandsStay
<1>4. HoldsOperands(mem, Exp!ExpValue \div Exp!PowerOfTwo[i])'
  BY <1>0, <1>3, SameCall DEF HoldsOperands
<1>5. Exp!nLimbs' = Exp!nLimbs  BY <1>0, SameCall
<1>6. frame'.tmp_ptr_1 = first /\ frame'.tmp_ptr_2 = second /\ frame'.rem_ptr = remPtr
      /\ frame'.returnTo = returnTo
  BY <1>2
<1>7. CASE expPc' = "outOfGas"
  BY <1>7 DEF OperandsInvariant, Busy
<1>8. CASE expPc' = "rem" /\ bd' \in Nat
  <2>1. \E p : Division(Exp!nLimbs', p, frame'.tmp_ptr_1, frame'.tmp_ptr_2,
                        frame'.rem_ptr, frame'.returnTo)
    BY <1>0, <1>5, <1>6
  <2>2. IF frame'.returnTo = "flip" THEN basePtr' = 0 /\ scratchBuf3Ptr' = 5 * Exp!nLimbs'
        ELSE basePtr' = 5 * Exp!nLimbs' /\ scratchBuf3Ptr' = 0
    BY <1>0, <1>5, <1>6
  <2>3. call' \in Calls /\ Exp!nLimbs' > 0  BY <1>0, <1>5
  <2>4. expPc' \notin {"start", "reduceBase", "flip", "loop", "square"}  BY <1>8
  <2> QED  BY <1>0, <1>4, <1>8, <2>1, <2>2, <2>3, <2>4 DEF OperandsInvariant
<1> QED  BY <1>2, <1>7, <1>8

\* A pass of the loop of a division writes its own buffers only.
LEMMA RemPassKeeps ==
  ASSUME OperandsInvariant, Exp!RemPass
  PROVE  OperandsInvariant'
<1> DEFINE n == Exp!nLimbs
           e == Exp!ExpValue \div Exp!PowerOfTwo[i]
           r_ == Exp!bigUIntSubWithBorrow(Exp!Number(frame.rem_ptr), Exp!Number(frame.tmp_ptr_1))
           stored == Exp!Store(mem, frame.tmp_ptr_2, r_.difference)
           subtracted == IF r_.borrow = 0 THEN Exp!Store(stored, frame.rem_ptr, r_.difference)
                         ELSE stored
           half == Exp!bigUIntOneShiftRight(Exp!Number(frame.tmp_ptr_1))
<1>1. /\ expPc = "rem"
      /\ \/ bd = 0 /\ expPc' = frame.returnTo /\ mem' = subtracted /\ bd' = bd
         \/ /\ bd > 0 /\ expPc' = expPc /\ bd' = bd - 1
            /\ mem' = Exp!Store(subtracted, frame.tmp_ptr_1, half)
      /\ UNCHANGED <<call, basePtr, scratchBuf3Ptr, i, frame>>
  BY DEF Exp!RemPass
<1>2. /\ call \in Calls /\ n > 0 /\ i \in Nat /\ bd \in Nat
      /\ HoldsOperands(mem, e)
      /\ \E dividendPtr : Division(n, dividendPtr, frame.tmp_ptr_1, frame.tmp_ptr_2,
                                   frame.rem_ptr, frame.returnTo)
      /\ IF frame.returnTo = "flip" THEN basePtr = 0 /\ scratchBuf3Ptr = 5 * n
         ELSE basePtr = 5 * n /\ scratchBuf3Ptr = 0
  BY <1>1 DEF OperandsInvariant, Busy
<1>3. /\ n \in Nat /\ mem \in Memories(7 * n - 1)
      /\ frame.tmp_ptr_1 \in {0, 3 * n} /\ frame.tmp_ptr_2 \in {0, 4 * n}
      /\ frame.rem_ptr \in {5 * n, 6 * n}
      /\ frame.returnTo \in {"flip", "square", "loop"}
  <2>1. n \in Nat  BY <1>2, OperandsInLimbs
  <2> QED  BY <1>2, <2>1 DEF HoldsOperands, Division
<1>4. Exp!Number(frame.rem_ptr) \in Words(n) /\ Exp!Number(frame.tmp_ptr_1) \in Words(n)
  <2> HIDE DEF n
  <2>1. \A p \in {0, 3 * n, 5 * n, 6 * n} : p \in Nat /\ p + n <= (7 * n - 1) + 1
    BY <1>2, <1>3
  <2>2. 7 * n - 1 \in Nat  BY <1>2, <1>3
  <2>3. \A p \in {0, 3 * n, 5 * n, 6 * n} : Exp!Region(mem, p, n) \in Words(n)
    BY <1>3, <2>1, <2>2, RegionType
  <2> QED  BY <1>3, <2>3 DEF Exp!Number, n
<1>5. r_.difference \in Words(n)  BY <1>3, <1>4, Subtracted
<1>6. half \in Words(n)  BY <1>3, <1>4, ShiftedRight DEF Words
<1> HIDE DEF r_, half
<1>7. HoldsOperands(stored, e)
  <2> HIDE DEF e
  <2>1. frame.tmp_ptr_2 \in {0, 3 * Exp!nLimbs, 4 * Exp!nLimbs, 5 * Exp!nLimbs, 6 * Exp!nLimbs}
    BY <1>3
  <2> QED  BY <1>2, <1>5, <2>1, StoredElsewhere
<1> HIDE DEF stored
<1>8. HoldsOperands(subtracted, e)
  <2> HIDE DEF e
  <2>1. frame.rem_ptr \in {0, 3 * Exp!nLimbs, 4 * Exp!nLimbs, 5 * Exp!nLimbs, 6 * Exp!nLimbs}
    BY <1>3
  <2>2. HoldsOperands(Exp!Store(stored, frame.rem_ptr, r_.difference), e)
    BY <1>2, <1>5, <1>7, <2>1, StoredElsewhere
  <2> QED  BY <1>7, <2>2
<1> HIDE DEF subtracted
<1>9. HoldsOperands(Exp!Store(subtracted, frame.tmp_ptr_1, half), e)
  <2> HIDE DEF e
  <2>1. frame.tmp_ptr_1 \in {0, 3 * Exp!nLimbs, 4 * Exp!nLimbs, 5 * Exp!nLimbs, 6 * Exp!nLimbs}
    BY <1>3
  <2> QED  BY <1>2, <1>6, <1>8, <2>1, StoredElsewhere
<1>10. HoldsOperands(mem', e)  BY <1>1, <1>8, <1>9
<1>11. HoldsOperands(mem, Exp!ExpValue \div Exp!PowerOfTwo[i])'
  BY <1>1, <1>10, SameCall DEF HoldsOperands
<1>12. n' = n  BY <1>1, SameCall
<1>13. CASE bd = 0 /\ expPc' = frame.returnTo
  BY <1>1, <1>2, <1>3, <1>11, <1>12, <1>13 DEF OperandsInvariant, Busy
<1>14. CASE bd > 0 /\ expPc' = expPc /\ bd' = bd - 1
  <2>1. bd' \in Nat  BY <1>2, <1>14
  <2> QED  BY <1>1, <1>2, <1>11, <1>12, <1>14, <2>1 DEF OperandsInvariant, Busy
<1> QED  BY <1>1, <1>13, <1>14

\* The product of the lower halves of two numbers in memory has their length.
LEMMA ProductFits ==
  ASSUME call \in Calls, NEW m \in Memories(7 * Exp!nLimbs - 1), Exp!nLimbs > 0,
         NEW p \in {5 * Exp!nLimbs, 6 * Exp!nLimbs}, NEW q_ \in {5 * Exp!nLimbs, 6 * Exp!nLimbs}
  PROVE  Exp!bigUIntMul(Exp!bigUIntLowerHalf(Exp!Region(m, p, Exp!nLimbs)),
                        Exp!bigUIntLowerHalf(Exp!Region(m, q_, Exp!nLimbs))) \in Words(Exp!nLimbs)
<1> DEFINE n == Exp!nLimbs
<1>1. PICK h \in Nat : n = 2 * h  BY Layout
<1>2. n \in Nat /\ n > 0 /\ m \in Memories(7 * n - 1) /\ p \in {5 * n, 6 * n} /\ q_ \in {5 * n, 6 * n}
  BY <1>1
<1> HIDE DEF n
<1>3. ASSUME NEW z \in {5 * n, 6 * n} PROVE Exp!bigUIntLowerHalf(Exp!Region(m, z, n)) \in Words(h)
  <2>1. z \in Nat /\ z + n <= (7 * n - 1) + 1 /\ 7 * n - 1 \in Nat  BY <1>2
  <2>2. Exp!Region(m, z, n) \in Words(n)  BY <1>2, <2>1, RegionType
  <2> QED  BY <1>1, <2>2, LowerHalf
<1>4. Exp!bigUIntLowerHalf(Exp!Region(m, p, n)) \in Words(h)
      /\ Exp!bigUIntLowerHalf(Exp!Region(m, q_, n)) \in Words(h)
  BY <1>2, <1>3
<1>5. Exp!bigUIntMul(Exp!bigUIntLowerHalf(Exp!Region(m, p, n)),
                     Exp!bigUIntLowerHalf(Exp!Region(m, q_, n))) \in Words(2 * h)
  BY <1>4, Multiplied
<1> QED  BY <1>1, <1>5 DEF n

\* Reducing the base starts the first division.
LEMMA ReduceBaseDivides ==
  ASSUME OperandsInvariant, Exp!ReduceBase
  PROVE  /\ DivisionBegins(mem, 0, 3 * Exp!nLimbs, 4 * Exp!nLimbs, 5 * Exp!nLimbs, "flip")
         /\ SomeDivisionBegins
<1>1. /\ expPc = "reduceBase"
      /\ Exp!bigUIntRem(mem, basePtr, Exp!scratchBuf1Ptr, Exp!scratchBuf2Ptr, scratchBuf3Ptr, "flip")
      /\ UNCHANGED <<call, basePtr, scratchBuf3Ptr, i>>
  BY DEF Exp!ReduceBase
<1>2. /\ call \in Calls /\ Exp!nLimbs > 0 /\ i \in Nat
      /\ HoldsOperands(mem, Exp!ExpValue \div Exp!PowerOfTwo[i])
      /\ basePtr = 0 /\ scratchBuf3Ptr = 5 * Exp!nLimbs
  BY <1>1 DEF OperandsInvariant, Busy
<1>3. HoldsOperands(mem, Exp!ExpValue \div Exp!PowerOfTwo[i']) /\ i' \in Nat /\ call' = call
  BY <1>1, <1>2
<1>4. Division(Exp!nLimbs, basePtr, Exp!scratchBuf1Ptr, Exp!scratchBuf2Ptr, scratchBuf3Ptr, "flip")
  BY <1>2 DEF Division, Exp!scratchBuf1Ptr, Exp!scratchBuf2Ptr
<1>5. basePtr' = 0 /\ scratchBuf3Ptr' = 5 * Exp!nLimbs  BY <1>1, <1>2
<1>6. DivisionBegins(mem, 0, 3 * Exp!nLimbs, 4 * Exp!nLimbs, 5 * Exp!nLimbs, "flip")
  BY <1>1, <1>2, <1>3, <1>4, <1>5 DEF DivisionBegins, Exp!scratchBuf1Ptr, Exp!scratchBuf2Ptr
<1> QED  BY <1>6 DEF SomeDivisionBegins

\* So does the product of the result and the base.
LEMMA MultiplyResultDivides ==
  ASSUME OperandsInvariant, Exp!MultiplyResult
  PROVE  /\ DivisionBegins(MemoryOfProduct, 3 * Exp!nLimbs, 0, 4 * Exp!nLimbs, 6 * Exp!nLimbs, "square")
         /\ SomeDivisionBegins
<1> DEFINE product == Exp!bigUIntMul(Exp!bigUIntLowerHalf(Exp!Number(Exp!resultPtr)),
                                     Exp!bigUIntLowerHalf(Exp!Number(basePtr)))
           m == Exp!Store(mem, Exp!scratchBuf1Ptr, product)
           e == Exp!ExpValue \div Exp!PowerOfTwo[i]
<1>1. /\ expPc = "loop"
      /\ Exp!bigUIntRem(m, Exp!scratchBuf1Ptr, scratchBuf3Ptr, Exp!scratchBuf2Ptr, Exp!resultPtr, "square")
      /\ UNCHANGED <<call, basePtr, scratchBuf3Ptr, i>>
  BY DEF Exp!MultiplyResult
<1>2. /\ call \in Calls /\ Exp!nLimbs > 0 /\ i \in Nat /\ HoldsOperands(mem, e)
      /\ basePtr = 5 * Exp!nLimbs /\ scratchBuf3Ptr = 0
  BY <1>1 DEF OperandsInvariant, Busy
<1>3. Exp!scratchBuf1Ptr = 3 * Exp!nLimbs /\ Exp!scratchBuf2Ptr = 4 * Exp!nLimbs
      /\ Exp!resultPtr = 6 * Exp!nLimbs
  BY DEF Exp!scratchBuf1Ptr, Exp!scratchBuf2Ptr, Exp!resultPtr
<1>4. product \in Words(Exp!nLimbs)
  <2>1. mem \in Memories(7 * Exp!nLimbs - 1)  BY <1>2 DEF HoldsOperands
  <2> QED  BY <1>2, <1>3, <2>1, ProductFits DEF Exp!Number
<1>5. m = MemoryOfProduct  BY DEF MemoryOfProduct
<1> HIDE DEF product, e
<1>6. HoldsOperands(m, e)
  <2>1. Exp!scratchBuf1Ptr \in {0, 3 * Exp!nLimbs, 4 * Exp!nLimbs, 5 * Exp!nLimbs, 6 * Exp!nLimbs}
    BY <1>3
  <2> QED  BY <1>2, <1>4, <2>1, StoredElsewhere
<1> HIDE DEF m
<1>7. HoldsOperands(m, Exp!ExpValue \div Exp!PowerOfTwo[i']) /\ i' \in Nat /\ call' = call
  BY <1>1, <1>2, <1>6 DEF e
<1>8. Division(Exp!nLimbs, Exp!scratchBuf1Ptr, scratchBuf3Ptr, Exp!scratchBuf2Ptr, Exp!resultPtr, "square")
  BY <1>2, <1>3 DEF Division
<1>9. basePtr' = 5 * Exp!nLimbs /\ scratchBuf3Ptr' = 0 /\ "square" # "flip"  BY <1>1, <1>2
<1>10. DivisionBegins(m, 3 * Exp!nLimbs, 0, 4 * Exp!nLimbs, 6 * Exp!nLimbs, "square")
  BY <1>1, <1>2, <1>3, <1>7, <1>8, <1>9 DEF DivisionBegins
<1> QED  BY <1>10, <1>5 DEF SomeDivisionBegins

\* And the square of the base, with the exponent shifted by one bit.
LEMMA SquareBaseDivides ==
  ASSUME OperandsInvariant, Exp!SquareBase
  PROVE  /\ DivisionBegins(MemoryOfSquare, 4 * Exp!nLimbs, 3 * Exp!nLimbs, 0, 5 * Exp!nLimbs, "loop")
         /\ SomeDivisionBegins
<1> DEFINE n == Exp!nLimbs
           top == 7 * n - 1
           low == Exp!bigUIntLowerHalf(Exp!Number(basePtr))
           product == Exp!bigUIntMul(low, low)
           number == Exp!Region(mem, n, n)
           half == Exp!bigUIntOneShiftRight(number)
           shifted == Exp!Store(mem, n, half)
           m == Exp!Store(shifted, Exp!scratchBuf2Ptr, product)
           e == Exp!ExpValue \div Exp!PowerOfTwo[i]
<1>1. /\ expPc = "square"
      /\ Exp!bigUIntRem(m, Exp!scratchBuf2Ptr, Exp!scratchBuf1Ptr, scratchBuf3Ptr, basePtr, "loop")
      /\ UNCHANGED <<call, basePtr, scratchBuf3Ptr>> /\ i' = i + 1
  BY DEF Exp!SquareBase, Exp!exponentStartPtr, Exp!Number
<1>2. /\ call \in Calls /\ n > 0 /\ i \in Nat /\ HoldsOperands(mem, e)
      /\ basePtr = 5 * n /\ scratchBuf3Ptr = 0
  BY <1>1 DEF OperandsInvariant, Busy
<1>3. Exp!scratchBuf1Ptr = 3 * n /\ Exp!scratchBuf2Ptr = 4 * n
  BY DEF Exp!scratchBuf1Ptr, Exp!scratchBuf2Ptr
<1>4. /\ n \in Nat /\ mem \in Memories(top) /\ Exp!Value(number) = e /\ mem[n] = 0
      /\ Exp!Region(mem, 2 * n, n) = Exp!modulus
  BY <1>2, OperandsInLimbs DEF HoldsOperands
<1>5. product \in Words(n)
  BY <1>2, <1>4, ProductFits DEF Exp!Number
<1>6. m = MemoryOfSquare  BY DEF MemoryOfSquare
<1> HIDE DEF n, product, e
<1>7. top \in Nat /\ n + n <= top + 1 /\ 2 * n + n <= top + 1 /\ 2 * n \in Nat  BY <1>2, <1>4
<1>8. number \in Words(n) /\ number[1] = 0
  <2>1. /\ number \in Words(n)
        /\ \A j \in 1 .. n : number[j] = mem[n + j - 1]
    BY <1>4, <1>7, RegionType
  <2>2. 1 \in 1 .. n /\ n + 1 - 1 = n  BY <1>2, <1>4
  <2>3. number[1] = mem[n + 1 - 1]  BY <2>1, <2>2
  <2> QED  BY <1>4, <2>1, <2>2, <2>3
<1> HIDE DEF number
<1>9. half \in Words(n) /\ Exp!Value(half) = Exp!Value(number) \div 2 /\ half[1] = 0
  BY <1>2, <1>4, <1>8, ShiftedRight DEF Words
<1> HIDE DEF half, top
<1>10. /\ shifted \in Memories(top) /\ SameOutside(mem, shifted, top, n, n)
      /\ Exp!Region(shifted, n, n) = half
  BY <1>4, <1>7, <1>9, Stored
<1> HIDE DEF shifted
<1>11. Exp!Region(shifted, 2 * n, n) = Exp!modulus
  <2>1. n + n <= 2 * n  BY <1>4
  <2>2. Exp!Region(shifted, 2 * n, n) = Exp!Region(mem, 2 * n, n)
    BY <1>4, <1>7, <1>10, <2>1, RegionKept
  <2> QED  BY <1>4, <2>2
<1>12. shifted[n] = 0
  <2>1. 1 \in 1 .. n /\ n + 1 - 1 = n  BY <1>2, <1>4
  <2>2. Exp!Region(shifted, n, n)[1] = shifted[n + 1 - 1]  BY <2>1 DEF Exp!Region
  <2> QED  BY <1>9, <1>10, <2>1, <2>2
<1>13. HoldsOperands(shifted, e \div 2)
  BY <1>4, <1>9, <1>10, <1>11, <1>12 DEF HoldsOperands, n, top
<1>14. HoldsOperands(m, e \div 2)
  <2>1. Exp!scratchBuf2Ptr \in {0, 3 * Exp!nLimbs, 4 * Exp!nLimbs, 5 * Exp!nLimbs, 6 * Exp!nLimbs}
    BY <1>3 DEF n
  <2> QED  BY <1>2, <1>5, <1>13, <2>1, StoredElsewhere DEF n
<1> HIDE DEF m
<1>15. e \div 2 = Exp!ExpValue \div Exp!PowerOfTwo[i']
  BY <1>1, <1>2, OperandsInLimbs, HalfOfQuotient DEF e
<1>16. i' \in Nat /\ call' = call  BY <1>1, <1>2
<1>17. Division(Exp!nLimbs, Exp!scratchBuf2Ptr, Exp!scratchBuf1Ptr, scratchBuf3Ptr, basePtr, "loop")
  BY <1>2, <1>3 DEF Division, n
<1>18. basePtr' = 5 * Exp!nLimbs /\ scratchBuf3Ptr' = 0 /\ "loop" # "flip"  BY <1>1, <1>2 DEF n
<1>19. HoldsOperands(m, Exp!ExpValue \div Exp!PowerOfTwo[i'])  BY <1>14, <1>15
<1>20. DivisionBegins(m, 4 * Exp!nLimbs, 3 * Exp!nLimbs, 0, 5 * Exp!nLimbs, "loop")
  BY <1>1, <1>2, <1>3, <1>16, <1>17, <1>18, <1>19 DEF DivisionBegins, n
<1> QED  BY <1>6, <1>20 DEF SomeDivisionBegins

\* Every step of a call of ModExp keeps the invariant.
LEMMA OperandsInvariantHolds ==
  MCSpec => []OperandsInvariant
<1>1. MCInit => OperandsInvariant
  <2>1. NoExp => OperandsInvariant  BY DEF NoExp, OperandsInvariant, Busy
  <2>2. Exp!Init => OperandsInvariant  BY DEF Exp!Init, OperandsInvariant, Busy
  <2> QED  BY <2>1, <2>2 DEF MCInit
<1>2. ASSUME OperandsInvariant, [MCNext]_<<vars, addVars, expVars>> PROVE OperandsInvariant'
  <2>1. CASE UNCHANGED expVars
    <3>1. /\ call' = call /\ expPc' = expPc /\ mem' = mem /\ basePtr' = basePtr
          /\ scratchBuf3Ptr' = scratchBuf3Ptr /\ i' = i /\ bd' = bd /\ frame' = frame
      BY <2>1 DEF expVars
    <3>2. HoldsOperands(mem, Exp!ExpValue \div Exp!PowerOfTwo[i])'
            = HoldsOperands(mem, Exp!ExpValue \div Exp!PowerOfTwo[i])
      BY <3>1, SameCall DEF HoldsOperands
    <3> QED  BY <1>2, <3>1, <3>2, SameCall DEF OperandsInvariant
  <2>2. CASE Exp!Next
    <3>1. ASSUME NEW bytes, Exp!Answer(bytes) PROVE OperandsInvariant'
      BY <3>1 DEF Exp!Answer, OperandsInvariant, Busy
    <3>2. CASE \/ Exp!ReturnEmpty \/ Exp!ReturnOneLimb \/ Exp!ReturnTrivialModulus
               \/ Exp!ReturnBaseOne \/ Exp!ReturnExponentZero \/ Exp!ReturnBaseZero \/ Exp!Finish
      BY <3>1, <3>2 DEF Exp!ReturnEmpty, Exp!ReturnOneLimb, Exp!ReturnTrivialModulus,
           Exp!ReturnBaseOne, Exp!ReturnExponentZero, Exp!ReturnBaseZero, Exp!Finish
    <3>3. CASE Exp!flip \/ Exp!SkipResult
      <4>1. /\ UNCHANGED <<call, mem, i>>
            /\ \/ expPc = "flip" /\ expPc' = "loop" /\ basePtr' = scratchBuf3Ptr /\ scratchBuf3Ptr' = basePtr
               \/ expPc = "loop" /\ expPc' = "square" /\ UNCHANGED <<basePtr, scratchBuf3Ptr>>
        BY <3>3 DEF Exp!flip, Exp!SkipResult
      <4>2. HoldsOperands(mem, Exp!ExpValue \div Exp!PowerOfTwo[i])'
              = HoldsOperands(mem, Exp!ExpValue \div Exp!PowerOfTwo[i])
        BY <4>1, SameCall DEF HoldsOperands
      <4>3. Exp!nLimbs' = Exp!nLimbs  BY <4>1, SameCall
      <4> QED  BY <1>2, <4>1, <4>2, <4>3 DEF OperandsInvariant, Busy
    <3>4. CASE Exp!Terminated  BY <2>1, <3>4 DEF Exp!Terminated, Exp!vars, expVars
    <3> QED
      BY <1>2, <2>2, <3>2, <3>3, <3>4, LoadEstablishes, RemPassKeeps, DivisionKeeps,
         ReduceBaseDivides, MultiplyResultDivides, SquareBaseDivides DEF Exp!Next
  <2>3. CASE UNCHANGED <<vars, addVars, expVars>>  BY <2>1, <2>3
  <2> QED  BY <1>2, <2>1, <2>2, <2>3 DEF MCNext
<1> QED  BY <1>1, <1>2, PTL DEF MCSpec

\* Whatever bigUIntShl writes past its destination, the modulus is the call's
\* and the exponent is the call's, shifted once for every pass begun.
THEOREM ModExpOperandsSurvive == MCSpec => []OperandsSurvive
<1>1. OperandsInvariant => OperandsSurvive
  <2> SUFFICES ASSUME OperandsInvariant, expPc \in Busy
               PROVE  /\ Exp!Value(Exp!Number(Exp!moduloStartPtr)) = Exp!ModValue
                      /\ Exp!Value(Exp!Number(Exp!exponentStartPtr)) = Exp!ExpValue \div Exp!PowerOfTwo[i]
    BY DEF OperandsSurvive, Exp!OperandsSurvive, Busy
  <2>1. call \in Calls /\ HoldsOperands(mem, Exp!ExpValue \div Exp!PowerOfTwo[i])
    BY DEF OperandsInvariant
  <2> QED
    BY <2>1, OperandsInLimbs
       DEF HoldsOperands, Exp!Number, Exp!moduloStartPtr, Exp!exponentStartPtr
<1> QED  BY <1>1, OperandsInvariantHolds, PTL

\* A number with a limb that is not zero is not zero.
LEMMA NumberIsPositive ==
  ASSUME NEW n \in Nat, NEW limbs \in Words(n), NEW j \in 1 .. n, limbs[j] > 0
  PROVE  Exp!Value(limbs) > 0
<1> DEFINE w == Exp!LIMB_SIZE_IN_BITS
           rest == [k_ \in 1 .. (n - j) |-> limbs[j + k_]]
<1>1. w \in Nat /\ Exp!LimbBase = Exp!PowerOfTwo[w] /\ Exp!LimbBase \in Nat
  BY Sizes DEF Exp!LimbBase
<1>2. limbs \in [1 .. n -> Nat]  BY Sizes DEF Words
<1>3. PICK f : Prefixes(n, limbs, Exp!LimbBase, f) /\ Exp!digitsValue(limbs, Exp!LimbBase) = f[n]
  BY <1>1, <1>2, DigitsValue
<1>4. f[j] > 0
  <2>1. f[j] = f[j - 1] * Exp!LimbBase + limbs[j] /\ f[j - 1] \in Nat /\ limbs[j] \in Nat
    BY <1>2, <1>3 DEF Prefixes
  <2>2. f[j - 1] * Exp!LimbBase \in Nat  BY <1>1, <2>1
  <2> QED  BY <2>1, <2>2
<1>5. /\ Digits(n, w, limbs, f) /\ IsSlice(rest, limbs, j, n) /\ j \in 0 .. n /\ n \in 0 .. n /\ j <= n
      /\ n - j \in Nat
  BY <1>1, <1>2, <1>3 DEF Digits, IsSlice
<1>6. f[n] = f[j] * Exp!PowerOfTwo[w * (n - j)] + Exp!digitsValue(rest, Exp!PowerOfTwo[w])
  <2> HIDE DEF w, rest
  <2> QED  BY <1>1, <1>5, Segment
<1>7. Exp!digitsValue(rest, Exp!PowerOfTwo[w]) \in Nat
  <2>1. rest \in [1 .. (n - j) -> Nat]  BY <1>2
  <2> DEFINE l == n - j
  <2>2. l \in Nat /\ rest \in [1 .. l -> Nat]  BY <1>5, <2>1
  <2> HIDE DEF l, rest
  <2>3. PICK g : Prefixes(l, rest, Exp!LimbBase, g) /\ Exp!digitsValue(rest, Exp!LimbBase) = g[l]
    BY <1>1, <2>2, DigitsValue
  <2> QED  BY <1>1, <2>2, <2>3 DEF Prefixes
<1>8. Exp!PowerOfTwo[w * (n - j)] \in Nat /\ Exp!PowerOfTwo[w * (n - j)] > 0
  <2>1. w * (n - j) \in Nat  BY <1>1, <1>5
  <2> QED  BY <2>1, PowerLaws
<1>9. f[j] * Exp!PowerOfTwo[w * (n - j)] > 0
  <2> HIDE DEF w
  <2>1. f[j] \in Nat  BY <1>3 DEF Prefixes
  <2> QED  BY <1>4, <1>8, <2>1
<1> QED
  <2>1. f[j] \in Nat /\ f[j] * Exp!PowerOfTwo[w * (n - j)] \in Int
    BY <1>3, <1>8 DEF Prefixes
  <2> HIDE DEF w, rest
  <2> QED  BY <1>3, <1>6, <1>7, <1>9, <2>1 DEF Exp!Value

\* The value of n limbs is below the power of the bits that they have.
LEMMA NumberIsBounded ==
  ASSUME NEW n \in Nat, NEW limbs \in Words(n)
  PROVE  /\ Exp!Value(limbs) \in Nat
         /\ Exp!Value(limbs) < Exp!PowerOfTwo[Exp!LIMB_SIZE_IN_BITS * n]
<1> DEFINE w == Exp!LIMB_SIZE_IN_BITS
<1>1. w \in Nat /\ Exp!LimbBase = Exp!PowerOfTwo[w] /\ Exp!LimbBase \in Nat
  BY Sizes DEF Exp!LimbBase
<1>2. limbs \in [1 .. n -> Nat] /\ limbs \in [1 .. n -> 0 .. (Exp!PowerOfTwo[w] - 1)]
  BY <1>1, Sizes DEF Words
<1>3. PICK f : Prefixes(n, limbs, Exp!PowerOfTwo[w], f)
               /\ Exp!digitsValue(limbs, Exp!PowerOfTwo[w]) = f[n]
  <2> DEFINE radix == Exp!PowerOfTwo[w]
  <2>1. radix \in Nat  BY <1>1
  <2> HIDE DEF radix
  <2>2. \E f : Prefixes(n, limbs, radix, f) /\ Exp!digitsValue(limbs, radix) = f[n]
    BY <1>2, <2>1, DigitsValue
  <2> QED  BY <2>2 DEF radix
<1> HIDE DEF w
<1>4. \A m \in 0 .. n : f[m] \in Nat /\ f[m] < Exp!PowerOfTwo[w * m]
  BY <1>1, <1>2, <1>3, PrefixBound
<1>5. n \in 0 .. n  OBVIOUS
<1> QED  BY <1>1, <1>3, <1>4, <1>5 DEF Exp!Value, w

(***************************************************************************)
(* Restoring division.                                                     *)
(***************************************************************************)

\* A dividend of as many bits as the shifted modulus is below its double.
LEMMA DividendIsCovered ==
  ASSUME NEW bits \in Nat, bits > 0, NEW shift \in Nat, NEW divisor \in Nat,
         divisor >= Exp!PowerOfTwo[bits - 1]
  PROVE  Exp!PowerOfTwo[shift + bits] <= divisor * Exp!PowerOfTwo[shift + 1]
<1> DEFINE half == bits - 1
           l == shift + 1
<1>1. half \in Nat /\ l \in Nat /\ shift + bits = half + l  OBVIOUS
<1>2. divisor >= Exp!PowerOfTwo[half]  OBVIOUS
<1> HIDE DEF half, l
<1>3. Exp!PowerOfTwo[half + l] = Exp!PowerOfTwo[half] * Exp!PowerOfTwo[l]  BY <1>1, PowerSum
<1>4. Exp!PowerOfTwo[half] \in Nat /\ Exp!PowerOfTwo[l] \in Nat  BY <1>1, PowerLaws
<1> DEFINE a == Exp!PowerOfTwo[half]
           c == Exp!PowerOfTwo[l]
<1>5. a \in Nat /\ c \in Nat /\ divisor >= a  BY <1>2, <1>4
<1> HIDE DEF a, c
<1>6. (divisor - a) * c >= 0 /\ (divisor - a) * c = divisor * c - a * c  BY <1>5
<1>7. a * c \in Int /\ divisor * c \in Int  BY <1>5
<1>8. a * c <= divisor * c  BY <1>6, <1>7
<1> QED  BY <1>1, <1>3, <1>8 DEF a, c, l

\* Subtracting a multiple of the modulus keeps the remainder.
LEMMA SameAfterSubtraction ==
  ASSUME NEW p \in Nat, p > 0, NEW number \in Int, NEW times \in Int
  PROVE  (number - p * times) % p = number % p
<1> DEFINE u == number \div p
           v == number % p
<1>1. u \in Int /\ v \in 0 .. (p - 1) /\ number = p * u + v  BY DivMod
<1> HIDE DEF u, v
<1>2. number - p * times = p * (u - times) + v
  <2>1. p * (u - times) = p * u - p * times  BY <1>1
  <2>2. p * u \in Int /\ p * times \in Int  BY <1>1
  <2> QED  BY <1>1, <2>1, <2>2
<1>3. (p * (u - times) + v) % p = v  BY <1>1, DivModUnique
<1> QED  BY <1>2, <1>3 DEF v

(* The number that a pass starts with, by how far the divisor is shifted:  *)
(* congruent to the dividend, and less than twice the shifted divisor.     *)
Partial(number, shiftedDivisor, divisor, shift, whole) ==
  /\ shiftedDivisor = divisor * Exp!PowerOfTwo[shift]
  /\ number % divisor = whole % divisor
  /\ number < divisor * Exp!PowerOfTwo[shift + 1]

\* A pass that loses no borrow keeps that, for the divisor shifted back by one bit:
\* difference and borrow are what the subtraction gives, over space.
LEMMA PassIsPartial ==
  ASSUME NEW number \in Nat, NEW shiftedDivisor \in Nat, NEW divisor \in Nat, divisor > 0,
         NEW shift \in Nat, shift > 0, NEW whole,
         Partial(number, shiftedDivisor, divisor, shift, whole),
         NEW space \in Nat, NEW difference \in Nat, difference < space, NEW borrow \in {0, 1},
         difference - borrow * space = number - shiftedDivisor
  PROVE  Partial(IF borrow = 0 THEN difference ELSE number, shiftedDivisor \div 2,
                 divisor, shift - 1, whole)
<1> DEFINE before == shift - 1
           a == Exp!PowerOfTwo[before]
<1>1. before \in Nat /\ before + 1 = shift  OBVIOUS
<1>2. a \in Nat /\ a > 0 /\ Exp!PowerOfTwo[shift] = 2 * a
  <2> HIDE DEF before
  <2>1. Exp!PowerOfTwo[before + 1] = 2 * Exp!PowerOfTwo[before] /\ a \in Nat /\ a > 0
    BY <1>1, PowerLaws
  <2> QED  BY <1>1, <2>1
<1>3. Exp!PowerOfTwo[shift + 1] = 2 * (2 * a)  BY <1>2, PowerLaws
<1>4. /\ shiftedDivisor = divisor * (2 * a)
      /\ number % divisor = whole % divisor
      /\ number < divisor * (2 * (2 * a))
  BY <1>2, <1>3 DEF Partial
<1>5. Exp!PowerOfTwo[before + 1] = 2 * a  BY <1>1, <1>2
<1> HIDE DEF a, before
<1> DEFINE b == divisor * a
<1>6. b \in Nat /\ divisor * (2 * a) = 2 * b /\ divisor * (2 * (2 * a)) = 2 * (2 * b)
  <2>1. \A d, e \in Nat : d * e \in Nat /\ d * (2 * e) = 2 * (d * e) /\ d * (2 * (2 * e)) = 2 * (2 * (d * e))
    OBVIOUS
  <2> QED  BY <1>2, <2>1
<1>7. shiftedDivisor \div 2 = b
  <2> HIDE DEF b
  <2> QED  BY <1>4, <1>6
<1>8. CASE borrow = 0
  <2>1. difference = number - divisor * (2 * a)
    <3> DEFINE c == divisor * (2 * a)
    <3>1. c \in Int  BY <1>6
    <3> HIDE DEF c
    <3> DEFINE e == borrow * space
    <3>2. e = 0  BY <1>8
    <3> HIDE DEF e
    <3>3. difference - e = number - c  BY <1>4 DEF c, e
    <3> QED  BY <3>1, <3>2, <3>3 DEF c
  <2>2. 2 * a \in Int /\ number \in Int  BY <1>2
  <2>3. (number - divisor * (2 * a)) % divisor = number % divisor
    BY <2>2, SameAfterSubtraction
  <2>4. difference < 2 * b
    <3> HIDE DEF b
    <3>1. difference = number - 2 * b  BY <1>6, <2>1
    <3>2. number < 2 * (2 * b)  BY <1>4, <1>6
    <3> QED  BY <1>6, <3>1, <3>2
  <2> QED  BY <1>4, <1>5, <1>6, <1>7, <1>8, <2>1, <2>3, <2>4 DEF Partial, before, a
<1>9. CASE borrow = 1
  <2>1. number < 2 * b
    <3> HIDE DEF b
    <3>1. borrow * space = space  BY <1>9
    <3>2. difference - space = number - 2 * b  BY <1>4, <1>6, <3>1
    <3> QED  BY <1>6, <3>2
  <2> QED  BY <1>4, <1>5, <1>6, <1>7, <1>9, <2>1 DEF Partial, before, a
<1> QED  BY <1>8, <1>9

(***************************************************************************)
(* The modulus of a call that is past its special cases is not zero, and   *)
(* while no division was spoilt the one that runs is at a partial          *)
(* remainder.                                                              *)
(***************************************************************************)
RemainderInvariant ==
  /\ expPc \in Busy => Exp!ModValue > 0
  /\ expPc = "rem" /\ exact =>
       Partial(Exp!Value(Exp!Number(frame.rem_ptr)), Exp!Value(Exp!Number(frame.tmp_ptr_1)),
               Exp!ModValue, bd, dividend)

\* Only a modulus that is not zero gets past the special cases.
LEMMA LoadedModulusIsPositive ==
  ASSUME OperandsInvariant, Exp!Load
  PROVE  Exp!ModValue > 0 /\ call' = call /\ expPc' = "reduceBase"
<1> DEFINE n == Exp!nLimbs
           limbs == Exp!modulus
<1>1. expPc = "start" /\ Exp!bigUIntIsGreaterThanOne(limbs) /\ call' = call /\ expPc' = "reduceBase"
  BY DEF Exp!Load, Exp!General
<1>2. call \in Calls  BY <1>1 DEF OperandsInvariant
<1>3. n \in Nat /\ limbs \in Words(n) /\ Exp!Value(limbs) = Exp!ModValue
  BY <1>2, OperandsInLimbs
<1>4. n > 0
  <2>1. PICK h \in Nat : n = 2 * h /\ Exp!bigIntLimbs(Len(call.exp)) <= h  BY <1>2, Layout
  <2>2. call.exp \in Seq(Exp!Byte) /\ ~Exp!callDataBufferIsZero(call.exp)
    BY <1>2, Layout DEF Exp!Load
  <2>3. Len(call.exp) \in Nat /\ Len(call.exp) > 0
    BY <2>2 DEF Exp!callDataBufferIsZero
  <2>4. Exp!bigIntLimbs(Len(call.exp)) \in Nat /\ Exp!bigIntLimbs(Len(call.exp)) > 0
    BY <2>3, LimbsNeeded
  <2> QED  BY <2>1, <2>4
<1> HIDE DEF n, limbs
<1>5. Len(limbs) = n  BY <1>3 DEF Words
<1>6. \E j \in 1 .. n : limbs[j] > 0
  <2>1. CASE Exp!Last(limbs) > 1
    <3>1. n \in 1 .. n /\ limbs[n] > 1  BY <1>3, <1>4, <1>5, <2>1 DEF Exp!Last
    <3>2. limbs[n] \in Nat  BY <1>3, <3>1, Sizes DEF Words
    <3> QED  BY <3>1, <3>2
  <2>2. CASE \E j \in 1 .. (Len(limbs) - 1) : limbs[j] > 0
    BY <1>3, <1>5, <2>2
  <2> QED  BY <1>1, <2>1, <2>2 DEF Exp!bigUIntIsGreaterThanOne
<1> QED  BY <1>1, <1>3, <1>6, NumberIsPositive

\* A division that begins with a length that covers its dividend and a shifted
\* modulus that lost no bits is at a partial remainder.
LEMMA DivisionIsPartial ==
  ASSUME SomeDivisionBegins, Exp!ModValue > 0, expPc' = "rem", exact'
  PROVE  exact /\ Partial(Exp!Value(Exp!Number(frame.rem_ptr)), Exp!Value(Exp!Number(frame.tmp_ptr_1)),
                          Exp!ModValue, bd, dividend)'
<1> PICK m, dividendPtr, first, second, remPtr, returnTo :
      DivisionBegins(m, dividendPtr, first, second, remPtr, returnTo)
  BY DEF SomeDivisionBegins
<1>1. /\ call \in Calls /\ Exp!nLimbs > 0 /\ call' = call
      /\ m \in Memories(7 * Exp!nLimbs - 1) /\ m[Exp!nLimbs] = 0
      /\ Division(Exp!nLimbs, dividendPtr, first, second, remPtr, returnTo)
      /\ Exp!bigUIntRem(m, dividendPtr, first, second, remPtr, returnTo)
  BY DEF DivisionBegins, HoldsOperands
<1> DEFINE n == Exp!nLimbs
           number == Exp!Region(m, dividendPtr, n)
           size == Exp!bigIntLimbsWithoutZeros(number)
           counted == Exp!LIMB_SIZE_IN_BITS * size
           difference == counted - Exp!modulusBitSize
<1>2. /\ dividend' = Exp!Value(number)
      /\ difference >= 0 /\ bd' = difference
      /\ exact' = (/\ exact
                   /\ dividend' < Exp!PowerOfTwo[counted]
                   /\ Exp!Value(Exp!Region(mem', first, n)) = Exp!Value(Exp!modulus) * Exp!PowerOfTwo[difference])
  BY <1>1 DEF Exp!bigUIntRem
<1>3. /\ Exp!Region(mem', remPtr, n) = number
      /\ frame' = [tmp_ptr_1 |-> first, tmp_ptr_2 |-> second, rem_ptr |-> remPtr, returnTo |-> returnTo]
  BY <1>1, DivisionStarts
<1>4. /\ exact
      /\ dividend' < Exp!PowerOfTwo[counted]
      /\ Exp!Value(Exp!Region(mem', first, n)) = Exp!Value(Exp!modulus) * Exp!PowerOfTwo[difference]
  BY <1>2
<1>5. /\ n \in Nat /\ Exp!modulus \in Words(n) /\ Exp!Value(Exp!modulus) = Exp!ModValue
      /\ Exp!ModValue \in Nat
  BY <1>1, OperandsInLimbs
<1>6. /\ Exp!modulusBitSize \in Nat /\ Exp!modulusBitSize > 0
      /\ Exp!ModValue >= Exp!PowerOfTwo[Exp!modulusBitSize - 1]
  BY <1>5, BitsOfNumber DEF Exp!modulusBitSize
<1>7. number \in Words(n)
  <2> HIDE DEF n
  <2>1. Division(n, dividendPtr, first, second, remPtr, returnTo) /\ m \in Memories(7 * n - 1) /\ n > 0
    BY <1>1 DEF n
  <2>2. dividendPtr \in Nat /\ dividendPtr + n <= (7 * n - 1) + 1 /\ 7 * n - 1 \in Nat
    BY <1>5, <2>1 DEF Division
  <2> QED  BY <1>5, <2>1, <2>2, RegionType
<1>8. counted \in Nat
  <2>1. Len(number) = n  BY <1>5, <1>7 DEF Words
  <2> HIDE DEF number, n
  <2>2. size \in 0 .. n  BY <1>5, <2>1, CountedLimbs
  <2> HIDE DEF size
  <2>3. size \in Nat  BY <1>5, <2>2
  <2> QED  BY <2>3, Sizes
<1> HIDE DEF counted, size
<1>9. difference \in Nat /\ difference + Exp!modulusBitSize = counted  BY <1>2, <1>6, <1>8
<1> HIDE DEF difference
<1>10. Exp!PowerOfTwo[counted] <= Exp!ModValue * Exp!PowerOfTwo[difference + 1]
  <2>1. Exp!PowerOfTwo[difference + Exp!modulusBitSize] <= Exp!ModValue * Exp!PowerOfTwo[difference + 1]
    BY <1>5, <1>6, <1>9, DividendIsCovered
  <2> QED  BY <1>9, <2>1
<1>11. dividend' < Exp!ModValue * Exp!PowerOfTwo[difference + 1]
  <2>1. dividend' \in Nat  BY <1>2, <1>5, <1>7, BitsOfNumber
  <2>2. Exp!PowerOfTwo[counted] \in Nat /\ Exp!PowerOfTwo[difference + 1] \in Nat
    BY <1>8, <1>9, PowerLaws
  <2> DEFINE a == Exp!PowerOfTwo[counted]
             c == Exp!ModValue * Exp!PowerOfTwo[difference + 1]
  <2>3. a \in Nat /\ c \in Nat  BY <1>5, <2>2
  <2>4. dividend' < a /\ a <= c  BY <1>4, <1>10
  <2> HIDE DEF a, c
  <2>5. dividend' < c  BY <2>1, <2>3, <2>4
  <2> QED  BY <2>5 DEF c
<1>12. /\ Exp!Number(frame.rem_ptr)' = number
       /\ Exp!Number(frame.tmp_ptr_1)' = Exp!Region(mem', first, n)
  <2>1. Exp!nLimbs' = n  BY <1>1, SameCall
  <2>2. frame'.rem_ptr = remPtr /\ frame'.tmp_ptr_1 = first  BY <1>3
  <2> HIDE DEF n, number
  <2> QED  BY <1>3, <2>1, <2>2 DEF Exp!Number
<1>13. Exp!ModValue' = Exp!ModValue  BY <1>1, SameCall
<1>14. /\ Exp!Value(Exp!Number(frame.rem_ptr)') = dividend'
       /\ Exp!Value(Exp!Number(frame.tmp_ptr_1)') = Exp!ModValue' * Exp!PowerOfTwo[bd']
       /\ dividend' < Exp!ModValue' * Exp!PowerOfTwo[bd' + 1]
  BY <1>2, <1>4, <1>5, <1>11, <1>12, <1>13
<1> QED  BY <1>4, <1>14 DEF Partial

\* A pass of the loop keeps the remainder partial while no borrow is lost.
LEMMA RemPassIsPartial ==
  ASSUME OperandsInvariant, RemainderInvariant, Exp!RemPass
  PROVE  RemainderInvariant'
<1> DEFINE n == Exp!nLimbs
           top == 7 * n - 1
           r_ == Exp!bigUIntSubWithBorrow(Exp!Number(frame.rem_ptr), Exp!Number(frame.tmp_ptr_1))
           stored == Exp!Store(mem, frame.tmp_ptr_2, r_.difference)
           subtracted == IF r_.borrow = 0 THEN Exp!Store(stored, frame.rem_ptr, r_.difference)
                         ELSE stored
           half == Exp!bigUIntOneShiftRight(Exp!Number(frame.tmp_ptr_1))
           number == Exp!Number(frame.rem_ptr)
           shifted == Exp!Number(frame.tmp_ptr_1)
           left == IF r_.borrow = 0 THEN r_.difference ELSE number
           space == Exp!PowerOfTwo[Exp!LIMB_SIZE_IN_BITS * n]
<1>1. /\ expPc = "rem" /\ exact' = (exact /\ Exp!BorrowsAreKept)
      /\ \/ bd = 0 /\ expPc' = frame.returnTo
         \/ /\ bd > 0 /\ expPc' = expPc /\ bd' = bd - 1
            /\ mem' = Exp!Store(subtracted, frame.tmp_ptr_1, half)
      /\ UNCHANGED <<call, frame, dividend>>
  BY DEF Exp!RemPass
<1>2. /\ call \in Calls /\ n > 0 /\ bd \in Nat /\ n \in Nat /\ mem \in Memories(top)
      /\ \E dividendPtr : Division(n, dividendPtr, frame.tmp_ptr_1, frame.tmp_ptr_2,
                                   frame.rem_ptr, frame.returnTo)
  <2>1. call \in Calls  BY <1>1 DEF OperandsInvariant, Busy
  <2> QED  BY <1>1, <2>1, OperandsInLimbs DEF OperandsInvariant, Busy, HoldsOperands
<1>3. Exp!ModValue > 0 /\ Exp!ModValue' = Exp!ModValue /\ Exp!ModValue \in Nat /\ n' = n
  BY <1>1, <1>2, SameCall, OperandsInLimbs DEF RemainderInvariant, Busy
<1>4. CASE bd = 0 /\ expPc' = frame.returnTo
  <2>1. frame.returnTo # "rem"  BY <1>2 DEF Division
  <2> QED  BY <1>3, <1>4, <2>1 DEF RemainderInvariant
<1>5. CASE ~exact'
  BY <1>3, <1>5 DEF RemainderInvariant
<1>6. CASE /\ bd > 0 /\ expPc' = expPc /\ bd' = bd - 1 /\ exact'
           /\ mem' = Exp!Store(subtracted, frame.tmp_ptr_1, half)
  <2>1. exact /\ Exp!BorrowsAreKept  BY <1>1, <1>6
  <2>2. Partial(Exp!Value(number), Exp!Value(shifted), Exp!ModValue, bd, dividend)
    BY <1>1, <2>1 DEF RemainderInvariant
  <2>3. Exp!Value(r_.difference) - r_.borrow * space = Exp!Value(number) - Exp!Value(shifted)
    BY <2>1 DEF Exp!BorrowsAreKept
  <2> DEFINE one == frame.tmp_ptr_1
             two == frame.tmp_ptr_2
             rem == frame.rem_ptr
  <2>4. /\ one \in Nat /\ two \in Nat /\ rem \in Nat /\ top \in Nat
        /\ one + n <= top + 1 /\ two + n <= top + 1 /\ rem + n <= top + 1
        /\ one + n <= rem /\ two + n <= rem /\ (one + n <= two \/ two + n <= one)
    <3> HIDE DEF n
    <3>1. \/ one = 3 * n /\ two = 4 * n /\ rem = 5 * n
          \/ one = 0 /\ two = 4 * n /\ rem = 6 * n
          \/ one = 3 * n /\ two = 0 /\ rem = 5 * n
      BY <1>2 DEF Division
    <3> HIDE DEF one, two, rem
    <3> QED  BY <1>2, <3>1
  <2>5. /\ number \in Words(n) /\ shifted \in Words(n)
        /\ number = Exp!Region(mem, rem, n) /\ shifted = Exp!Region(mem, one, n)
    <3>1. number = Exp!Region(mem, rem, n) /\ shifted = Exp!Region(mem, one, n)
      BY DEF Exp!Number
    <3> HIDE DEF n, top, one, two, rem, number, shifted
    <3> QED  BY <1>2, <2>4, <3>1, RegionType
  <2>6. r_.difference \in Words(n) /\ r_.borrow \in {0, 1}  BY <1>2, <2>5, Subtracted
  <2>7. half \in Words(n) /\ Exp!Value(half) = Exp!Value(shifted) \div 2
    BY <1>2, <2>5, ShiftedRight DEF Words
  <2> HIDE DEF r_
  <2>8. Exp!Value(left) = IF r_.borrow = 0 THEN Exp!Value(r_.difference) ELSE Exp!Value(number)
    OBVIOUS
  <2>9. Partial(Exp!Value(left), Exp!Value(half), Exp!ModValue, bd - 1, dividend)
    <3> DEFINE v == Exp!Value(number)  w == Exp!Value(shifted)  d == Exp!Value(r_.difference)
    <3>1. v \in Nat /\ w \in Nat /\ d \in Nat /\ d < space
      <4> HIDE DEF n, number, shifted
      <4> QED  BY <1>2, <2>5, <2>6, NumberIsBounded DEF n
    <3>2. space \in Nat
      <4>1. Exp!LIMB_SIZE_IN_BITS * n \in Nat
        <5> HIDE DEF n
        <5> QED  BY <1>2, Sizes
      <4> QED  BY <4>1, PowerLaws
    <3>3. Partial(v, w, Exp!ModValue, bd, dividend) /\ d - r_.borrow * space = v - w
      BY <2>2, <2>3
    <3> HIDE DEF v, w, d, space
    <3>4. Partial(IF r_.borrow = 0 THEN d ELSE v, w \div 2, Exp!ModValue, bd - 1, dividend)
      BY <1>2, <1>3, <1>6, <2>6, <3>1, <3>2, <3>3, PassIsPartial
    <3> QED  BY <2>7, <2>8, <3>4 DEF v, w, d
  <2> HIDE DEF n, top, one, two, rem, number, shifted, half
  <2>10. stored \in Memories(top) /\ SameOutside(mem, stored, top, two, n)
    BY <1>2, <2>4, <2>6, Stored DEF two
  <2>11. Exp!Region(stored, rem, n) = number
    BY <1>2, <2>4, <2>5, <2>10, RegionKept
  <2> HIDE DEF stored
  <2>12. subtracted \in Memories(top) /\ Exp!Region(subtracted, rem, n) = left
    <3>1. CASE r_.borrow = 0
      <4>1. subtracted = Exp!Store(stored, rem, r_.difference) /\ left = r_.difference
        BY <3>1 DEF rem
      <4> QED  BY <1>2, <2>4, <2>6, <2>10, <4>1, Stored
    <3>2. CASE r_.borrow # 0
      <4>1. subtracted = stored /\ left = number  BY <3>2
      <4> QED  BY <2>10, <2>11, <4>1
    <3> QED  BY <3>1, <3>2
  <2> HIDE DEF subtracted, left
  <2>13. /\ mem' \in Memories(top) /\ SameOutside(subtracted, mem', top, one, n)
         /\ Exp!Region(mem', one, n) = half
    BY <1>2, <1>6, <2>4, <2>7, <2>12, Stored DEF one
  <2>14. Exp!Region(mem', rem, n) = left
    BY <1>2, <2>4, <2>12, <2>13, RegionKept
  <2>15. Exp!Number(frame.rem_ptr)' = left /\ Exp!Number(frame.tmp_ptr_1)' = half
    BY <1>1, <1>3, <2>13, <2>14 DEF Exp!Number, n, one, rem
  <2> QED  BY <1>1, <1>3, <1>6, <2>9, <2>15 DEF RemainderInvariant
<1> QED  BY <1>1, <1>4, <1>5, <1>6

\* Every step of a call of ModExp keeps the invariant.
LEMMA RemainderInvariantHolds ==
  MCSpec => []RemainderInvariant
<1>1. MCInit => RemainderInvariant
  <2>1. NoExp => RemainderInvariant  BY DEF NoExp, RemainderInvariant, Busy
  <2>2. Exp!Init => RemainderInvariant  BY DEF Exp!Init, RemainderInvariant, Busy
  <2> QED  BY <2>1, <2>2 DEF MCInit
<1>2. ASSUME OperandsInvariant, RemainderInvariant, [MCNext]_<<vars, addVars, expVars>>
      PROVE  RemainderInvariant'
  <2>1. CASE UNCHANGED expVars
    <3>1. /\ call' = call /\ expPc' = expPc /\ mem' = mem /\ bd' = bd /\ frame' = frame
          /\ dividend' = dividend /\ exact' = exact
      BY <2>1 DEF expVars
    <3>2. Exp!nLimbs' = Exp!nLimbs /\ Exp!ModValue' = Exp!ModValue  BY <3>1, SameCall
    <3>3. /\ Exp!Number(frame.rem_ptr)' = Exp!Number(frame.rem_ptr)
          /\ Exp!Number(frame.tmp_ptr_1)' = Exp!Number(frame.tmp_ptr_1)
      BY <3>1, <3>2 DEF Exp!Number
    <3> QED  BY <1>2, <3>1, <3>2, <3>3 DEF RemainderInvariant
  <2>2. CASE Exp!Next
    <3>1. ASSUME call' = call, expPc' # "rem", expPc' \in Busy => expPc \in Busy
          PROVE  RemainderInvariant'
      BY <1>2, <3>1, SameCall DEF RemainderInvariant
    <3>2. ASSUME NEW bytes, Exp!Answer(bytes) PROVE RemainderInvariant'
      BY <3>1, <3>2 DEF Exp!Answer, Busy
    <3>3. CASE \/ Exp!ReturnEmpty \/ Exp!ReturnOneLimb \/ Exp!ReturnTrivialModulus
               \/ Exp!ReturnBaseOne \/ Exp!ReturnExponentZero \/ Exp!ReturnBaseZero \/ Exp!Finish
      BY <3>2, <3>3 DEF Exp!ReturnEmpty, Exp!ReturnOneLimb, Exp!ReturnTrivialModulus,
           Exp!ReturnBaseOne, Exp!ReturnExponentZero, Exp!ReturnBaseZero, Exp!Finish
    <3>4. CASE Exp!flip \/ Exp!SkipResult
      BY <3>1, <3>4 DEF Exp!flip, Exp!SkipResult, Busy
    <3>5. CASE Exp!Load
      <4>1. Exp!ModValue > 0 /\ call' = call /\ expPc' = "reduceBase"
        BY <1>2, <3>5, LoadedModulusIsPositive
      <4> QED  BY <4>1, SameCall DEF RemainderInvariant
    <3>6. CASE Exp!ReduceBase \/ Exp!MultiplyResult \/ Exp!SquareBase
      <4>1. SomeDivisionBegins
        BY <1>2, <3>6, ReduceBaseDivides, MultiplyResultDivides, SquareBaseDivides
      <4>2. expPc \in Busy  BY <3>6 DEF Exp!ReduceBase, Exp!MultiplyResult, Exp!SquareBase, Busy
      <4>3. call' = call  BY <4>1 DEF SomeDivisionBegins, DivisionBegins
      <4>4. Exp!ModValue > 0 /\ Exp!ModValue' = Exp!ModValue
        BY <1>2, <4>2, <4>3, SameCall DEF RemainderInvariant
      <4> QED  BY <4>1, <4>4, DivisionIsPartial DEF RemainderInvariant
    <3>7. CASE Exp!Terminated  BY <2>1, <3>7 DEF Exp!Terminated, Exp!vars, expVars
    <3> QED
      BY <1>2, <2>2, <3>3, <3>4, <3>5, <3>6, <3>7, RemPassIsPartial DEF Exp!Next
  <2>3. CASE UNCHANGED <<vars, addVars, expVars>>  BY <2>1, <2>3
  <2> QED  BY <1>2, <2>1, <2>2, <2>3 DEF MCNext
<1> QED  BY <1>1, <1>2, OperandsInvariantHolds, PTL DEF MCSpec

\* While no remainder was spoilt, every pass of bigUIntRem leaves a number congruent
\* to the dividend and below twice the shifted modulus, which is modulus * 2^bd.
THEOREM ModExpRemainderIsPartial == MCSpec => []RemainderIsPartial
<1>1. RemainderInvariant => RemainderIsPartial
  BY DEF RemainderInvariant, Partial, RemainderIsPartial, Exp!RemainderIsPartial
<1> QED  BY <1>1, RemainderInvariantHolds, PTL

-----------------------------------------------------------------------------
(***************************************************************************)
(* Powers.                                                                 *)
(***************************************************************************)

\* Each power is the base times the one before it.
LEMMA PowersOfBase ==
  ASSUME NEW b \in Nat
  PROVE  /\ Exp!ToThe(b, 0) = 1
         /\ \A e \in Nat : Exp!ToThe(b, e) \in Nat /\ Exp!ToThe(b, e + 1) = b * Exp!ToThe(b, e)
<1> DEFINE step == [n \in Nat |-> [m \in Nat |-> b * m]]
<1>1. step \in [Nat -> [Nat -> Nat]] /\ \A n, m \in Nat : step[n][m] = b * m
  <2>1. \A m \in Nat : b * m \in Nat  OBVIOUS
  <2> QED  BY <2>1
<1> HIDE DEF step
<1>2. PICK f \in [Nat -> Nat] : f[0] = 1 /\ \A n \in Nat : f[n + 1] = step[n][f[n]]
  <2>1. 1 \in Nat  OBVIOUS
  <2>2. \A base \in Nat : \A stp \in [Nat -> [Nat -> Nat]] :
          \E f \in [Nat -> Nat] : f[0] = base /\ \A n \in Nat : f[n + 1] = stp[n][f[n]]
    BY NumberRecursion
  <2>3. \E f \in [Nat -> Nat] : f[0] = 1 /\ \A n \in Nat : f[n + 1] = step[n][f[n]]
    BY <1>1, <2>1, <2>2
  <2> QED  BY <2>3
<1> DEFINE IsIt(g) == g = [n \in Nat |-> IF n = 0 THEN 1 ELSE b * g[n - 1]]
           g == CHOOSE h : IsIt(h)
<1>3. IsIt(f)
  <2>1. \A n \in Nat : f[n] = IF n = 0 THEN 1 ELSE b * f[n - 1]
    <3> SUFFICES ASSUME NEW n \in Nat, n # 0 PROVE f[n] = b * f[n - 1]
      BY <1>2
    <3>1. n - 1 \in Nat /\ (n - 1) + 1 = n  OBVIOUS
    <3>2. f[(n - 1) + 1] = step[n - 1][f[n - 1]] /\ f[n - 1] \in Nat  BY <1>2, <3>1
    <3> QED  BY <1>1, <3>1, <3>2
  <2>2. f = [n \in Nat |-> f[n]]  OBVIOUS
  <2> QED  BY <2>1, <2>2
<1>4. \A e : Exp!ToThe(b, e) = g[e]  BY DEF Exp!ToThe
<1>5. IsIt(g)
  <2> HIDE DEF IsIt
  <2> QED  BY <1>3
<1> HIDE DEF g
<1>6. \A n \in Nat : g[n] = IF n = 0 THEN 1 ELSE b * g[n - 1]
  <2> DEFINE value(n) == IF n = 0 THEN 1 ELSE b * g[n - 1]
  <2>1. g = [n \in Nat |-> value(n)]  BY <1>5
  <2> HIDE DEF value
  <2>2. \A n \in Nat : g[n] = value(n)  BY <2>1
  <2> QED  BY <2>2 DEF value
<1>7. \A n \in Nat : g[n + 1] = b * g[n]
  <2> SUFFICES ASSUME NEW n \in Nat PROVE g[n + 1] = b * g[n]
    OBVIOUS
  <2>1. n + 1 \in Nat /\ n + 1 # 0 /\ (n + 1) - 1 = n  OBVIOUS
  <2> QED  BY <1>6, <2>1
<1> DEFINE S == {n \in Nat : g[n] \in Nat}
<1>8. 0 \in S  BY <1>6
<1>9. ASSUME NEW n \in S PROVE n + 1 \in S
  <2>1. n \in Nat /\ g[n] \in Nat /\ g[n + 1] = b * g[n]  BY <1>7
  <2>2. b * g[n] \in Nat  BY <2>1
  <2> QED  BY <2>1, <2>2
<1> HIDE DEF S
<1>10. Nat \subseteq S  BY <1>8, <1>9, SetInduction
<1> QED  BY <1>4, <1>6, <1>7, <1>10 DEF S

\* A power of the square is a power of twice the exponent.
LEMMA PowerOfSquare ==
  ASSUME NEW b \in Nat, NEW e \in Nat
  PROVE  Exp!ToThe(b, 2 * e) = Exp!ToThe(b * b, e)
<1> DEFINE P1(z) == Exp!ToThe(b, z)
           P2(z) == Exp!ToThe(b * b, z)
           S == {z \in Nat : P1(2 * z) = P2(z)}
<1>0. b * b \in Nat  OBVIOUS
<1>1. P1(0) = 1 /\ \A z \in Nat : P1(z) \in Nat /\ P1(z + 1) = b * P1(z)  BY PowersOfBase
<1>2. P2(0) = 1 /\ \A z \in Nat : P2(z) \in Nat /\ P2(z + 1) = (b * b) * P2(z)
  BY <1>0, PowersOfBase
<1> HIDE DEF P1, P2
<1>3. 0 \in S  BY <1>1, <1>2
<1>4. ASSUME NEW z \in S PROVE z + 1 \in S
  <2>1. z \in Nat /\ P1(2 * z) = P2(z) /\ 2 * z \in Nat /\ 2 * z + 1 \in Nat
        /\ 2 * (z + 1) = (2 * z + 1) + 1
    OBVIOUS
  <2>2. P1((2 * z + 1) + 1) = b * (b * P1(2 * z))  BY <1>1, <2>1
  <2>3. P1(2 * z) \in Nat  BY <1>1, <2>1
  <2>4. b * (b * P1(2 * z)) = (b * b) * P1(2 * z)  BY <2>3
  <2>5. P1(2 * (z + 1)) = P2(z + 1)  BY <1>2, <2>1, <2>2, <2>4
  <2> QED  BY <2>1, <2>5
<1> HIDE DEF S
<1>5. e \in S  BY <1>3, <1>4, SetInduction
<1> QED  BY <1>5 DEF S, P1, P2

\* A power by the lowest bit of the exponent and the rest of it.
LEMMA PowerByBit ==
  ASSUME NEW b \in Nat, NEW e \in Nat
  PROVE  Exp!ToThe(b, e) = IF e % 2 = 1 THEN b * Exp!ToThe(b * b, e \div 2)
                           ELSE Exp!ToThe(b * b, e \div 2)
<1> DEFINE h == e \div 2
<1>1. h \in Nat /\ (e = 2 * h \/ e = 2 * h + 1) /\ (e % 2 = 1 <=> e = 2 * h + 1)  OBVIOUS
<1> HIDE DEF h
<1>2. Exp!ToThe(b, 2 * h) = Exp!ToThe(b * b, h)  BY <1>1, PowerOfSquare
<1>3. 2 * h \in Nat  BY <1>1
<1>4. Exp!ToThe(b, 2 * h + 1) = b * Exp!ToThe(b, 2 * h)  BY <1>3, PowersOfBase
<1>5. CASE e % 2 = 1
  <2>1. e = 2 * h + 1  BY <1>1, <1>5
  <2> QED  BY <1>2, <1>4, <1>5, <2>1 DEF h
<1>6. CASE e % 2 # 1
  <2>1. e = 2 * h  BY <1>1, <1>6
  <2> QED  BY <1>2, <1>6, <2>1 DEF h
<1> QED  BY <1>5, <1>6

\* In a product a factor may be replaced by its remainder.
LEMMA FactorByRemainder ==
  ASSUME NEW p \in Nat, p > 0, NEW a \in Int, NEW b \in Int
  PROVE  /\ ((a % p) * b) % p = (a * b) % p
         /\ (a * (b % p)) % p = (a * b) % p
<1>1. TimesMod(p, a % p, b) = TimesMod(p, a, b)  BY EarlyRemainder
<1>2. TimesMod(p, a, b % p) = TimesMod(p, a, b)  BY EarlyRemainder
<1> QED  BY <1>1, <1>2 DEF TimesMod

\* A power of the remainder has the remainder of the power.
LEMMA PowerOfRemainder ==
  ASSUME NEW p \in Nat, p > 0, NEW b \in Nat, NEW e \in Nat
  PROVE  Exp!ToThe(b % p, e) % p = Exp!ToThe(b, e) % p
<1> DEFINE c == b % p
           P1(z) == Exp!ToThe(b, z)
           P2(z) == Exp!ToThe(c, z)
           S == {z \in Nat : P2(z) % p = P1(z) % p}
<1>0. c \in Nat /\ c < p  BY Remainder
<1>1. P1(0) = 1 /\ \A z \in Nat : P1(z) \in Nat /\ P1(z + 1) = b * P1(z)  BY PowersOfBase
<1>6. ASSUME NEW a \in Int PROVE (c * a) % p = (b * a) % p
  <2>1. b \in Int  OBVIOUS
  <2>2. ((b % p) * a) % p = (b * a) % p  BY <2>1, FactorByRemainder
  <2> QED  BY <2>2
<1> HIDE DEF c
<1>2. P2(0) = 1 /\ \A z \in Nat : P2(z) \in Nat /\ P2(z + 1) = c * P2(z)
  BY <1>0, PowersOfBase
<1> HIDE DEF P1, P2
<1>3. 0 \in S  BY <1>1, <1>2
<1>4. ASSUME NEW z \in S PROVE z + 1 \in S
  <2>1. z \in Nat /\ P2(z) % p = P1(z) % p  OBVIOUS
  <2>2. P1(z) \in Int /\ P2(z) \in Int /\ b \in Int  BY <1>1, <1>2, <2>1
  <2>3. P2(z + 1) % p = (b * P2(z)) % p  BY <1>2, <1>6, <2>1, <2>2
  <2>4. (b * P2(z)) % p = (b * (P2(z) % p)) % p  BY <2>2, FactorByRemainder
  <2>5. (b * (P1(z) % p)) % p = (b * P1(z)) % p  BY <2>2, FactorByRemainder
  <2>6. P2(z + 1) % p = P1(z + 1) % p  BY <1>1, <2>1, <2>3, <2>4, <2>5
  <2>7. z + 1 \in Nat  BY <2>1
  <2> QED  BY <2>6, <2>7
<1> HIDE DEF S
<1>5. e \in S  BY <1>3, <1>4, SetInduction
<1> QED  BY <1>5 DEF S, P1, P2, c

\* Powers of one, and of zero.
LEMMA TrivialPowers ==
  ASSUME NEW e \in Nat
  PROVE  /\ Exp!ToThe(1, e) = 1
         /\ e > 0 => Exp!ToThe(0, e) = 0
<1> DEFINE S == {z \in Nat : Exp!ToThe(1, z) = 1}
<1>1. 0 \in S  BY PowersOfBase
<1>2. ASSUME NEW z \in S PROVE z + 1 \in S
  <2>1. z \in Nat /\ 1 \in Nat /\ Exp!ToThe(1, z) = 1  OBVIOUS
  <2>2. Exp!ToThe(1, z + 1) = 1 * Exp!ToThe(1, z)  BY <2>1, PowersOfBase
  <2> QED  BY <2>1, <2>2
<1> HIDE DEF S
<1>3. e \in S  BY <1>1, <1>2, SetInduction
<1>4. ASSUME e > 0 PROVE Exp!ToThe(0, e) = 0
  <2> DEFINE z == e - 1
  <2>1. z \in Nat /\ e = z + 1 /\ 0 \in Nat  BY <1>4
  <2> HIDE DEF z
  <2>2. Exp!ToThe(0, z) \in Nat /\ Exp!ToThe(0, z + 1) = 0 * Exp!ToThe(0, z)
    BY <2>1, PowersOfBase
  <2> QED  BY <2>1, <2>2
<1> QED  BY <1>3, <1>4 DEF S

-----------------------------------------------------------------------------
(***************************************************************************)
(* Parts of a number.  Slice is the number that the limbs of d after       *)
(* position a, up to position c, stand for; Weight is what one unit of the *)
(* limb above t limbs is worth.                                            *)
(***************************************************************************)
Limbs(d, a, c) == [j \in 1 .. (c - a) |-> d[a + j]]
Slice(d, a, c) == Exp!Value(Limbs(d, a, c))
Weight(t) == Exp!PowerOfTwo[Exp!LIMB_SIZE_IN_BITS * t]

\* The weights.
LEMMA Weights ==
  /\ Weight(0) = 1 /\ Weight(1) = Exp!LimbBase
  /\ \A t \in Nat : Weight(t) \in Nat /\ Weight(t) > 0
  /\ \A s, t \in Nat : Weight(s + t) = Weight(s) * Weight(t)
<1> DEFINE w == Exp!LIMB_SIZE_IN_BITS
<1>1. w \in Nat  BY Sizes
<1>2. w * 0 = 0 /\ w * 1 = w /\ \A t \in Nat : w * t \in Nat  BY <1>1
<1>3. \A s, t \in Nat : w * (s + t) = w * s + w * t  BY <1>1
<1>4. Exp!LimbBase = Exp!PowerOfTwo[w]  BY DEF Exp!LimbBase
<1> HIDE DEF w
<1>5. Weight(0) = 1 /\ Weight(1) = Exp!LimbBase  BY <1>2, <1>4, PowerLaws DEF Weight, w
<1>6. ASSUME NEW t \in Nat PROVE Weight(t) \in Nat /\ Weight(t) > 0
  BY <1>2, PowerLaws DEF Weight, w
<1>7. ASSUME NEW s \in Nat, NEW t \in Nat PROVE Weight(s + t) = Weight(s) * Weight(t)
  <2>1. w * s \in Nat /\ w * t \in Nat /\ w * (s + t) = w * s + w * t  BY <1>2, <1>3
  <2>2. Exp!PowerOfTwo[w * s + w * t] = Exp!PowerOfTwo[w * s] * Exp!PowerOfTwo[w * t]
    BY <2>1, PowerSum
  <2> QED  BY <2>1, <2>2 DEF Weight, w
<1> QED  BY <1>5, <1>6, <1>7

\* The limbs of a part.
LEMMA PartOfWords ==
  ASSUME NEW n \in Nat, NEW d \in Words(n), NEW a \in 0 .. n, NEW c \in 0 .. n, a <= c
  PROVE  /\ c - a \in Nat /\ Limbs(d, a, c) \in Words(c - a)
         /\ Slice(d, a, c) \in Nat /\ Slice(d, a, c) < Weight(c - a)
<1>1. c - a \in Nat /\ \A j \in 1 .. (c - a) : a + j \in 1 .. n  OBVIOUS
<1>2. d \in [1 .. n -> Exp!Limb]  BY DEF Words
<1>3. \A j \in 1 .. (c - a) : d[a + j] \in Exp!Limb  BY <1>1, <1>2
<1>4. Limbs(d, a, c) \in Words(c - a)  BY <1>3 DEF Limbs, Words
<1> DEFINE l == c - a  e == Limbs(d, a, c)
<1>5. l \in Nat /\ e \in Words(l)  BY <1>1, <1>4
<1> HIDE DEF l, e
<1>6. Exp!Value(e) \in Nat /\ Exp!Value(e) < Exp!PowerOfTwo[Exp!LIMB_SIZE_IN_BITS * l]
  BY <1>5, NumberIsBounded
<1> QED  BY <1>1, <1>4, <1>6 DEF Slice, Weight, l, e

\* The number of the limbs up to one position by that up to another.
LEMMA PrefixSlice ==
  ASSUME NEW n \in Nat, NEW d \in Words(n)
  PROVE  \E f : /\ \A m \in 0 .. n : f[m] \in Nat
                /\ f[0] = 0 /\ \A j \in 1 .. n : f[j] = f[j - 1] * Exp!LimbBase + d[j]
                /\ \A a, c \in 0 .. n : a <= c => f[c] = f[a] * Weight(c - a) + Slice(d, a, c)
<1> DEFINE w == Exp!LIMB_SIZE_IN_BITS
<1>1. w \in Nat /\ Exp!LimbBase = Exp!PowerOfTwo[w] /\ Exp!LimbBase \in Nat
  BY Sizes DEF Exp!LimbBase
<1>2. d \in [1 .. n -> Nat]  BY Sizes DEF Words
<1>3. PICK f : Prefixes(n, d, Exp!LimbBase, f) /\ Exp!digitsValue(d, Exp!LimbBase) = f[n]
  BY <1>1, <1>2, DigitsValue
<1>4. Digits(n, w, d, f)  BY <1>1, <1>2, <1>3 DEF Digits
<1>5. ASSUME NEW a \in 0 .. n, NEW c \in 0 .. n, a <= c
      PROVE  f[c] = f[a] * Weight(c - a) + Slice(d, a, c)
  <2> DEFINE e == Limbs(d, a, c)
  <2>1. IsSlice(e, d, a, c)  BY DEF IsSlice, Limbs
  <2> HIDE DEF e, w
  <2>2. f[c] = f[a] * Exp!PowerOfTwo[w * (c - a)] + Exp!digitsValue(e, Exp!PowerOfTwo[w])
    BY <1>1, <1>4, <1>5, <2>1, Segment
  <2> QED  BY <1>1, <2>2 DEF Slice, Weight, Exp!Value, e, w
<1> QED  BY <1>3, <1>5 DEF Prefixes

\* A part of no limbs, of one limb, and of all limbs.
LEMMA SliceEnds ==
  ASSUME NEW n \in Nat, NEW d \in Words(n)
  PROVE  /\ \A a \in 0 .. n : Slice(d, a, a) = 0
         /\ \A j \in 1 .. n : Slice(d, j - 1, j) = d[j]
         /\ Slice(d, 0, n) = Exp!Value(d)
<1>1. PICK f : /\ \A m \in 0 .. n : f[m] \in Nat
               /\ f[0] = 0 /\ \A j \in 1 .. n : f[j] = f[j - 1] * Exp!LimbBase + d[j]
               /\ \A a, c \in 0 .. n : a <= c => f[c] = f[a] * Weight(c - a) + Slice(d, a, c)
  BY PrefixSlice
<1>2. d \in [1 .. n -> Exp!Limb] /\ \A j \in 1 .. n : d[j] \in Nat  BY Sizes DEF Words
<1>3. ASSUME NEW a \in 0 .. n PROVE Slice(d, a, a) = 0
  <2>1. a <= a /\ a - a = 0  OBVIOUS
  <2>2. f[a] = f[a] * Weight(0) + Slice(d, a, a)  BY <1>1, <2>1
  <2>5. f[a] \in Nat  BY <1>1
  <2>6. f[a] * 1 = f[a]  BY <2>5
  <2>3. f[a] * Weight(0) = f[a] /\ f[a] \in Nat  BY <2>5, <2>6, Weights
  <2>4. Slice(d, a, a) \in Nat  BY PartOfWords, <2>1
  <2> QED  BY <2>2, <2>3, <2>4
<1>4. ASSUME NEW j \in 1 .. n PROVE Slice(d, j - 1, j) = d[j]
  <2>1. j - 1 \in 0 .. n /\ j \in 0 .. n /\ j - 1 <= j /\ j - (j - 1) = 1  OBVIOUS
  <2>2. f[j] = f[j - 1] * Weight(1) + Slice(d, j - 1, j)  BY <1>1, <2>1
  <2>3. f[j] = f[j - 1] * Exp!LimbBase + d[j] /\ Weight(1) = Exp!LimbBase  BY <1>1, Weights
  <2> DEFINE u == f[j - 1] * Exp!LimbBase
  <2>4. f[j - 1] \in Nat /\ Exp!LimbBase \in Nat  BY <1>1, <2>1, Sizes
  <2>5. u \in Nat  BY <2>4
  <2>6. Slice(d, j - 1, j) \in Nat /\ d[j] \in Nat  BY <1>2, <2>1, PartOfWords
  <2>7. f[j] = u + Slice(d, j - 1, j) /\ f[j] = u + d[j]  BY <2>2, <2>3
  <2> HIDE DEF u
  <2> QED  BY <2>5, <2>6, <2>7
<1>5. Slice(d, 0, n) = Exp!Value(d)
  <2>1. d = [j \in 1 .. n |-> d[j]]  BY <1>2
  <2>2. \A j \in 1 .. n : 0 + j = j  OBVIOUS
  <2>3. Limbs(d, 0, n) = d  BY <2>1, <2>2 DEF Limbs
  <2> QED  BY <2>3 DEF Slice
<1> QED  BY <1>3, <1>4, <1>5

\* A part is its upper limbs and its lower ones.
LEMMA SliceSplit ==
  ASSUME NEW n \in Nat, NEW d \in Words(n), NEW a \in 0 .. n, NEW b \in 0 .. n, NEW c \in 0 .. n,
         a <= b, b <= c
  PROVE  Slice(d, a, c) = Slice(d, a, b) * Weight(c - b) + Slice(d, b, c)
<1>1. PICK f : /\ \A m \in 0 .. n : f[m] \in Nat
               /\ \A u, v \in 0 .. n : u <= v => f[v] = f[u] * Weight(v - u) + Slice(d, u, v)
  BY PrefixSlice
<1> DEFINE t == f[a]  u == Weight(b - a)  v == Weight(c - b)
           lo == Slice(d, b, c)  hi == Slice(d, a, b)  all == Slice(d, a, c)
<1>2. a <= c /\ b - a \in Nat /\ c - b \in Nat /\ (b - a) + (c - b) = c - a  OBVIOUS
<1>3. Weight(c - a) = u * v /\ u \in Nat /\ v \in Nat  BY <1>2, Weights
<1>4. lo \in Nat /\ hi \in Nat /\ all \in Nat /\ t \in Nat  BY <1>1, <1>2, PartOfWords
<1>5. f[c] = t * Weight(c - a) + all /\ f[b] = t * u + hi /\ f[c] = f[b] * v + lo
  BY <1>1, <1>2
<1>6. t * (u * v) + all = (t * u + hi) * v + lo  BY <1>3, <1>5
<1> HIDE DEF t, u, v, lo, hi, all
<1>7. (t * u + hi) * v = t * (u * v) + hi * v
  <2>1. (t * u + hi) * v = (t * u) * v + hi * v /\ (t * u) * v = t * (u * v)  BY <1>3, <1>4
  <2> QED  BY <2>1
<1> DEFINE g == t * (u * v)  h == hi * v
<1>8. g \in Nat /\ h \in Nat  BY <1>3, <1>4
<1>9. g + all = g + h + lo  BY <1>6, <1>7
<1> HIDE DEF g, h
<1>10. all = h + lo  BY <1>4, <1>8, <1>9
<1> QED  BY <1>10 DEF all, h, hi, v, lo

\* A part is its first limb and the others.
LEMMA SliceTop ==
  ASSUME NEW n \in Nat, NEW d \in Words(n), NEW j \in 1 .. n, NEW c \in 0 .. n, j <= c
  PROVE  Slice(d, j - 1, c) = d[j] * Weight(c - j) + Slice(d, j, c)
<1>1. j - 1 \in 0 .. n /\ j \in 0 .. n /\ j - 1 <= j  OBVIOUS
<1>2. Slice(d, j - 1, c) = Slice(d, j - 1, j) * Weight(c - j) + Slice(d, j, c)
  BY <1>1, SliceSplit
<1> QED  BY <1>2, SliceEnds

\* A part only depends on its limbs.
LEMMA SliceSame ==
  ASSUME NEW d, NEW e, NEW a \in Nat, NEW c \in Nat, \A j \in (a + 1) .. c : d[j] = e[j]
  PROVE  Slice(d, a, c) = Slice(e, a, c)
<1>1. \A j \in 1 .. (c - a) : a + j \in (a + 1) .. c  OBVIOUS
<1>2. Limbs(d, a, c) = Limbs(e, a, c)  BY <1>1 DEF Limbs
<1> QED  BY <1>2 DEF Slice

\* Zeroes stand for zero.
LEMMA ZeroesAreZero ==
  ASSUME NEW n \in Nat, NEW d, d = [j \in 1 .. n |-> 0], NEW radix \in Nat
  PROVE  Exp!digitsValue(d, radix) = 0
<1> DEFINE f == [m \in 0 .. n |-> 0]
<1>1. d \in [1 .. n -> Nat]  OBVIOUS
<1>2. Prefixes(n, d, radix, f)
  <2>1. f \in [0 .. n -> Nat] /\ f[0] = 0  OBVIOUS
  <2>2. ASSUME NEW j \in 1 .. n PROVE f[j] = f[j - 1] * radix + d[j]
    <3>1. f[j] = 0 /\ f[j - 1] = 0 /\ d[j] = 0  OBVIOUS
    <3>2. 0 * radix + 0 = 0  OBVIOUS
    <3> QED  BY <3>1, <3>2
  <2> QED  BY <2>1, <2>2 DEF Prefixes
<1>3. f[n] = 0  OBVIOUS
<1> QED  BY <1>1, <1>2, <1>3, ValueOfPrefixes

\* (u + v + w) * z, and a sum of products that have a factor in common.
LEMMA Distributes ==
  ASSUME NEW u \in Nat, NEW v \in Nat, NEW w \in Nat, NEW z \in Nat
  PROVE  /\ (u + v) * z = u * z + v * z
         /\ (u + v + w) * z = u * z + v * z + w * z
         /\ (u * v) * z = u * (v * z)
         /\ u * z \in Nat /\ v * z \in Nat /\ w * z \in Nat /\ u * v \in Nat
<1>1. (u + v) * z = u * z + v * z  OBVIOUS
<1>2. (u + v + w) * z = u * z + v * z + w * z  OBVIOUS
<1>3. (u * v) * z = u * (v * z)  OBVIOUS
<1>4. u * z \in Nat /\ v * z \in Nat /\ w * z \in Nat /\ u * v \in Nat  OBVIOUS
<1> QED  BY <1>1, <1>2, <1>3, <1>4

(* After t steps of a row, what it has written and its carry are what was  *)
(* there plus limb o of a times the t least significant limbs of c.        *)
RowAdded(n, a, c, o, before, h, t) ==
  /\ Slice(h[t].product, o + n - t, o + n) + h[t].carry * Weight(t)
       = Slice(before, o + n - t, o + n) + a[o] * Slice(c, n - t, n)
  /\ \A j \in 1 .. (2 * n) : j <= o + n - t \/ j > o + n => h[t].product[j] = before[j]

\* A step of a row adds the product of one limb.
LEMMA RowStepAdds ==
  ASSUME NEW n \in Nat, NEW a \in Words(n), NEW c \in Words(n), NEW o \in 1 .. n,
         NEW before \in Words(2 * n), NEW h, RowSteps(n, a, c, o, before, h),
         NEW t \in 0 .. (n - 1), RowAdded(n, a, c, o, before, h, t)
  PROVE  RowAdded(n, a, c, o, before, h, t + 1)
<1> DEFINE l == 2 * n
           acc == h[t]
           next == h[t + 1]
           pos == o + n - t
           last == o + n
           w == n - t
<1>1. /\ n \in Nat /\ n > 0 /\ t \in 0 .. n /\ t + 1 \in 1 .. n /\ t + 1 \in 0 .. n
      /\ (t + 1) - 1 = t /\ n - (t + 1) + 1 = w /\ w \in 1 .. n /\ n \in 0 .. n
      /\ pos \in 1 .. l /\ o + w = pos /\ o + n - (t + 1) = pos - 1 /\ last \in 0 .. l /\ pos <= last
      /\ last - pos = t /\ n - w = t /\ n - (t + 1) = w - 1 /\ w <= n /\ l \in Nat /\ t \in Nat
  OBVIOUS
<1>2. acc \in Accumulators(l) /\ next \in Accumulators(l)
      /\ next = Exp!mulLimb(acc, pos, a[o], c[w])
  BY <1>1 DEF RowSteps
<1>3. a[o] \in Exp!Limb /\ c[w] \in Exp!Limb  BY <1>1 DEF Words
<1>4. /\ \A j \in 1 .. l : j # pos => next.product[j] = acc.product[j]
      /\ Exp!LimbBase * next.carry + next.product[pos] = a[o] * c[w] + acc.product[pos] + acc.carry
  <2> DEFINE u == a[o]  v == c[w]
  <2>3. l \in Nat /\ pos \in 1 .. l  BY <1>1
  <2>4. acc \in Accumulators(l) /\ next = Exp!mulLimb(acc, pos, u, v)  BY <1>2
  <2>5. u \in Exp!Limb /\ v \in Exp!Limb  BY <1>3
  <2> HIDE DEF l, acc, next, pos, w, u, v
  <2> DEFINE made == Exp!mulLimb(acc, pos, u, v)
  <2>1. /\ \A j \in 1 .. l : j # pos => made.product[j] = acc.product[j]
        /\ Exp!LimbBase * made.carry + made.product[pos] = u * v + acc.product[pos] + acc.carry
    BY <2>3, <2>4, <2>5, MultipliedLimbs
  <2>2. next = made  BY <2>4
  <2> HIDE DEF made
  <2> QED  BY <2>1, <2>2 DEF u, v
<1>5. /\ Slice(acc.product, pos, last) + acc.carry * Weight(t)
           = Slice(before, pos, last) + a[o] * Slice(c, w, n)
      /\ \A j \in 1 .. l : j <= pos \/ j > last => acc.product[j] = before[j]
  BY DEF RowAdded
<1>6. acc.product \in Words(l) /\ next.product \in Words(l) /\ acc.carry \in Exp!Limb
      /\ next.carry \in Exp!Limb /\ before \in Words(l)
  BY <1>2 DEF Accumulators
<1>7. /\ acc.product[pos] = before[pos] /\ acc.carry \in Nat /\ next.carry \in Nat
      /\ acc.product[pos] \in Nat /\ next.product[pos] \in Nat /\ before[pos] \in Nat
      /\ a[o] \in Nat /\ c[w] \in Nat /\ Exp!LimbBase \in Nat
  <2> HIDE DEF l, acc, next, pos, last, w
  <2>1. \A u \in Exp!Limb : u \in Nat  BY Sizes
  <2>2. \A d \in Words(l) : d[pos] \in Exp!Limb  BY <1>1 DEF Words
  <2>3. acc.product[pos] \in Nat /\ next.product[pos] \in Nat /\ before[pos] \in Nat
    BY <1>6, <2>1, <2>2
  <2>4. acc.product[pos] = before[pos]
    <3>1. pos <= pos  BY <1>1
    <3> QED  BY <1>1, <1>5, <3>1
  <2> QED  BY <1>3, <1>6, <2>1, <2>3, <2>4, Sizes
<1> HIDE DEF l, acc, next, pos, last, w
<1>8. /\ Slice(next.product, pos - 1, last)
           = next.product[pos] * Weight(t) + Slice(next.product, pos, last)
      /\ Slice(before, pos - 1, last) = before[pos] * Weight(t) + Slice(before, pos, last)
  BY <1>1, <1>6, SliceTop
<1>9. Slice(c, w - 1, n) = c[w] * Weight(t) + Slice(c, w, n)
  BY <1>1, SliceTop
<1>10. Slice(next.product, pos, last) = Slice(acc.product, pos, last)
  <2>1. \A j \in (pos + 1) .. last : j \in 1 .. l /\ j # pos  BY <1>1
  <2>2. pos \in Nat /\ last \in Nat  BY <1>1
  <2> QED  BY <1>4, <2>1, <2>2, SliceSame
<1>11. Weight(t + 1) = Exp!LimbBase * Weight(t) /\ Weight(t) \in Nat
  <2>1. Weight(1 + t) = Weight(1) * Weight(t) /\ 1 + t = t + 1  BY <1>1, Weights
  <2> QED  BY <1>1, <2>1, Weights
<1>12. /\ Slice(acc.product, pos, last) \in Nat /\ Slice(before, pos, last) \in Nat
       /\ Slice(c, w, n) \in Nat
  <2>1. pos \in 0 .. l /\ w \in 0 .. n  BY <1>1
  <2> QED  BY <1>1, <1>6, <2>1, PartOfWords
<1> DEFINE A1 == a[o]  C1 == c[w]  W1 == Weight(t)  L1 == Exp!LimbBase
           p0 == before[pos]  p1 == next.product[pos]  k0 == acc.carry  k1 == next.carry
           S0 == Slice(before, pos, last)  S1 == Slice(acc.product, pos, last)  D1 == Slice(c, w, n)
<1>13. A1 \in Nat /\ C1 \in Nat /\ W1 \in Nat /\ L1 \in Nat /\ p0 \in Nat /\ p1 \in Nat
       /\ k0 \in Nat /\ k1 \in Nat /\ S0 \in Nat /\ S1 \in Nat /\ D1 \in Nat
  BY <1>7, <1>11, <1>12
<1>14. L1 * k1 + p1 = A1 * C1 + p0 + k0 /\ S1 + k0 * W1 = S0 + A1 * D1
  BY <1>4, <1>5, <1>7
<1>15. (p1 * W1 + S1) + k1 * (L1 * W1) = (p0 * W1 + S0) + A1 * (C1 * W1 + D1)
  <2> HIDE DEF A1, C1, W1, L1, p0, p1, k0, k1, S0, S1, D1
  <2>1. A1 * C1 \in Nat /\ L1 * k1 \in Nat  BY <1>13
  <2>2. (L1 * k1 + p1) * W1 = (L1 * k1) * W1 + p1 * W1  BY <1>13, <2>1, Distributes
  <2>3. (A1 * C1 + p0 + k0) * W1 = (A1 * C1) * W1 + p0 * W1 + k0 * W1  BY <1>13, <2>1, Distributes
  <2>4. (L1 * k1) * W1 = k1 * (L1 * W1)  BY <1>13
  <2>5. (A1 * C1) * W1 = A1 * (C1 * W1)  BY <1>13
  <2>6. A1 * (C1 * W1 + D1) = A1 * (C1 * W1) + A1 * D1  BY <1>13
  <2> DEFINE e1 == k1 * (L1 * W1)  e2 == p1 * W1  e3 == A1 * (C1 * W1)  e4 == p0 * W1
             e5 == k0 * W1  e6 == A1 * D1
  <2>7. e1 \in Nat /\ e2 \in Nat /\ e3 \in Nat /\ e4 \in Nat /\ e5 \in Nat /\ e6 \in Nat
    <3>1. L1 * W1 \in Nat /\ C1 * W1 \in Nat  BY <1>13
    <3> QED  BY <1>13, <3>1
  <2>8. e1 + e2 = e3 + e4 + e5  BY <1>14, <2>2, <2>3, <2>4, <2>5
  <2>9. S1 + e5 = S0 + e6  BY <1>14
  <2>10. A1 * (C1 * W1 + D1) = e3 + e6  BY <2>6
  <2> HIDE DEF e1, e2, e3, e4, e5, e6
  <2>11. (e2 + S1) + e1 = (e4 + S0) + (e3 + e6)  BY <1>13, <2>7, <2>8, <2>9
  <2> QED  BY <2>10, <2>11 DEF e1, e2, e4
<1>16. Slice(next.product, pos - 1, last) + k1 * Weight(t + 1)
         = Slice(before, pos - 1, last) + a[o] * Slice(c, w - 1, n)
  BY <1>8, <1>9, <1>10, <1>11, <1>15
<1>17. \A j \in 1 .. l : j <= pos - 1 \/ j > last => next.product[j] = before[j]
  <2> SUFFICES ASSUME NEW j \in 1 .. l, j <= pos - 1 \/ j > last PROVE next.product[j] = before[j]
    OBVIOUS
  <2>1. j # pos /\ (j <= pos \/ j > last)  BY <1>1
  <2> QED  BY <1>4, <1>5, <2>1
<1> QED  BY <1>1, <1>16, <1>17 DEF RowAdded, l, next, pos, last, w

\* A row adds limb o of a times c, above the limbs below it.
LEMMA RowAdds ==
  ASSUME NEW n \in Nat, NEW a \in Words(n), NEW c \in Words(n), NEW o \in 1 .. n,
         NEW before \in Words(2 * n), NEW after \in Words(2 * n), RowOf(n, a, c, o, before, after)
  PROVE  /\ Slice(after, o - 1, o + n) = Slice(before, o, o + n) + a[o] * Exp!Value(c)
         /\ \A j \in 1 .. (2 * n) : j < o \/ j > o + n => after[j] = before[j]
<1>1. PICK h : RowSteps(n, a, c, o, before, h) /\ after = [h[n].product EXCEPT ![o] = h[n].carry]
  BY DEF RowOf
<1>2. /\ h[0] = [product |-> before, carry |-> 0]
      /\ \A t \in 0 .. n : h[t] \in Accumulators(2 * n)
  BY <1>1 DEF RowSteps
<1> DEFINE T == {t \in Nat : t <= n => RowAdded(n, a, c, o, before, h, t)}
<1>3. 0 \in T
  <2>1. /\ n \in Nat /\ o + n - 0 = o + n /\ n - 0 = n /\ o + n \in 0 .. (2 * n) /\ n \in 0 .. n
        /\ 2 * n \in Nat
    OBVIOUS
  <2>2. Slice(before, o + n, o + n) = 0 /\ Slice(c, n, n) = 0  BY <2>1, SliceEnds
  <2>3. h[0].product = before /\ h[0].carry = 0  BY <1>2
  <2>4. a[o] \in Nat /\ Weight(0) \in Nat  BY Sizes, Weights DEF Words
  <2>5. 0 * Weight(0) = 0 /\ a[o] * 0 = 0  BY <2>4
  <2>6. RowAdded(n, a, c, o, before, h, 0)  BY <2>1, <2>2, <2>3, <2>5 DEF RowAdded
  <2> QED  BY <2>6
<1>4. ASSUME NEW t \in T PROVE t + 1 \in T
  <2>1. t \in Nat /\ t + 1 \in Nat  OBVIOUS
  <2>2. CASE t + 1 <= n
    <3>1. t \in 0 .. (n - 1) /\ t <= n  BY <2>1, <2>2
    <3>2. RowAdded(n, a, c, o, before, h, t)  BY <3>1
    <3>3. RowAdded(n, a, c, o, before, h, t + 1)  BY <1>1, <3>1, <3>2, RowStepAdds
    <3> QED  BY <2>1, <3>3
  <2> QED  BY <2>1, <2>2
<1> HIDE DEF T
<1>5. n \in T  BY <1>3, <1>4, SetInduction
<1>6. RowAdded(n, a, c, o, before, h, n)  BY <1>5 DEF T
<1>7. o + n - n = o /\ n - n = 0 /\ 2 * n \in Nat /\ o \in 1 .. (2 * n) /\ o + n \in 0 .. (2 * n)
      /\ o <= o + n /\ n \in 0 .. n /\ (o + n) - o = n
  OBVIOUS
<1> DEFINE p == h[n].product  k_ == h[n].carry
<1>8. p \in Words(2 * n) /\ k_ \in Exp!Limb  BY <1>2, <1>7 DEF Accumulators
<1>9. /\ Slice(p, o, o + n) + k_ * Weight(n) = Slice(before, o, o + n) + a[o] * Slice(c, 0, n)
      /\ \A j \in 1 .. (2 * n) : j <= o \/ j > o + n => p[j] = before[j]
  BY <1>6, <1>7 DEF RowAdded
<1>10. after[o] = k_ /\ \A j \in 1 .. (2 * n) : j # o => after[j] = p[j]
  BY <1>1, <1>7, <1>8 DEF Words
<1> HIDE DEF p, k_
<1>11. Slice(after, o - 1, o + n) = k_ * Weight(n) + Slice(after, o, o + n)
  BY <1>7, <1>10, SliceTop
<1>12. Slice(after, o, o + n) = Slice(p, o, o + n)
  <2>1. \A j \in (o + 1) .. (o + n) : j \in 1 .. (2 * n) /\ j # o  OBVIOUS
  <2>2. o \in Nat /\ o + n \in Nat  OBVIOUS
  <2> QED  BY <1>10, <2>1, <2>2, SliceSame
<1>13. Slice(c, 0, n) = Exp!Value(c)  BY SliceEnds
<1>14. Slice(after, o - 1, o + n) = Slice(before, o, o + n) + a[o] * Exp!Value(c)
  <2> DEFINE u == Slice(p, o, o + n)  v == k_ * Weight(n)
  <2>1. o \in 0 .. (2 * n)  BY <1>7
  <2>2. u \in Nat  BY <1>7, <1>8, <2>1, PartOfWords
  <2>3. v \in Nat
    <3>1. k_ \in Nat /\ Weight(n) \in Nat  BY <1>8, Sizes, Weights
    <3> QED  BY <3>1
  <2>4. u + v = Slice(before, o, o + n) + a[o] * Exp!Value(c)  BY <1>9, <1>13
  <2>5. Slice(after, o - 1, o + n) = v + u  BY <1>11, <1>12
  <2> HIDE DEF u, v
  <2>6. v + u = u + v  BY <2>2, <2>3
  <2> QED  BY <2>4, <2>5, <2>6
<1>15. \A j \in 1 .. (2 * n) : j < o \/ j > o + n => after[j] = before[j]
  <2> SUFFICES ASSUME NEW j \in 1 .. (2 * n), j < o \/ j > o + n PROVE after[j] = before[j]
    OBVIOUS
  <2>1. j # o /\ (j <= o \/ j > o + n)  OBVIOUS
  <2> QED  BY <1>9, <1>10, <2>1
<1> QED  BY <1>14, <1>15

\* bigUIntMul is the product.
LEMMA ProductOfNumbers ==
  ASSUME NEW n \in Nat, NEW a \in Words(n), NEW c \in Words(n)
  PROVE  Exp!Value(Exp!bigUIntMul(a, c)) = Exp!Value(a) * Exp!Value(c)
<1> DEFINE l == 2 * n
           V == Exp!Value(c)
<1>1. PICK rows : /\ \A done \in 0 .. n : rows[done] \in Words(l)
                  /\ rows[0] = [j \in 1 .. l |-> 0]
                  /\ \A done \in 1 .. n : RowOf(n, a, c, n - done + 1, rows[done - 1], rows[done])
                  /\ Exp!bigUIntMul(a, c) = rows[n]
  BY MultipliedByRows
<1>2. V \in Nat  BY NumberIsBounded
<1> DEFINE Holds(done) == Slice(rows[done], n - done, l) = Slice(a, n - done, n) * V
           T == {done \in Nat : done <= n => Holds(done)}
<1>3. 0 \in T
  <2>1. n - 0 = n /\ n \in 0 .. n /\ l - n = n /\ 0 \in 0 .. n /\ l \in Nat /\ n \in 0 .. l /\ l \in 0 .. l
        /\ n <= l
    OBVIOUS
  <2>2. Slice(a, n, n) = 0  BY <2>1, SliceEnds
  <2>3. Limbs(rows[0], n, l) = [j \in 1 .. n |-> 0]
    <3>1. \A j \in 1 .. n : n + j \in 1 .. l  OBVIOUS
    <3> QED  BY <1>1, <2>1, <3>1 DEF Limbs
  <2>4. Slice(rows[0], n, l) = 0  BY <2>3, Sizes, ZeroesAreZero DEF Slice, Exp!Value
  <2>5. 0 * V = 0  BY <1>2
  <2>6. Holds(0)  BY <2>1, <2>2, <2>4, <2>5
  <2> QED  BY <2>6
<1>4. ASSUME NEW done \in T PROVE done + 1 \in T
  <2>1. done \in Nat /\ done + 1 \in Nat  OBVIOUS
  <2>2. CASE done + 1 <= n
    <3> DEFINE o == n - done  old == rows[done]  new == rows[done + 1]
    <3>1. /\ done \in 0 .. n /\ done + 1 \in 1 .. n /\ done + 1 \in 0 .. n /\ (done + 1) - 1 = done
          /\ n - (done + 1) + 1 = o /\ n - (done + 1) = o - 1 /\ o \in 1 .. n /\ o \in 0 .. n
          /\ o - 1 \in 0 .. l /\ o \in 0 .. l /\ o + n \in 0 .. l /\ l \in 0 .. l /\ l \in Nat
          /\ o - 1 <= o + n /\ o <= o + n /\ o + n <= l /\ l - (o + n) = n - o /\ n - o \in Nat
          /\ n \in 0 .. n /\ o <= n /\ done <= n
      BY <2>1, <2>2
    <3>2. /\ old \in Words(l) /\ new \in Words(l) /\ RowOf(n, a, c, o, old, new)
          /\ Slice(old, o, l) = Slice(a, o, n) * V
      BY <1>1, <3>1
    <3> HIDE DEF o, old, new
    <3>3. /\ Slice(new, o - 1, o + n) = Slice(old, o, o + n) + a[o] * V
          /\ \A j \in 1 .. l : j < o \/ j > o + n => new[j] = old[j]
      BY <3>1, <3>2, RowAdds
    <3> HIDE DEF V
    <3>4. Slice(new, o + n, l) = Slice(old, o + n, l)
      <4>1. \A j \in (o + n + 1) .. l : j \in 1 .. l /\ j > o + n  BY <3>1
      <4>2. o + n \in Nat /\ l \in Nat  BY <3>1
      <4> QED  BY <3>3, <4>1, <4>2, SliceSame
    <3> HIDE DEF l
    <3>5. /\ Slice(new, o - 1, l) = Slice(new, o - 1, o + n) * Weight(n - o) + Slice(new, o + n, l)
          /\ Slice(old, o, l) = Slice(old, o, o + n) * Weight(n - o) + Slice(old, o + n, l)
      BY <3>1, <3>2, SliceSplit
    <3>6. Slice(a, o - 1, n) = a[o] * Weight(n - o) + Slice(a, o, n)
      BY <3>1, SliceTop
    <3> DEFINE A1 == a[o]  W1 == Weight(n - o)  S1 == Slice(old, o, o + n)
               H1 == Slice(old, o + n, l)  D1 == Slice(a, o, n)
    <3>7. A1 \in Nat /\ W1 \in Nat /\ S1 \in Nat /\ H1 \in Nat /\ D1 \in Nat
      <4>1. A1 \in Nat  BY <3>1, Sizes DEF Words
      <4>2. W1 \in Nat  BY <3>1, Weights
      <4> QED  BY <3>1, <3>2, <4>1, <4>2, PartOfWords
    <3>8. (S1 + A1 * V) * W1 + H1 = (A1 * W1 + D1) * V
      <4>1. S1 * W1 + H1 = D1 * V  BY <3>2, <3>5
      <4> HIDE DEF A1, W1, S1, H1, D1
      <4>2. A1 * V \in Nat  BY <1>2, <3>7
      <4>3. (S1 + A1 * V) * W1 = S1 * W1 + (A1 * V) * W1  BY <1>2, <3>7, <4>2, Distributes
      <4>4. (A1 * W1 + D1) * V = (A1 * W1) * V + D1 * V
        <5>1. A1 * W1 \in Nat  BY <3>7
        <5> QED  BY <1>2, <3>7, <5>1, Distributes
      <4>5. (A1 * V) * W1 = (A1 * W1) * V  BY <1>2, <3>7
      <4> DEFINE e1 == S1 * W1  e2 == (A1 * W1) * V  e3 == D1 * V
      <4>6. e1 \in Nat /\ e2 \in Nat /\ e3 \in Nat
        <5>1. A1 * W1 \in Nat  BY <3>7
        <5> QED  BY <1>2, <3>7, <5>1
      <4>7. e1 + H1 = e3  BY <4>1
      <4>8. (S1 + A1 * V) * W1 = e1 + e2 /\ (A1 * W1 + D1) * V = e2 + e3  BY <4>3, <4>4, <4>5
      <4> HIDE DEF e1, e2, e3
      <4>9. e1 + e2 + H1 = e2 + e3  BY <3>7, <4>6, <4>7
      <4> QED  BY <4>8, <4>9
    <3>9. Slice(new, o - 1, l) = Slice(a, o - 1, n) * V  BY <3>3, <3>4, <3>5, <3>6, <3>8
    <3>10. Holds(done + 1)  BY <3>1, <3>9 DEF new, o
    <3> QED  BY <2>1, <3>10
  <2> QED  BY <2>1, <2>2
<1> HIDE DEF T
<1>5. n \in T  BY <1>3, <1>4, SetInduction
<1>6. Holds(n)  BY <1>5 DEF T
<1>7. n - n = 0 /\ n \in 0 .. n /\ l \in Nat  OBVIOUS
<1>8. Slice(rows[n], 0, l) = Slice(a, 0, n) * V  BY <1>6, <1>7
<1>9. rows[n] \in Words(l)  BY <1>1, <1>7
<1>10. Slice(rows[n], 0, l) = Exp!Value(rows[n])
  <2> HIDE DEF l
  <2> QED  BY <1>7, <1>9, SliceEnds
<1>11. Slice(a, 0, n) = Exp!Value(a)  BY SliceEnds
<1> QED  BY <1>1, <1>8, <1>10, <1>11

-----------------------------------------------------------------------------
(***************************************************************************)
(* Parts of a number, by quotient and remainder.                           *)
(***************************************************************************)

\* Dividing twice is dividing by the product.
LEMMA QuotientTwice ==
  ASSUME NEW a \in Nat, NEW u \in Nat, u > 0, NEW v \in Nat, v > 0
  PROVE  /\ (a \div u) \div v = a \div (u * v)
         /\ a \div u \in Nat
<1> DEFINE t == a \div u  z == a % u  h == t \div v  y_ == t % v
<1>1. t \in Int /\ z \in 0 .. (u - 1) /\ a = u * t + z  BY DivMod
<1>2. t \in Nat
  <2>1. a \div u >= 0  OBVIOUS
  <2> QED  BY <1>1, <2>1
<1> HIDE DEF t, z
<1>3. h \in Int /\ y_ \in 0 .. (v - 1) /\ t = v * h + y_  BY <1>2, DivMod
<1> HIDE DEF h, y_
<1>4. a = (u * v) * h + (u * y_ + z)
  <2>1. u * (v * h + y_) = u * (v * h) + u * y_ /\ u * (v * h) = (u * v) * h  BY <1>3
  <2> DEFINE e1 == (u * v) * h  e2 == u * y_
  <2>2. e1 \in Int /\ e2 \in Int  BY <1>3
  <2>3. a = (e1 + e2) + z  BY <1>1, <1>3, <2>1
  <2> HIDE DEF e1, e2
  <2>4. a = e1 + (e2 + z)  BY <1>1, <2>2, <2>3
  <2> QED  BY <2>4 DEF e1, e2
<1>5. u * y_ + z \in 0 .. (u * v - 1) /\ u * v \in Nat /\ u * v > 0
  <2>1. u * y_ \in Nat /\ u * y_ <= u * (v - 1)
    <3>1. y_ \in Nat /\ v - 1 \in Nat /\ y_ <= v - 1  BY <1>3
    <3> DEFINE v1 == v - 1
    <3>2. v1 \in Nat /\ y_ <= v1  BY <3>1
    <3> HIDE DEF v1
    <3>3. u * y_ <= u * v1 /\ u * y_ \in Nat  BY <3>1, <3>2
    <3> QED  BY <3>3 DEF v1
  <2>2. u * (v - 1) = u * v - u /\ u * v \in Nat  OBVIOUS
  <2>3. u * v > 0  OBVIOUS
  <2> DEFINE e1 == u * v  e2 == u * y_
  <2>4. e1 \in Nat /\ e1 > 0 /\ e2 \in Nat /\ e2 <= e1 - u  BY <2>1, <2>2, <2>3
  <2> HIDE DEF e1, e2
  <2>5. e2 + z \in 0 .. (e1 - 1)  BY <1>1, <2>4
  <2> QED  BY <2>4, <2>5 DEF e1, e2
<1>6. a \div (u * v) = h
  <2> DEFINE d == u * v  s == u * y_ + z
  <2>1. d \in Nat /\ d > 0 /\ s \in 0 .. (d - 1) /\ a = d * h + s  BY <1>4, <1>5
  <2> HIDE DEF d, s
  <2>2. (d * h + s) \div d = h  BY <1>3, <2>1, DivModUnique
  <2> QED  BY <2>1, <2>2 DEF d
<1> QED  BY <1>2, <1>6 DEF h, t

\* What a multiple of the divisor adds to a quotient, and to a remainder.
LEMMA MultipleAdded ==
  ASSUME NEW u \in Nat, u > 0, NEW m \in Nat, NEW a \in Nat
  PROVE  /\ (u * m + a) \div u = m + (a \div u)
         /\ (u * m + a) % u = a % u
<1> DEFINE t == a \div u  z == a % u
<1>1. t \in Int /\ z \in 0 .. (u - 1) /\ a = u * t + z  BY DivMod
<1> HIDE DEF t, z
<1>2. u * m + a = u * (m + t) + z
  <2>1. u * (m + t) = u * m + u * t /\ u * m \in Int /\ u * t \in Int  BY <1>1
  <2> QED  BY <1>1, <2>1
<1>3. (u * (m + t) + z) \div u = m + t /\ (u * (m + t) + z) % u = z
  <2>1. m + t \in Int  BY <1>1
  <2> QED  BY <1>1, <2>1, DivModUnique
<1> QED  BY <1>2, <1>3 DEF t, z

\* A number below a weight has its place under a greater digit.
LEMMA BelowNext ==
  ASSUME NEW u \in Nat, NEW v \in Nat, u < v, NEW z \in Nat, NEW s \in Nat, s < z
  PROVE  u * z + s < v * z
<1>1. u + 1 <= v  OBVIOUS
<1>2. (u + 1) * z <= v * z  BY <1>1
<1>3. (u + 1) * z = u * z + z /\ u * z \in Nat /\ v * z \in Nat  OBVIOUS
<1> QED  BY <1>2, <1>3

\* A product that is below one of its factors is zero.
LEMMA TooSmallForDigit ==
  ASSUME NEW u \in Nat, NEW z \in Nat, z > 0, NEW s \in Nat, u * z + s < z
  PROVE  u = 0
<1> SUFFICES ASSUME u # 0 PROVE FALSE
  OBVIOUS
<1>1. u * z >= z /\ u * z \in Nat  OBVIOUS
<1> QED  BY <1>1

\* The value of a number whose upper half is zero is that of its lower half.
LEMMA ValueOfLowerHalf ==
  ASSUME NEW n \in Nat, NEW limbs \in Words(2 * n), Exp!Value(limbs) < Weight(n)
  PROVE  /\ Exp!bigUIntLowerHalf(limbs) \in Words(n)
         /\ Exp!Value(Exp!bigUIntLowerHalf(limbs)) = Exp!Value(limbs)
<1> DEFINE l == 2 * n
<1>1. limbs \in [1 .. l -> Exp!Limb] /\ limbs \in Seq(Exp!Limb) /\ Len(limbs) = l
  BY DEF Words
<1>2. /\ l \div 2 = n /\ n + 1 \in 1 .. (l + 1) /\ l \in 0 .. l /\ l + 1 >= n + 1
      /\ l - (n + 1) + 1 = n /\ n + 1 - 1 = n /\ l - n = n
      /\ l \in Nat /\ 0 \in 0 .. l /\ n \in 0 .. l /\ 0 <= n /\ n <= l /\ n - 0 = n
  OBVIOUS
<1> HIDE DEF l
<1>3. Exp!bigUIntLowerHalf(limbs) = SubSeq(limbs, n + 1, l)
  BY <1>1, <1>2 DEF Exp!bigUIntLowerHalf
<1>4. SubSeq(limbs, n + 1, l) = [j \in 1 .. n |-> limbs[n + j]]
  <2>1. SubSeq(limbs, n + 1, l) = [j \in 1 .. (l - (n + 1) + 1) |-> limbs[n + 1 - 1 + j]]
    BY <1>1, <1>2, Part
  <2> QED  BY <1>2, <2>1
<1>5. Exp!bigUIntLowerHalf(limbs) = Limbs(limbs, n, l)  BY <1>2, <1>3, <1>4 DEF Limbs
<1>6. limbs \in Words(l)  BY DEF l
<1>7. Slice(limbs, 0, l) = Slice(limbs, 0, n) * Weight(l - n) + Slice(limbs, n, l)
  BY <1>2, <1>6, SliceSplit
<1>8. Slice(limbs, 0, l) = Exp!Value(limbs)  BY <1>2, <1>6, SliceEnds
<1>9. Slice(limbs, 0, n) \in Nat /\ Slice(limbs, n, l) \in Nat
  BY <1>2, <1>6, PartOfWords
<1>10. Slice(limbs, 0, n) * Weight(n) + Slice(limbs, n, l) < Weight(n)  BY <1>2, <1>7, <1>8
<1>11. Weight(n) \in Nat /\ Weight(n) > 0  BY Weights
<1>12. Slice(limbs, 0, n) = 0  BY <1>9, <1>10, <1>11, TooSmallForDigit
<1>13. Slice(limbs, n, l) = Exp!Value(limbs)
  <2>1. 0 * Weight(n) = 0  BY <1>11
  <2> QED  BY <1>2, <1>7, <1>8, <1>9, <1>12, <2>1
<1>14. Exp!bigUIntLowerHalf(limbs) \in Words(n)  BY LowerHalf
<1> QED  BY <1>5, <1>13, <1>14 DEF Slice

\* The lowest bit of a number.
LEMMA LowestBit ==
  ASSUME NEW n \in Nat, n > 0, NEW limbs \in Words(n)
  PROVE  Exp!bigUIntModTwo(limbs) = Exp!Value(limbs) % 2
<1>1. Len(limbs) = n  BY DEF Words
<1>2. Exp!bigUIntModTwo(limbs) = limbs[n] % 2  BY <1>1 DEF Exp!bigUIntModTwo, Exp!Last
<1>3. PICK f : /\ \A m \in 0 .. n : f[m] \in Nat
               /\ f[0] = 0 /\ \A j \in 1 .. n : f[j] = f[j - 1] * Exp!LimbBase + limbs[j]
               /\ \A a, c \in 0 .. n : a <= c => f[c] = f[a] * Weight(c - a) + Slice(limbs, a, c)
  BY PrefixSlice
<1>4. n \in 1 .. n /\ n - 1 \in 0 .. n /\ n \in 0 .. n /\ 0 \in 0 .. n /\ 0 <= n /\ n - 0 = n  OBVIOUS
<1>5. Exp!Value(limbs) = f[n]
  <2>1. f[n] = f[0] * Weight(n) + Slice(limbs, 0, n)
    <3>1. f[n] = f[0] * Weight(n - 0) + Slice(limbs, 0, n)  BY <1>3, <1>4
    <3> QED  BY <1>4, <3>1
  <2>2. f[0] * Weight(n) = 0
    <3>1. Weight(n) \in Nat  BY Weights
    <3> QED  BY <1>3, <3>1
  <2>3. Slice(limbs, 0, n) = Exp!Value(limbs)  BY SliceEnds
  <2>4. Exp!Value(limbs) \in Nat  BY NumberIsBounded
  <2> QED  BY <2>1, <2>2, <2>3, <2>4
<1> DEFINE a == f[n - 1]  b == Exp!LimbBase \div 2
<1>6. a \in Nat /\ b \in Nat /\ Exp!LimbBase = 2 * b
  <2>1. Exp!LimbBase \in Nat /\ Exp!LimbBase % 2 = 0  BY Sizes
  <2> QED  BY <1>3, <1>4, <2>1
<1>7. limbs[n] \in Nat  BY <1>4, Sizes DEF Words
<1>8. f[n] = a * Exp!LimbBase + limbs[n]  BY <1>3, <1>4
<1> HIDE DEF a, b
<1>9. a * (2 * b) = 2 * (a * b) /\ a * b \in Nat  BY <1>6
<1>10. (2 * (a * b) + limbs[n]) % 2 = limbs[n] % 2  BY <1>7, <1>9, MultipleAdded
<1> QED  BY <1>2, <1>5, <1>6, <1>8, <1>9, <1>10

\* A number is below the power of two of its bits.
LEMMA NumberFitsBits ==
  ASSUME NEW n \in Nat, NEW limbs \in Words(n)
  PROVE  Exp!Value(limbs) < Exp!PowerOfTwo[Exp!bigUIntBitSize(limbs)]
<1> DEFINE w == Exp!LIMB_SIZE_IN_BITS
           T == {j \in 1 .. n : limbs[j] # 0}
           leading == Exp!SelectInSeq(limbs, LAMBDA l : l # 0)
           bits == Exp!bigUIntBitSize(limbs)
<1>0. w \in Nat  BY Sizes
<1>1. limbs \in [1 .. n -> Exp!Limb] /\ Len(limbs) = n  BY DEF Words
<1>2. leading = IF T # {} THEN Exp!Min(T) ELSE 0  BY <1>1 DEF Exp!SelectInSeq
<1>3. T # {} => leading \in T /\ \A j \in T : leading <= j
  <2> SUFFICES ASSUME T # {} PROVE leading \in T /\ \A j \in T : leading <= j
    OBVIOUS
  <2>1. T \subseteq Nat  OBVIOUS
  <2> HIDE DEF T
  <2>2. \E j \in T : \A l \in T : j <= l  BY <2>1, Least
  <2>3. Exp!Min(T) \in T /\ \A j \in T : Exp!Min(T) <= j  BY <2>2 DEF Exp!Min
  <2> QED  BY <1>2, <2>3
<1>4. bits = IF leading = 0 THEN 0 ELSE (n - leading) * w + Exp!UIntBitSize(limbs[leading])
  BY <1>1 DEF Exp!bigUIntBitSize
<1> HIDE DEF leading, w, bits
<1>5. CASE T = {}
  <2>1. \A j \in 1 .. n : limbs[j] = 0  BY <1>5
  <2>2. limbs = [j \in 1 .. n |-> limbs[j]]  BY <1>1
  <2>3. limbs = [j \in 1 .. n |-> 0]  BY <2>1, <2>2
  <2>4. Exp!Value(limbs) = 0  BY <2>3, Sizes, ZeroesAreZero DEF Exp!Value
  <2>5. bits = 0  BY <1>2, <1>4, <1>5
  <2>6. Exp!PowerOfTwo[0] = 1  BY PowerLaws
  <2> QED  BY <2>4, <2>5, <2>6 DEF bits
<1>6. CASE T # {}
  <2> DEFINE h == leading
             ub == Exp!UIntBitSize(limbs[h])
  <2>1. h \in 1 .. n /\ limbs[h] # 0 /\ \A j \in 1 .. n : j < h => limbs[j] = 0
    <3>1. h \in 1 .. n /\ limbs[h] # 0  BY <1>3, <1>6
    <3>2. ASSUME NEW j \in 1 .. n, j < h, limbs[j] # 0 PROVE FALSE
      <4>1. j \in T  BY <3>2
      <4>2. h <= j  BY <1>3, <1>6, <4>1
      <4> QED  BY <3>1, <3>2, <4>2
    <3> QED  BY <3>1, <3>2
  <2>2. limbs[h] \in Exp!Limb /\ limbs[h] \in Nat  BY <1>1, <2>1, Sizes
  <2>3. ub \in 0 .. w /\ limbs[h] < Exp!PowerOfTwo[ub]
    BY <2>2, BitsOfWord DEF w
  <2>4. bits = (n - h) * w + ub  BY <1>4, <2>1
  <2> HIDE DEF ub, h, T
  <2>5. ub \in Nat /\ n - h \in Nat /\ w * (n - h) = (n - h) * w /\ (n - h) * w \in Nat
        /\ w * (n - h) \in Nat
    BY <1>0, <2>1, <2>3
  <2>6. Exp!PowerOfTwo[bits] = Exp!PowerOfTwo[ub] * Weight(n - h)
    <3>1. bits = ub + w * (n - h)  BY <2>4, <2>5
    <3>2. Exp!PowerOfTwo[ub + w * (n - h)] = Exp!PowerOfTwo[ub] * Exp!PowerOfTwo[w * (n - h)]
      BY <2>5, PowerSum
    <3> QED  BY <3>1, <3>2 DEF Weight, w
  <2>7. h - 1 \in 0 .. n /\ h \in 0 .. n /\ 0 \in 0 .. n /\ n \in 0 .. n /\ 0 <= h - 1 /\ h - 1 <= n
        /\ h <= n /\ (h - 1) - 0 = h - 1 /\ h - 1 \in Nat
    BY <2>1
  <2>8. Slice(limbs, 0, h - 1) = 0
    <3>1. \A j \in 1 .. (h - 1) : 0 + j = j /\ j \in 1 .. n /\ j < h  BY <2>1
    <3>2. Limbs(limbs, 0, h - 1) = [j \in 1 .. (h - 1) |-> 0]  BY <2>1, <2>7, <3>1 DEF Limbs
    <3> QED  BY <2>7, <3>2, Sizes, ZeroesAreZero DEF Slice, Exp!Value
  <2>9. Exp!Value(limbs) = Slice(limbs, h - 1, n)
    <3>1. Slice(limbs, 0, n) = Slice(limbs, 0, h - 1) * Weight(n - (h - 1)) + Slice(limbs, h - 1, n)
      BY <2>7, SliceSplit
    <3>2. Slice(limbs, 0, n) = Exp!Value(limbs)  BY SliceEnds
    <3>3. n - (h - 1) \in Nat  BY <2>1
    <3>4. 0 * Weight(n - (h - 1)) = 0  BY <3>3, Weights
    <3>5. Slice(limbs, h - 1, n) \in Nat  BY <2>7, PartOfWords
    <3> QED  BY <2>8, <3>1, <3>2, <3>4, <3>5
  <2>10. Slice(limbs, h - 1, n) = limbs[h] * Weight(n - h) + Slice(limbs, h, n)
    BY <2>1, <2>7, SliceTop
  <2>11. Slice(limbs, h, n) \in Nat /\ Slice(limbs, h, n) < Weight(n - h)
    BY <2>7, PartOfWords
  <2>12. Weight(n - h) \in Nat /\ Exp!PowerOfTwo[ub] \in Nat  BY <2>5, Weights, PowerLaws
  <2>13. limbs[h] * Weight(n - h) + Slice(limbs, h, n) < Exp!PowerOfTwo[ub] * Weight(n - h)
    BY <2>2, <2>3, <2>11, <2>12, BelowNext
  <2> QED  BY <2>6, <2>9, <2>10, <2>13 DEF bits
<1> QED  BY <1>5, <1>6

-----------------------------------------------------------------------------
(***************************************************************************)
(* Bytes.                                                                  *)
(***************************************************************************)

\* Calldata stands for a number of that many bytes.
LEMMA BytesAreBounded ==
  ASSUME NEW bytes \in Seq(Exp!Byte)
  PROVE  /\ Exp!BytesValue(bytes) \in Nat
         /\ Exp!BytesValue(bytes) < Exp!PowerOfTwo[BYTE_SIZE_IN_BITS * Len(bytes)]
<1> DEFINE w == BYTE_SIZE_IN_BITS  n == Len(bytes)  radix == Exp!PowerOfTwo[w]
<1>1. /\ w \in Nat /\ n \in Nat /\ Exp!ByteBase = radix /\ radix \in Nat
      /\ Exp!Byte = 0 .. (radix - 1) /\ bytes \in [1 .. n -> Exp!Byte]
  BY Sizes DEF Exp!ByteBase
<1> HIDE DEF w, n
<1>2. bytes \in [1 .. n -> 0 .. (radix - 1)]  BY <1>1
<1>3. bytes \in [1 .. n -> Nat]
  <2>1. \A j \in 1 .. n : bytes[j] \in Nat  BY <1>2
  <2> QED  BY <1>2, <2>1
<1>4. PICK f : Prefixes(n, bytes, radix, f) /\ Exp!digitsValue(bytes, radix) = f[n]
  <2> HIDE DEF radix
  <2> QED  BY <1>1, <1>3, DigitsValue
<1>5. \A m \in 0 .. n : f[m] \in Nat /\ f[m] < Exp!PowerOfTwo[w * m]
  BY <1>1, <1>2, <1>4, PrefixBound
<1>6. n \in 0 .. n  BY <1>1
<1> QED  BY <1>1, <1>4, <1>5, <1>6 DEF Exp!BytesValue, w, n

\* The number of a prefix is zero when its digits are.
LEMMA ZeroPrefix ==
  ASSUME NEW n \in Nat, NEW d \in [1 .. n -> Nat], NEW radix \in Nat, radix > 0, NEW f,
         Prefixes(n, d, radix, f), NEW m \in 0 .. n
  PROVE  f[m] = 0 <=> \A j \in 1 .. m : d[j] = 0
<1>1. /\ f \in [0 .. n -> Nat] /\ f[0] = 0
      /\ \A j \in 1 .. n : f[j] = f[j - 1] * radix + d[j]
  BY DEF Prefixes
<1> DEFINE Zero(l) == f[l] = 0 <=> \A j \in 1 .. l : d[j] = 0
           S == {l \in Nat : l <= n => Zero(l)}
<1>2. 0 \in S
  <2>1. \A j \in 1 .. 0 : FALSE  OBVIOUS
  <2> QED  BY <1>1, <2>1
<1>3. ASSUME NEW l \in S PROVE l + 1 \in S
  <2>1. l \in Nat /\ l + 1 \in Nat  OBVIOUS
  <2>2. CASE l + 1 <= n
    <3>1. /\ l + 1 \in 1 .. n /\ l \in 0 .. n /\ (l + 1) - 1 = l /\ l <= n
          /\ \A j \in 1 .. (l + 1) : j \in 1 .. l \/ j = l + 1
          /\ \A j \in 1 .. l : j \in 1 .. (l + 1)
          /\ l + 1 \in 1 .. (l + 1)
      BY <2>1, <2>2
    <3>2. Zero(l)  BY <3>1
    <3>3. f[l + 1] = f[l] * radix + d[l + 1] /\ f[l] \in Nat /\ d[l + 1] \in Nat
      BY <1>1, <3>1
    <3>4. f[l + 1] = 0 <=> f[l] = 0 /\ d[l + 1] = 0
      <4>1. CASE f[l] = 0
        <5>1. 0 * radix = 0  OBVIOUS
        <5> QED  BY <3>3, <4>1, <5>1
      <4>2. CASE f[l] # 0
        <5>1. f[l] * radix > 0 /\ f[l] * radix \in Nat
          <6> DEFINE u == f[l]
          <6>1. u \in Nat /\ u > 0  BY <3>3, <4>2
          <6> HIDE DEF u
          <6>2. u * radix > 0 /\ u * radix \in Nat  BY <6>1
          <6> QED  BY <6>2 DEF u
        <5> QED  BY <3>3, <4>2, <5>1
      <4> QED  BY <4>1, <4>2
    <3>5. Zero(l + 1)  BY <3>1, <3>2, <3>4
    <3> QED  BY <2>1, <3>5
  <2> QED  BY <2>1, <2>2
<1> HIDE DEF S
<1>4. m \in S  BY <1>2, <1>3, SetInduction
<1>5. m <= n  OBVIOUS
<1> QED  BY <1>4, <1>5 DEF S

\* callDataBufferIsZero and callDataBufferIsOne tell those numbers.
LEMMA TrivialBytes ==
  ASSUME NEW bytes \in Seq(Exp!Byte)
  PROVE  /\ Exp!callDataBufferIsZero(bytes) <=> Exp!BytesValue(bytes) = 0
         /\ Exp!callDataBufferIsOne(bytes) <=> Exp!BytesValue(bytes) = 1
<1> DEFINE n == Len(bytes)  radix == Exp!ByteBase
<1>1. n \in Nat /\ radix \in Nat /\ radix >= 2 /\ bytes \in [1 .. n -> Nat]
  <2>1. radix \in Nat /\ radix >= 2 /\ Exp!Byte = 0 .. (radix - 1)  BY Sizes
  <2>2. n \in Nat /\ bytes \in [1 .. n -> Exp!Byte]  OBVIOUS
  <2> HIDE DEF n, radix
  <2>3. \A j \in 1 .. n : bytes[j] \in Nat  BY <2>1, <2>2
  <2> QED  BY <2>1, <2>2, <2>3
<1> HIDE DEF n, radix
<1>2. PICK f : Prefixes(n, bytes, radix, f) /\ Exp!digitsValue(bytes, radix) = f[n]
  BY <1>1, DigitsValue
<1>3. /\ f \in [0 .. n -> Nat] /\ f[0] = 0
      /\ \A j \in 1 .. n : f[j] = f[j - 1] * radix + bytes[j]
  BY <1>2 DEF Prefixes
<1>4. Exp!BytesValue(bytes) = f[n]  BY <1>2 DEF Exp!BytesValue, radix
<1>5. ASSUME NEW m \in 0 .. n PROVE f[m] = 0 <=> \A j \in 1 .. m : bytes[j] = 0
  <2>1. radix > 0  BY <1>1
  <2> QED  BY <1>1, <1>2, <2>1, ZeroPrefix
<1>6. Exp!callDataBufferIsZero(bytes) <=> f[n] = 0
  <2>1. n \in 0 .. n  BY <1>1
  <2>2. f[n] = 0 <=> \A j \in 1 .. n : bytes[j] = 0  BY <1>5, <2>1
  <2> QED  BY <2>2 DEF Exp!callDataBufferIsZero, n
<1>7. CASE n = 0
  <2>1. f[n] = 0  BY <1>3, <1>7
  <2>2. ~Exp!callDataBufferIsOne(bytes)  BY <1>7 DEF Exp!callDataBufferIsOne, n
  <2> QED  BY <1>4, <1>6, <2>1, <2>2
<1>8. CASE n > 0
  <2> DEFINE l == n - 1
  <2>1. n \in 1 .. n /\ l \in 0 .. n /\ l \in Nat  BY <1>1, <1>8
  <2>2. f[n] = f[l] * radix + bytes[n] /\ f[l] \in Nat /\ bytes[n] \in Nat
    BY <1>1, <1>3, <2>1
  <2>3. Exp!Last(bytes) = bytes[n]  BY DEF Exp!Last, n
  <2>4. Exp!callDataBufferIsZero(Exp!Front(bytes)) <=> \A j \in 1 .. l : bytes[j] = 0
    <3>1. Exp!Front(bytes) = SubSeq(bytes, 1, l)  BY DEF Exp!Front, n
    <3>2. 1 \in 1 .. (Len(bytes) + 1) /\ l \in 0 .. Len(bytes) /\ l + 1 >= 1 /\ l - 1 + 1 = l
      BY <2>1 DEF n
    <3>3. SubSeq(bytes, 1, l) = [j \in 1 .. l |-> bytes[j]]
      <4> HIDE DEF l
      <4>1. SubSeq(bytes, 1, l) = [j \in 1 .. (l - 1 + 1) |-> bytes[1 - 1 + j]]
        BY <3>2, Part
      <4>2. \A j \in 1 .. l : 1 - 1 + j = j  BY <2>1
      <4> QED  BY <3>2, <4>1, <4>2
    <3> DEFINE e == [j \in 1 .. l |-> bytes[j]]
    <3>4. Len(e) = l /\ \A j \in 1 .. l : e[j] = bytes[j]  BY <2>1
    <3> QED  BY <3>1, <3>3, <3>4 DEF Exp!callDataBufferIsZero
  <2>5. Exp!callDataBufferIsZero(Exp!Front(bytes)) <=> f[l] = 0  BY <1>5, <2>1, <2>4
  <2>6. Exp!callDataBufferIsOne(bytes) <=> bytes[n] = 1 /\ f[l] = 0
    BY <1>8, <2>3, <2>5 DEF Exp!callDataBufferIsOne, n
  <2> DEFINE u == f[l]  v == bytes[n]
  <2>7. u \in Nat /\ v \in Nat /\ f[n] = u * radix + v  BY <2>2
  <2> HIDE DEF u, v
  <2>8. v = 1 /\ u = 0 <=> f[n] = 1
    <3>1. CASE u = 0
      <4>1. u * radix = 0  BY <1>1, <3>1
      <4> QED  BY <2>7, <3>1, <4>1
    <3>2. CASE u # 0
      <4>1. u * radix >= radix /\ u * radix \in Nat  BY <1>1, <2>7, <3>2
      <4> QED  BY <1>1, <2>7, <3>2, <4>1
    <3> QED  BY <3>1, <3>2
  <2> QED  BY <1>4, <1>6, <2>6, <2>8 DEF u, v
<1> QED  BY <1>1, <1>7, <1>8

\* Byte number fromEnd, from the least significant one, of a number of limbs.
LEMMA ByteOfNumber ==
  ASSUME NEW n \in Nat, NEW limbs \in Words(n), NEW fromEnd \in Nat,
         fromEnd < LIMB_SIZE_IN_BYTES * n
  PROVE  LET limb == limbs[n - (fromEnd \div LIMB_SIZE_IN_BYTES)]
             byte == (limb \div Exp!PowerOfTwo[BYTE_SIZE_IN_BITS * (fromEnd % LIMB_SIZE_IN_BYTES)])
                       % Exp!ByteBase
         IN  /\ byte \in Exp!Byte
             /\ byte = (Exp!Value(limbs) \div Exp!PowerOfTwo[BYTE_SIZE_IN_BITS * fromEnd]) % Exp!ByteBase
<1> DEFINE B_ == BYTE_SIZE_IN_BITS  L == LIMB_SIZE_IN_BYTES
           g == fromEnd \div L  s == fromEnd % L  p == n - g
           u == Exp!PowerOfTwo[B_ * s]  l == L - s - 1  z == Exp!PowerOfTwo[B_ * l]
           base == Exp!ByteBase
<1>1. B_ \in Nat /\ L \in Nat /\ L > 0 /\ B_ > 0  BY Sizes
<1>2. g \in Nat /\ s \in 0 .. (L - 1) /\ fromEnd = L * g + s
  <2> HIDE DEF L
  <2>1. g \in Int /\ s \in 0 .. (L - 1) /\ fromEnd = L * g + s  BY <1>1, DivMod
  <2>2. g >= 0  BY <1>1
  <2> QED  BY <2>1, <2>2
<1>3. g < n
  <2> HIDE DEF L, g, s
  <2>1. SUFFICES ASSUME g >= n PROVE FALSE
    BY <1>2
  <2>2. L * g >= L * n /\ L * g \in Nat /\ L * n \in Nat  BY <1>1, <1>2, <2>1
  <2>3. fromEnd < L * n  BY DEF L
  <2> QED  BY <1>2, <2>2, <2>3
<1>4. base = Exp!PowerOfTwo[B_] /\ base \in Nat /\ base > 0 /\ Exp!Byte = 0 .. (base - 1)
  BY Sizes DEF Exp!ByteBase
<1>5. Exp!LIMB_SIZE_IN_BITS = B_ * L  BY DEF Exp!LIMB_SIZE_IN_BITS
<1> HIDE DEF B_, L, g, s
<1>6. p \in 1 .. n /\ p - 1 \in 0 .. n /\ p \in 0 .. n /\ 0 \in 0 .. n /\ n \in 0 .. n /\ 0 <= p - 1
      /\ p - 1 <= p /\ p <= n /\ 0 <= p /\ n - p = g /\ p - (p - 1) = 1
  BY <1>2, <1>3
<1>7. l \in Nat /\ s \in Nat /\ B_ * s \in Nat /\ B_ * l \in Nat /\ B_ * g \in Nat
      /\ (B_ * L) * g \in Nat /\ B_ * fromEnd = (B_ * L) * g + B_ * s
      /\ B_ * L = B_ * s + (B_ * l + B_) /\ B_ * l + B_ \in Nat
  <2>1. l \in Nat /\ s \in Nat /\ L = s + (l + 1)  BY <1>1, <1>2
  <2>2. B_ * s \in Nat /\ B_ * l \in Nat /\ B_ * g \in Nat /\ (B_ * L) * g \in Nat
    <3>1. \A c, d \in Nat : c * d \in Nat  OBVIOUS
    <3> HIDE DEF l
    <3> QED  BY <1>1, <1>2, <2>1, <3>1
  <2>3. B_ * (L * g + s) = B_ * (L * g) + B_ * s
    <3>1. L * g \in Nat  BY <1>1, <1>2
    <3> QED  BY <1>1, <2>1, <3>1
  <2>4. B_ * (L * g) = (B_ * L) * g  BY <1>1, <1>2
  <2>5. B_ * (s + (l + 1)) = B_ * s + (B_ * l + B_)
    <3> HIDE DEF l
    <3> QED  BY <1>1, <2>1
  <2> QED  BY <1>1, <1>2, <2>1, <2>2, <2>3, <2>4, <2>5
<1> HIDE DEF l
<1>8. u \in Nat /\ u > 0 /\ z \in Nat /\ z > 0 /\ Exp!LimbBase = u * (z * base)
  <2>1. u \in Nat /\ u > 0 /\ z \in Nat /\ z > 0  BY <1>7, PowerLaws
  <2>2. Exp!PowerOfTwo[B_ * l + B_] = z * base  BY <1>1, <1>4, <1>7, PowerSum
  <2>3. Exp!PowerOfTwo[B_ * s + (B_ * l + B_)] = u * Exp!PowerOfTwo[B_ * l + B_]
    BY <1>7, PowerSum
  <2>4. Exp!LimbBase = Exp!PowerOfTwo[B_ * L]  BY <1>5 DEF Exp!LimbBase
  <2> QED  BY <1>7, <2>1, <2>2, <2>3, <2>4
<1>9. Weight(g) = Exp!PowerOfTwo[(B_ * L) * g]  BY <1>5 DEF Weight
<1>10. Exp!PowerOfTwo[B_ * fromEnd] = Weight(g) * u  BY <1>7, <1>9, PowerSum
<1> DEFINE V == Exp!Value(limbs)  hi == Slice(limbs, 0, p)  lo == Slice(limbs, p, n)
           top == Slice(limbs, 0, p - 1)  limb == limbs[p]  m == Weight(g)
<1>11. V = hi * m + lo /\ hi \in Nat /\ lo \in Nat /\ lo < m /\ m \in Nat /\ m > 0
  <2>1. Slice(limbs, 0, n) = hi * Weight(n - p) + lo  BY <1>6, SliceSplit
  <2>2. Slice(limbs, 0, n) = V  BY SliceEnds
  <2>3. hi \in Nat /\ lo \in Nat /\ lo < Weight(n - p)  BY <1>6, PartOfWords
  <2> QED  BY <1>2, <1>6, <2>1, <2>2, <2>3, Weights
<1>12. hi = top * Exp!LimbBase + limb /\ top \in Nat /\ limb \in Nat
  <2>1. hi = top * Weight(p - (p - 1)) + Slice(limbs, p - 1, p)  BY <1>6, SliceSplit
  <2>2. Slice(limbs, p - 1, p) = limb  BY <1>6, SliceEnds
  <2>3. top \in Nat  BY <1>6, PartOfWords
  <2>4. limb \in Nat  BY <1>6, Sizes DEF Words
  <2> QED  BY <1>6, <2>1, <2>2, <2>3, <2>4, Weights
<1> HIDE DEF V, hi, lo, top, limb, m, u, z, base, p
<1>13. V \div m = hi
  <2>1. m * hi = hi * m  BY <1>11
  <2>2. (m * hi + lo) \div m = hi
    <3>1. lo \in 0 .. (m - 1) /\ hi \in Int  BY <1>11
    <3> QED  BY <1>11, <3>1, DivModUnique
  <2> QED  BY <1>11, <2>1, <2>2
<1>14. V \div (m * u) = hi \div u
  <2>1. V \in Nat
    <3>1. hi * m \in Nat  BY <1>11
    <3> QED  BY <1>11, <3>1
  <2> QED  BY <1>8, <1>11, <1>13, <2>1, QuotientTwice
<1>15. hi \div u = base * (top * z) + (limb \div u)
  <2>1. top * (u * (z * base)) = u * (base * (top * z))
    <3>1. \A a1, a2, a3, a4 \in Nat : a1 * (a2 * (a3 * a4)) = a2 * (a4 * (a1 * a3))
      <4> SUFFICES ASSUME NEW a1 \in Nat, NEW a2 \in Nat, NEW a3 \in Nat, NEW a4 \in Nat
                   PROVE  a1 * (a2 * (a3 * a4)) = a2 * (a4 * (a1 * a3))
        OBVIOUS
      <4> DEFINE e == a3 * a4
      <4>1. e \in Nat /\ a1 * (a2 * e) = a2 * (a1 * e)  OBVIOUS
      <4>2. a1 * (a3 * a4) = a4 * (a1 * a3)  OBVIOUS
      <4> QED  BY <4>1, <4>2
    <3> QED  BY <1>4, <1>8, <1>12, <3>1 DEF base
  <2>2. hi = u * (base * (top * z)) + limb  BY <1>8, <1>12, <2>1
  <2>3. base * (top * z) \in Nat
    <3>1. top * z \in Nat /\ base \in Nat  BY <1>4, <1>8, <1>12 DEF base
    <3> QED  BY <3>1
  <2> DEFINE e == base * (top * z)
  <2>4. e \in Nat /\ hi = u * e + limb  BY <2>2, <2>3
  <2> HIDE DEF e
  <2>5. (u * e + limb) \div u = e + (limb \div u)  BY <1>8, <1>12, <2>4, MultipleAdded
  <2> QED  BY <2>4, <2>5 DEF e
<1>16. (base * (top * z) + (limb \div u)) % base = (limb \div u) % base
  <2>1. top * z \in Nat /\ base \in Nat /\ base > 0  BY <1>4, <1>8, <1>12 DEF base
  <2>2. limb \div u \in Nat
    <3>1. 1 \in Nat /\ 1 > 0  OBVIOUS
    <3> QED  BY <1>8, <1>12, <3>1, QuotientTwice
  <2> DEFINE e == top * z  d == limb \div u
  <2>3. e \in Nat /\ d \in Nat  BY <2>1, <2>2
  <2> HIDE DEF e, d
  <2>4. (base * e + d) % base = d % base  BY <2>1, <2>3, MultipleAdded
  <2> QED  BY <2>4 DEF e, d
<1>17. (limb \div u) % base = (V \div (m * u)) % base  BY <1>14, <1>15, <1>16
<1>18. (limb \div u) % base \in Exp!Byte
  <2>1. limb \div u \in Nat
    <3>1. 1 \in Nat /\ 1 > 0  OBVIOUS
    <3> QED  BY <1>8, <1>12, <3>1, QuotientTwice
  <2> DEFINE d == limb \div u
  <2>2. d \in Int /\ base \in Nat /\ base > 0  BY <1>4, <2>1 DEF base
  <2> HIDE DEF d
  <2>3. d % base \in 0 .. (base - 1)  BY <2>2, DivMod
  <2> QED  BY <1>4, <2>3 DEF base, d
<1> QED  BY <1>10, <1>17, <1>18 DEF limb, u, base, V, m, p, g, s, B_, L

\* The last bytes of a number that fits in them stand for it.
LEMMA LastBytes ==
  ASSUME NEW n \in Nat, NEW limbs \in Words(n), NEW len \in Nat, len <= LIMB_SIZE_IN_BYTES * n,
         Exp!Value(limbs) < Exp!PowerOfTwo[BYTE_SIZE_IN_BITS * len]
  PROVE  /\ Len(Exp!lastBytes(limbs, len)) = len
         /\ Exp!BytesValue(Exp!lastBytes(limbs, len)) = Exp!Value(limbs)
<1> DEFINE B_ == BYTE_SIZE_IN_BITS
           base == Exp!ByteBase
           V == Exp!Value(limbs)
           bytes == Exp!lastBytes(limbs, len)
           f == [j \in 0 .. len |-> V \div Exp!PowerOfTwo[B_ * (len - j)]]
<1>1. B_ \in Nat /\ base = Exp!PowerOfTwo[B_] /\ base \in Nat /\ base > 0 /\ Exp!Byte = 0 .. (base - 1)
  BY Sizes DEF Exp!ByteBase
<1>2. V \in Nat  BY NumberIsBounded
<1>3. Len(limbs) = n  BY DEF Words
<1>4. bytes = [j \in 1 .. len |-> (limbs[n - ((len - j) \div LIMB_SIZE_IN_BYTES)]
                 \div Exp!PowerOfTwo[BYTE_SIZE_IN_BITS * ((len - j) % LIMB_SIZE_IN_BYTES)]) % Exp!ByteBase]
  BY <1>3 DEF Exp!lastBytes
<1>5. ASSUME NEW j \in 1 .. len
      PROVE  bytes[j] \in Exp!Byte /\ bytes[j] = (V \div Exp!PowerOfTwo[B_ * (len - j)]) % base
  <2> DEFINE fromEnd == len - j
  <2>1. fromEnd \in Nat /\ fromEnd < LIMB_SIZE_IN_BYTES * n
    <3>1. LIMB_SIZE_IN_BYTES * n \in Nat
      <4>1. LIMB_SIZE_IN_BYTES \in Nat  BY Sizes
      <4> QED  BY <4>1
    <3> QED  BY <3>1
  <2>2. bytes[j] = (limbs[n - (fromEnd \div LIMB_SIZE_IN_BYTES)]
                 \div Exp!PowerOfTwo[BYTE_SIZE_IN_BITS * (fromEnd % LIMB_SIZE_IN_BYTES)]) % Exp!ByteBase
    BY <1>4
  <2> HIDE DEF bytes, fromEnd
  <2>3. /\ bytes[j] \in Exp!Byte
        /\ bytes[j] = (V \div Exp!PowerOfTwo[B_ * fromEnd]) % base
    BY <2>1, <2>2, ByteOfNumber
  <2> QED  BY <2>3 DEF fromEnd
<1>6. Len(bytes) = len  BY <1>4
<1>7. bytes = [j \in 1 .. len |-> bytes[j]]  BY <1>4
<1> HIDE DEF bytes, V
<1>8. bytes \in [1 .. len -> Nat]
  <2>1. \A j \in 1 .. len : bytes[j] \in Nat  BY <1>1, <1>5
  <2> QED  BY <1>7, <2>1
<1> HIDE DEF B_, base
<1>9. ASSUME NEW j \in 0 .. len
      PROVE  f[j] = V \div Exp!PowerOfTwo[B_ * (len - j)] /\ f[j] \in Nat
  <2>1. B_ * (len - j) \in Nat
    <3>1. len - j \in Nat  OBVIOUS
    <3> QED  BY <1>1, <3>1
  <2>2. Exp!PowerOfTwo[B_ * (len - j)] \in Nat /\ Exp!PowerOfTwo[B_ * (len - j)] > 0
    BY <2>1, PowerLaws
  <2>3. 1 \in Nat /\ 1 > 0  OBVIOUS
  <2> DEFINE e == Exp!PowerOfTwo[B_ * (len - j)]
  <2>4. f[j] = V \div e /\ e \in Nat /\ e > 0  BY <2>2
  <2> HIDE DEF e, f
  <2>5. V \div e \in Nat  BY <1>2, <2>3, <2>4, QuotientTwice
  <2> QED  BY <2>4, <2>5 DEF e
<1>10. f[0] = 0
  <2>1. 0 \in 0 .. len /\ len - 0 = len  OBVIOUS
  <2>2. f[0] = V \div Exp!PowerOfTwo[B_ * len]  BY <1>9, <2>1
  <2> DEFINE e == Exp!PowerOfTwo[B_ * len]
  <2>3. e \in Nat
    <3>1. B_ * len \in Nat  BY <1>1
    <3> QED  BY <3>1, PowerLaws
  <2>4. V < e  BY DEF V, B_
  <2> HIDE DEF e
  <2>5. V \div e = 0  BY <1>2, <2>3, <2>4
  <2> QED  BY <2>2, <2>5 DEF e
<1>11. ASSUME NEW j \in 1 .. len PROVE f[j] = f[j - 1] * base + bytes[j]
  <2> DEFINE t == len - j  e == Exp!PowerOfTwo[B_ * t]  a == V \div e
  <2>1. j \in 0 .. len /\ j - 1 \in 0 .. len /\ len - (j - 1) = t + 1 /\ t \in Nat  OBVIOUS
  <2>2. f[j] = a /\ f[j - 1] = V \div Exp!PowerOfTwo[B_ * (t + 1)] /\ bytes[j] = a % base
        /\ a \in Nat
    BY <1>5, <1>9, <2>1
  <2>3. B_ * (t + 1) = B_ * t + B_ /\ B_ * t \in Nat  BY <1>1, <2>1
  <2>4. Exp!PowerOfTwo[B_ * (t + 1)] = e * base /\ e \in Nat /\ e > 0
    BY <1>1, <2>3, PowerSum, PowerLaws
  <2> HIDE DEF e, t
  <2>5. V \div (e * base) = a \div base  BY <1>1, <1>2, <2>4, QuotientTwice
  <2> HIDE DEF a, f
  <2>6. a = base * (a \div base) + (a % base) /\ a \div base \in Int
    <3>1. a \in Int /\ base \in Nat /\ base > 0  BY <1>1, <2>2
    <3> QED  BY <3>1, DivMod
  <2>7. base * (a \div base) = (a \div base) * base  BY <1>1, <2>6
  <2> QED  BY <2>2, <2>4, <2>5, <2>6, <2>7
<1>12. Prefixes(len, bytes, base, f)
  <2>1. f = [j \in 0 .. len |-> f[j]]  OBVIOUS
  <2> HIDE DEF f
  <2>2. \A j \in 0 .. len : f[j] \in Nat  BY <1>9
  <2>3. f \in [0 .. len -> Nat]  BY <2>1, <2>2
  <2> QED  BY <1>10, <1>11, <2>3 DEF Prefixes
<1>13. f[len] = V
  <2>1. len \in 0 .. len /\ len - len = 0 /\ B_ * 0 = 0  BY <1>1
  <2>2. f[len] = V \div Exp!PowerOfTwo[0]  BY <1>9, <2>1
  <2>3. V \div 1 = V  BY <1>2
  <2> QED  BY <2>2, <2>3, PowerLaws
<1> HIDE DEF f
<1>14. Exp!digitsValue(bytes, base) = f[len]  BY <1>1, <1>8, <1>12, ValueOfPrefixes
<1> QED  BY <1>6, <1>13, <1>14 DEF Exp!BytesValue, base, bytes, V

-----------------------------------------------------------------------------
(***************************************************************************)
(* oneLimbImplementation.                                                  *)
(***************************************************************************)
Accumulated(m) == [pow : 0 .. (m - 1), base : 0 .. (m - 1)]
SquaredOnce(m, acc, odd) ==
  [pow |-> IF odd THEN (acc.pow * acc.base) % m ELSE acc.pow, base |-> (acc.base * acc.base) % m]
BitIsOne(p, done) == (p \div Exp!PowerOfTwo[done]) % 2 = 1

(* The passes of the loop, from a base b below a modulus m.                *)
OneLimbPasses(b, p, m, f) ==
  LET bits == Exp!UIntBitSize(p)
  IN  /\ \A j \in 0 .. bits : f[j] \in Accumulated(m)
      /\ f[0] = [pow |-> 1, base |-> b % m]
      /\ \A j \in 1 .. bits : f[j] = SquaredOnce(m, f[j - 1], BitIsOne(p, j - 1))

\* The loop makes a pass for every bit of the exponent.
LEMMA OneLimbLoop ==
  ASSUME NEW b \in Nat, NEW p \in Exp!Limb, NEW m \in Nat, m >= 2, b # 0, b # 1, p # 0
  PROVE  \E f : OneLimbPasses(b, p, m, f)
                /\ Exp!oneLimbImplementation(b, p, m) = f[Exp!UIntBitSize(p)].pow
<1> DEFINE bits == Exp!UIntBitSize(p)
           V == Accumulated(m)
           first == [pow |-> 1, base |-> b % m]
           next(acc, j) == SquaredOnce(m, acc, BitIsOne(p, j - 1))
           IsIt(h) == h = [j \in 0 .. bits |-> IF j = 0 THEN first ELSE next(h[j - 1], j)]
           g == CHOOSE h : IsIt(h)
           step == [j \in 1 .. bits |-> [acc \in V |-> next(acc, j)]]
<1>1. bits \in Nat
  <2>1. Exp!LIMB_SIZE_IN_BITS \in Nat /\ bits \in 0 .. Exp!LIMB_SIZE_IN_BITS
    BY Sizes, BitsOfWord
  <2> QED  BY <2>1
<1>2. Exp!oneLimbImplementation(b, p, m) = g[bits].pow
  <2>1. ~(m < 2)  OBVIOUS
  <2> QED  BY <2>1 DEF Exp!oneLimbImplementation, SquaredOnce, BitIsOne
<1> HIDE DEF bits
<1>3. first \in V
  <2>1. 1 \in 0 .. (m - 1) /\ b % m \in 0 .. (m - 1)
    <3>1. m > 0 /\ b \in Int  OBVIOUS
    <3> QED  BY <3>1, DivMod
  <2> QED  BY <2>1 DEF Accumulated
<1>4. ASSUME NEW acc \in V, NEW j \in 1 .. bits PROVE next(acc, j) \in V
  <2>1. acc.pow \in 0 .. (m - 1) /\ acc.base \in 0 .. (m - 1)  BY DEF Accumulated
  <2> DEFINE u == acc.pow  v == acc.base
  <2>2. u \in Nat /\ v \in Nat  BY <2>1
  <2>3. (u * v) % m \in 0 .. (m - 1) /\ (v * v) % m \in 0 .. (m - 1)
    <3> HIDE DEF u, v
    <3>1. u * v \in Nat /\ v * v \in Nat  BY <2>2
    <3> DEFINE uv == u * v  vv == v * v
    <3>2. uv \in Int /\ vv \in Int /\ m > 0  BY <3>1
    <3> HIDE DEF uv, vv
    <3>3. uv % m \in 0 .. (m - 1) /\ vv % m \in 0 .. (m - 1)  BY <3>2, DivMod
    <3> QED  BY <3>3 DEF uv, vv
  <2> QED  BY <2>1, <2>3 DEF SquaredOnce, Accumulated
<1> HIDE DEF V, next, first
<1>5. step \in Steps(bits, V)  BY <1>4 DEF Steps
<1>6. \A j \in 1 .. bits, acc \in V : step[j][acc] = next(acc, j)  OBVIOUS
<1> HIDE DEF step
<1>7. PICK f : Taken(f, bits, V, first, step)  BY <1>1, <1>3, <1>5, StepsTaken
<1>8. f \in [0 .. bits -> V] /\ f[0] = first /\ \A j \in 1 .. bits : f[j] = step[j][f[j - 1]]
  BY <1>7 DEF Taken
<1>9. ASSUME NEW j \in 0 .. bits PROVE f[j] = IF j = 0 THEN first ELSE next(f[j - 1], j)
  <2>1. CASE j = 0  BY <1>8, <2>1
  <2>2. CASE j # 0
    <3>1. j \in 1 .. bits /\ j - 1 \in 0 .. bits  BY <1>1, <2>2
    <3>2. f[j - 1] \in V  BY <1>8, <3>1
    <3> QED  BY <1>6, <1>8, <2>2, <3>1, <3>2
  <2> QED  BY <2>1, <2>2
<1>10. f = [j \in 0 .. bits |-> f[j]]  BY <1>8
<1>11. IsIt(f)  BY <1>9, <1>10
<1>12. IsIt(g)
  <2> HIDE DEF IsIt
  <2> QED  BY <1>11
<1> HIDE DEF g
<1>13. \A j \in 0 .. bits : g[j] = IF j = 0 THEN first ELSE next(g[j - 1], j)
  <2> DEFINE value(j) == IF j = 0 THEN first ELSE next(g[j - 1], j)
  <2>1. g = [j \in 0 .. bits |-> value(j)]  BY <1>12
  <2> HIDE DEF value
  <2>2. \A j \in 0 .. bits : g[j] = value(j)  BY <2>1
  <2> QED  BY <2>2 DEF value
<1>14. g[0] = first
  <2>1. 0 \in 0 .. bits  BY <1>1
  <2> QED  BY <1>13, <2>1
<1>15. \A j \in 1 .. bits : g[j] = next(g[j - 1], j)
  <2>1. \A j \in 1 .. bits : j \in 0 .. bits /\ j # 0  BY <1>1
  <2> QED  BY <1>13, <2>1
<1>16. \A j \in 0 .. bits : g[j] \in V
  <2>1. \A j \in 1 .. bits : g[j - 1] \in V => g[j] \in V  BY <1>4, <1>15
  <2> QED  BY <1>1, <1>3, <1>14, <2>1, StepsStay
<1>17. OneLimbPasses(b, p, m, g)
  BY <1>14, <1>15, <1>16 DEF OneLimbPasses, next, first, V, bits
<1> QED  BY <1>2, <1>17 DEF bits

\* One pass moves a bit of the exponent into the accumulated power.
LEMMA PassOfPower ==
  ASSUME NEW m \in Nat, m > 0, NEW u \in Nat, NEW v \in Nat, NEW e \in Nat
  PROVE  ((IF e % 2 = 1 THEN (u * v) % m ELSE u) * Exp!ToThe((v * v) % m, e \div 2)) % m
         = (u * Exp!ToThe(v, e)) % m
<1> DEFINE h == e \div 2
           vv == v * v
           s == vv % m
           y_ == Exp!ToThe(vv, h)
           z == Exp!ToThe(s, h)
<1>1. h \in Nat /\ vv \in Nat  OBVIOUS
<1>2. Exp!ToThe(v, e) = IF e % 2 = 1 THEN v * y_ ELSE y_  BY PowerByBit
<1>3. z % m = y_ % m
  <2> HIDE DEF h, vv
  <2> QED  BY <1>1, PowerOfRemainder
<1>4. y_ \in Nat
  <2> HIDE DEF h, vv
  <2> QED  BY <1>1, PowersOfBase
<1>5. z \in Nat
  <2>1. s \in Nat
    <3> HIDE DEF vv
    <3>1. vv \in Int  BY <1>1
    <3>2. s \in 0 .. (m - 1)  BY <3>1, DivMod
    <3> QED  BY <3>2
  <2> HIDE DEF h, s
  <2> QED  BY <1>1, <2>1, PowersOfBase
<1> DEFINE V == Exp!ToThe(v, e)
<1>6. V = IF e % 2 = 1 THEN v * y_ ELSE y_  BY <1>2
<1> HIDE DEF y_, z, V
<1>7. ASSUME NEW w \in Nat PROVE (w * z) % m = (w * y_) % m
  <2>1. (w * (z % m)) % m = (w * z) % m /\ (w * (y_ % m)) % m = (w * y_) % m
    <3>1. w \in Int /\ z \in Int /\ y_ \in Int  BY <1>4, <1>5
    <3> QED  BY <3>1, FactorByRemainder
  <2> QED  BY <1>3, <2>1
<1>8. CASE e % 2 = 1
  <2> DEFINE uv == u * v  w == uv % m
  <2>1. uv \in Nat  OBVIOUS
  <2>2. w \in Nat
    <3> HIDE DEF uv
    <3>1. uv \in Int  BY <2>1
    <3>2. w \in 0 .. (m - 1)  BY <3>1, DivMod
    <3> QED  BY <3>2
  <2>3. (w * z) % m = (w * y_) % m
    <3> HIDE DEF w
    <3> QED  BY <1>7, <2>2
  <2>4. (w * y_) % m = (uv * y_) % m
    <3> HIDE DEF uv
    <3>1. uv \in Int /\ y_ \in Int  BY <2>1, <1>4
    <3> QED  BY <3>1, FactorByRemainder
  <2>5. uv * y_ = u * (v * y_)  BY <1>4
  <2>6. (w * z) % m = (u * V) % m  BY <1>6, <1>8, <2>3, <2>4, <2>5
  <2>7. (IF e % 2 = 1 THEN (u * v) % m ELSE u) = w  BY <1>8
  <2> HIDE DEF w
  <2> QED  BY <2>6, <2>7 DEF V, z, s, h, vv
<1>9. CASE e % 2 # 1
  <2>1. (u * z) % m = (u * y_) % m  BY <1>7
  <2>2. (u * z) % m = (u * V) % m  BY <1>6, <1>9, <2>1
  <2>3. (IF e % 2 = 1 THEN (u * v) % m ELSE u) = u  BY <1>9
  <2> QED  BY <2>2, <2>3 DEF V, z, s, h, vv
<1> QED  BY <1>8, <1>9

\* The loop of oneLimbImplementation accumulates the power.
LEMMA LoopOfPower ==
  ASSUME NEW b \in Nat, NEW p \in Exp!Limb, NEW m \in Nat, m >= 2, NEW f, OneLimbPasses(b, p, m, f)
  PROVE  LET bits == Exp!UIntBitSize(p)
         IN  f[bits].pow \in 0 .. (m - 1) /\ f[bits].pow = Exp!ToThe(b, p) % m
<1> DEFINE bits == Exp!UIntBitSize(p)
           all == Exp!ToThe(b, p) % m
           rest(j) == p \div Exp!PowerOfTwo[j]
           S == {j \in Nat : j <= bits => (f[j].pow * Exp!ToThe(f[j].base, rest(j))) % m = all}
<1>1. bits \in Nat /\ p \in Nat /\ p < Exp!PowerOfTwo[bits]
  <2>1. Exp!LIMB_SIZE_IN_BITS \in Nat /\ bits \in 0 .. Exp!LIMB_SIZE_IN_BITS
    BY Sizes, BitsOfWord
  <2>2. p \in Nat  BY Sizes
  <2> QED  BY <2>1, <2>2, BitsOfWord
<1>2. /\ \A j \in 0 .. bits : f[j] \in Accumulated(m)
      /\ f[0] = [pow |-> 1, base |-> b % m]
      /\ \A j \in 1 .. bits : f[j] = SquaredOnce(m, f[j - 1], BitIsOne(p, j - 1))
  BY DEF OneLimbPasses
<1> HIDE DEF bits
<1>3. \A j \in 0 .. bits : f[j].pow \in 0 .. (m - 1) /\ f[j].base \in 0 .. (m - 1)
  BY <1>2 DEF Accumulated
<1>4. \A j \in Nat : Exp!PowerOfTwo[j] \in Nat /\ Exp!PowerOfTwo[j] > 0
  BY PowerLaws
<1>5. \A j \in Nat : rest(j) \in Nat
  <2> SUFFICES ASSUME NEW j \in Nat PROVE rest(j) \in Nat
    OBVIOUS
  <2> DEFINE u == Exp!PowerOfTwo[j]
  <2>1. u \in Nat /\ u > 0 /\ 1 \in Nat /\ 1 > 0  BY <1>4
  <2> HIDE DEF u
  <2>2. p \div u \in Nat  BY <1>1, <2>1, QuotientTwice
  <2> QED  BY <2>2 DEF u
<1>6. 0 \in S
  <2>1. rest(0) = p  BY <1>1, PowerLaws
  <2>2. f[0].pow = 1 /\ f[0].base = b % m  BY <1>2
  <2>3. Exp!ToThe(b % m, p) % m = all
    <3>1. m > 0  OBVIOUS
    <3> QED  BY <1>1, <3>1, PowerOfRemainder
  <2>4. Exp!ToThe(b % m, p) \in Nat
    <3>1. b % m \in Nat  OBVIOUS
    <3> DEFINE c == b % m
    <3>2. c \in Nat  BY <3>1
    <3> HIDE DEF c
    <3>3. Exp!ToThe(c, p) \in Nat  BY <1>1, <3>2, PowersOfBase
    <3> QED  BY <3>3 DEF c
  <2> DEFINE v == Exp!ToThe(b % m, p)
  <2>5. v \in Nat /\ v % m = all  BY <2>3, <2>4
  <2>6. 1 * v = v  BY <2>5
  <2>7. (1 * v) % m = all
    <3> HIDE DEF v
    <3> QED  BY <2>5, <2>6
  <2>8. (f[0].pow * Exp!ToThe(f[0].base, rest(0))) % m = all
    <3> HIDE DEF rest
    <3> QED  BY <2>1, <2>2, <2>7
  <2> QED  BY <2>8
<1>7. ASSUME NEW j \in S PROVE j + 1 \in S
  <2> SUFFICES ASSUME j + 1 <= bits
               PROVE  (f[j + 1].pow * Exp!ToThe(f[j + 1].base, rest(j + 1))) % m = all
    OBVIOUS
  <2>1. j \in Nat /\ j \in 0 .. bits /\ j + 1 \in 1 .. bits /\ (j + 1) - 1 = j /\ j <= bits
    BY <1>1
  <2> DEFINE u == f[j].pow  v == f[j].base  e == rest(j)  d == Exp!PowerOfTwo[j]
  <2>2. u \in Nat /\ v \in Nat /\ e \in Nat  BY <1>3, <1>5, <2>1
  <2>3. (u * Exp!ToThe(v, e)) % m = all  BY <2>1
  <2>4. e \div 2 = rest(j + 1)
    <3>1. d \in Nat /\ d > 0 /\ Exp!PowerOfTwo[j + 1] = 2 * d /\ 2 * d = d * 2
      BY <1>4, <2>1, PowerLaws
    <3>2. e = p \div d  OBVIOUS
    <3>3. (p \div d) \div 2 = p \div (d * 2)
      <4> HIDE DEF d
      <4> QED  BY <1>1, <3>1, QuotientTwice
    <3> QED  BY <3>1, <3>2, <3>3
  <2>5. f[j + 1] = SquaredOnce(m, f[j], e % 2 = 1)
    <3>1. f[j + 1] = SquaredOnce(m, f[j], BitIsOne(p, j))  BY <1>2, <2>1
    <3> QED  BY <3>1 DEF BitIsOne
  <2>6. f[j + 1].pow = (IF e % 2 = 1 THEN (u * v) % m ELSE u) /\ f[j + 1].base = (v * v) % m
    BY <2>5 DEF SquaredOnce
  <2> HIDE DEF u, v, e, rest, S
  <2>7. ((IF e % 2 = 1 THEN (u * v) % m ELSE u) * Exp!ToThe((v * v) % m, e \div 2)) % m
        = (u * Exp!ToThe(v, e)) % m
    <3>1. m > 0  OBVIOUS
    <3>2. \A c1, c2, c3 \in Nat :
            ((IF c3 % 2 = 1 THEN (c1 * c2) % m ELSE c1) * Exp!ToThe((c2 * c2) % m, c3 \div 2)) % m
            = (c1 * Exp!ToThe(c2, c3)) % m
      BY <3>1, PassOfPower
    <3> QED  BY <2>2, <3>2
  <2> QED  BY <2>3, <2>4, <2>6, <2>7
<1> HIDE DEF S
<1>8. bits \in S  BY <1>1, <1>6, <1>7, SetInduction
<1>9. (f[bits].pow * Exp!ToThe(f[bits].base, rest(bits))) % m = all
  <2>1. bits <= bits  BY <1>1
  <2> QED  BY <1>8, <2>1 DEF S
<1> DEFINE u == f[bits].pow  v == f[bits].base
<1>10. bits \in 0 .. bits  BY <1>1
<1>11. u \in 0 .. (m - 1) /\ v \in 0 .. (m - 1)  BY <1>3, <1>10
<1>12. rest(bits) = 0
  <2> DEFINE d == Exp!PowerOfTwo[bits]
  <2>1. d \in Nat /\ p < d  BY <1>1, <1>4
  <2> HIDE DEF d
  <2>2. p \div d = 0  BY <1>1, <2>1
  <2> QED  BY <2>2 DEF d
<1>13. (u * Exp!ToThe(v, 0)) % m = all  BY <1>9, <1>12
<1> HIDE DEF u, v, all
<1>14. Exp!ToThe(v, 0) = 1
  <2>1. v \in Nat  BY <1>11
  <2> QED  BY <2>1, PowersOfBase
<1>15. u % m = all  BY <1>11, <1>13, <1>14
<1>16. u % m = u  BY <1>11
<1> QED  BY <1>11, <1>15, <1>16 DEF u, all, bits

\* oneLimbImplementation computes the power, unless it is the one of zero to zero.
LEMMA OneLimbPower ==
  ASSUME NEW b \in Exp!Limb, NEW p \in Exp!Limb, NEW m \in Exp!Limb, ~(b = 0 /\ p = 0)
  PROVE  /\ Exp!oneLimbImplementation(b, p, m) \in Nat
         /\ Exp!oneLimbImplementation(b, p, m) = IF m = 0 THEN 0 ELSE Exp!ToThe(b, p) % m
         /\ m > 0 => Exp!oneLimbImplementation(b, p, m) < m
<1> DEFINE given == Exp!oneLimbImplementation(b, p, m)
           V == Exp!ToThe(b, p)
<1>1. b \in Nat /\ p \in Nat /\ m \in Nat  BY Sizes
<1>2. V \in Nat  BY <1>1, PowersOfBase
<1>3. CASE m < 2
  <2>1. given = 0  BY <1>3 DEF Exp!oneLimbImplementation
  <2>2. m = 1 => V % m = 0
    <3> HIDE DEF V
    <3> QED  BY <1>2
  <2> QED  BY <1>1, <1>3, <2>1, <2>2
<1>4. CASE m >= 2 /\ b = 0
  <2>1. given = 0  BY <1>4 DEF Exp!oneLimbImplementation
  <2>2. V = 0
    <3>1. p > 0  BY <1>1, <1>4
    <3> QED  BY <1>1, <1>4, <3>1, TrivialPowers
  <2>3. 0 % m = 0  BY <1>1, <1>4
  <2> QED  BY <1>1, <1>4, <2>1, <2>2, <2>3
<1>5. CASE m >= 2 /\ b # 0 /\ (b = 1 \/ p = 0)
  <2>1. given = 1
    <3>1. ~(m < 2)  BY <1>1, <1>5
    <3> QED  BY <1>5, <3>1 DEF Exp!oneLimbImplementation
  <2>2. V = 1  BY <1>1, <1>5, TrivialPowers, PowersOfBase
  <2>3. 1 % m = 1  BY <1>1, <1>5
  <2> QED  BY <1>1, <1>5, <2>1, <2>2, <2>3
<1>6. CASE m >= 2 /\ b # 0 /\ b # 1 /\ p # 0
  <2>1. PICK f : OneLimbPasses(b, p, m, f) /\ given = f[Exp!UIntBitSize(p)].pow
    BY <1>1, <1>6, OneLimbLoop
  <2>2. given \in 0 .. (m - 1) /\ given = V % m  BY <1>1, <1>6, <2>1, LoopOfPower
  <2> QED  BY <1>1, <1>6, <2>2
<1> QED  BY <1>1, <1>3, <1>4, <1>5, <1>6

-----------------------------------------------------------------------------
(***************************************************************************)
(* The special cases.                                                      *)
(***************************************************************************)

(* A reply of as many bytes as the modulus that stands for the power.      *)
IsPower(bytes) == Len(bytes) = Exp!modLen /\ Exp!BytesValue(bytes) = Exp!Power

ZeroToZero == Exp!IsOneLimb /\ Exp!BaseValue = 0 /\ Exp!ExpValue = 0

\* What a call asks for only depends on the call.
LEMMA SameQuestion ==
  ASSUME call' = call
  PROVE  /\ Exp!Power' = Exp!Power /\ Exp!modLen' = Exp!modLen
         /\ ZeroToZero' = ZeroToZero
         /\ Exp!BaseValue' = Exp!BaseValue
<1>1. Exp!BaseValue' = Exp!BaseValue /\ Exp!ExpValue' = Exp!ExpValue /\ Exp!ModValue' = Exp!ModValue
  BY DEF Exp!BaseValue, Exp!ExpValue, Exp!ModValue
<1>2. Exp!baseLen' = Exp!baseLen /\ Exp!expLen' = Exp!expLen /\ Exp!modLen' = Exp!modLen
  BY DEF Exp!baseLen, Exp!expLen, Exp!modLen
<1>3. Exp!IsOneLimb' = Exp!IsOneLimb  BY <1>2 DEF Exp!IsOneLimb
<1>4. Exp!Power' = Exp!Power  BY <1>1 DEF Exp!Power
<1> QED  BY <1>1, <1>2, <1>3, <1>4 DEF ZeroToZero

\* The operands of a call and their values.
LEMMA OperandsOfCall ==
  ASSUME call \in Calls
  PROVE  /\ call.base \in Seq(Exp!Byte) /\ call.exp \in Seq(Exp!Byte) /\ call.mod \in Seq(Exp!Byte)
         /\ Exp!modLen \in Nat /\ Exp!modLen = Len(call.mod)
         /\ Exp!BaseValue \in Nat /\ Exp!ExpValue \in Nat /\ Exp!ModValue \in Nat
         /\ Exp!ToThe(Exp!BaseValue, Exp!ExpValue) \in Nat
         /\ Exp!callDataBufferIsZero(call.base) <=> Exp!BaseValue = 0
         /\ Exp!callDataBufferIsOne(call.base) <=> Exp!BaseValue = 1
         /\ Exp!callDataBufferIsZero(call.exp) <=> Exp!ExpValue = 0
         /\ Exp!callDataBufferIsZero(call.mod) <=> Exp!ModValue = 0
         /\ Exp!callDataBufferIsOne(call.mod) <=> Exp!ModValue = 1
<1>1. call.base \in Seq(Exp!Byte) /\ call.exp \in Seq(Exp!Byte) /\ call.mod \in Seq(Exp!Byte)
  BY Layout
<1>2. Exp!modLen \in Nat /\ Exp!modLen = Len(call.mod)  BY <1>1 DEF Exp!modLen
<1>3. Exp!BaseValue \in Nat /\ Exp!ExpValue \in Nat /\ Exp!ModValue \in Nat
  BY <1>1, BytesAreBounded DEF Exp!BaseValue, Exp!ExpValue, Exp!ModValue
<1>4. Exp!ToThe(Exp!BaseValue, Exp!ExpValue) \in Nat  BY <1>3, PowersOfBase
<1>5. \A bytes \in Seq(Exp!Byte) :
        /\ Exp!callDataBufferIsZero(bytes) <=> Exp!BytesValue(bytes) = 0
        /\ Exp!callDataBufferIsOne(bytes) <=> Exp!BytesValue(bytes) = 1
  BY TrivialBytes
<1> QED  BY <1>1, <1>2, <1>3, <1>4, <1>5 DEF Exp!BaseValue, Exp!ExpValue, Exp!ModValue

\* Bytes of the length of the modulus that stand for zero and for one.
LEMMA ConstantReplies ==
  ASSUME call \in Calls
  PROVE  /\ Len(Exp!Zeroes) = Exp!modLen /\ Exp!BytesValue(Exp!Zeroes) = 0
         /\ Exp!modLen > 0 => Len(Exp!One) = Exp!modLen /\ Exp!BytesValue(Exp!One) = 1
<1> DEFINE l == Exp!modLen  zeroes == Exp!Zeroes  one == Exp!One
<1>1. l \in Nat  BY OperandsOfCall
<1>2. 0 \in Exp!Byte /\ 1 \in Exp!Byte  BY Sizes
<1>3. zeroes = [j \in 1 .. l |-> 0] /\ one = [j \in 1 .. l |-> IF j = l THEN 1 ELSE 0]
  BY DEF Exp!Zeroes, Exp!One
<1> HIDE DEF zeroes, one, l
<1>4. zeroes \in Seq(Exp!Byte) /\ Len(zeroes) = l /\ one \in Seq(Exp!Byte) /\ Len(one) = l
  <2>1. zeroes \in [1 .. l -> Exp!Byte] /\ one \in [1 .. l -> Exp!Byte]  BY <1>2, <1>3
  <2> QED  BY <1>1, <2>1
<1>5. Exp!callDataBufferIsZero(zeroes)  BY <1>3, <1>4 DEF Exp!callDataBufferIsZero
<1>6. ASSUME l > 0 PROVE Exp!callDataBufferIsOne(one)
  <2>1. Len(one) > 0  BY <1>4, <1>6
  <2>2. Exp!Last(one) = 1
    <3>1. l \in 1 .. l  BY <1>1, <1>6
    <3> QED  BY <1>3, <1>4, <3>1 DEF Exp!Last
  <2>3. Exp!Front(one) = SubSeq(one, 1, l - 1)  BY <1>4 DEF Exp!Front
  <2>4. SubSeq(one, 1, l - 1) = [j \in 1 .. (l - 1 - 1 + 1) |-> one[1 - 1 + j]]
    <3>1. one \in Seq(Exp!Byte) /\ 1 \in 1 .. (Len(one) + 1) /\ l - 1 \in 0 .. Len(one) /\ (l - 1) + 1 >= 1
      BY <1>1, <1>4, <1>6
    <3> QED  BY <3>1, Part
  <2>5. l - 1 - 1 + 1 = l - 1 /\ l - 1 \in Nat  BY <1>1, <1>6
  <2>6. Exp!Front(one) = [j \in 1 .. (l - 1) |-> one[1 - 1 + j]]  BY <2>3, <2>4, <2>5
  <2>7. Len(Exp!Front(one)) = l - 1  BY <2>5, <2>6
  <2>8. \A j \in 1 .. (l - 1) : Exp!Front(one)[j] = 0
    <3> SUFFICES ASSUME NEW j \in 1 .. (l - 1) PROVE Exp!Front(one)[j] = 0
      OBVIOUS
    <3>1. 1 - 1 + j = j /\ j \in 1 .. l /\ j # l  BY <1>1
    <3>2. Exp!Front(one)[j] = one[j]  BY <2>6, <3>1
    <3> QED  BY <1>3, <3>1, <3>2
  <2>9. Exp!callDataBufferIsZero(Exp!Front(one))  BY <2>7, <2>8 DEF Exp!callDataBufferIsZero
  <2> QED  BY <2>1, <2>2, <2>9 DEF Exp!callDataBufferIsOne
<1> QED  BY <1>4, <1>5, <1>6, TrivialBytes DEF l, zeroes, one

\* A call on operands of one limb each is answered with the power.
LEMMA OneLimbAnswer ==
  ASSUME call \in Calls, Exp!IsOneLimb, ~ZeroToZero
  PROVE  IsPower(Exp!lastBytes(<<Exp!oneLimbImplementation(Exp!BytesValue(call.base),
                                   Exp!BytesValue(call.exp), Exp!BytesValue(call.mod))>>, Exp!modLen))
<1> DEFINE l == LIMB_SIZE_IN_BYTES
           v == Exp!oneLimbImplementation(Exp!BaseValue, Exp!ExpValue, Exp!ModValue)
           limbs == <<v>>
<1>1. /\ Exp!BaseValue = Exp!BytesValue(call.base) /\ Exp!ExpValue = Exp!BytesValue(call.exp)
      /\ Exp!ModValue = Exp!BytesValue(call.mod)
  BY DEF Exp!BaseValue, Exp!ExpValue, Exp!ModValue
<1>2. Len(call.base) = l /\ Len(call.exp) = l /\ Len(call.mod) = l /\ Exp!modLen = l
  BY DEF Exp!IsOneLimb, Exp!baseLen, Exp!expLen, Exp!modLen
<1>3. l \in Nat /\ l > 0  BY Sizes
<1>4. ASSUME NEW bytes \in Seq(Exp!Byte), Len(bytes) = l PROVE Exp!BytesValue(bytes) \in Exp!Limb
  <2> HIDE DEF l
  <2>1. l \in 0 .. LIMB_SIZE_IN_BYTES /\ bytes \in [1 .. l -> Exp!Byte]  BY <1>3, <1>4 DEF l
  <2> QED  BY <2>1, LimbOfBytes DEF Exp!BytesValue
<1>5. Exp!BaseValue \in Exp!Limb /\ Exp!ExpValue \in Exp!Limb /\ Exp!ModValue \in Exp!Limb
  BY <1>1, <1>2, <1>4, OperandsOfCall
<1>6. ~(Exp!BaseValue = 0 /\ Exp!ExpValue = 0)  BY DEF ZeroToZero
<1>7. v \in Nat /\ v = Exp!Power /\ (Exp!ModValue > 0 => v < Exp!ModValue)
  BY <1>5, <1>6, OneLimbPower DEF Exp!Power
<1>8. v \in Exp!Limb
  <2>1. Exp!ModValue \in 0 .. (Exp!LimbBase - 1) /\ Exp!LimbBase \in Nat /\ Exp!LimbBase >= 2
    BY <1>5, Sizes
  <2>2. Exp!ModValue = 0 => v = 0  BY <1>7 DEF Exp!Power
  <2> HIDE DEF v
  <2>3. v \in 0 .. (Exp!LimbBase - 1)  BY <1>7, <2>1, <2>2
  <2> QED  BY <2>3, Sizes
<1> HIDE DEF v
<1>9. limbs \in Words(1) /\ limbs[1] = v  BY <1>8 DEF Words
<1> HIDE DEF limbs
<1>10. Exp!Value(limbs) = v
  <2>1. 1 \in Nat /\ 1 \in 1 .. 1 /\ 1 - 1 = 0  OBVIOUS
  <2>2. Slice(limbs, 0, 1) = limbs[1] /\ Slice(limbs, 0, 1) = Exp!Value(limbs)
    BY <1>9, <2>1, SliceEnds
  <2> QED  BY <1>9, <2>2
<1>11. Exp!Value(limbs) < Exp!PowerOfTwo[BYTE_SIZE_IN_BITS * l]
  <2>1. Exp!LimbBase = Exp!PowerOfTwo[BYTE_SIZE_IN_BITS * l]
    BY DEF Exp!LimbBase, Exp!LIMB_SIZE_IN_BITS
  <2>2. v < Exp!LimbBase  BY <1>8, Sizes
  <2> QED  BY <1>10, <2>1, <2>2
<1>12. /\ Len(Exp!lastBytes(limbs, l)) = l
       /\ Exp!BytesValue(Exp!lastBytes(limbs, l)) = Exp!Value(limbs)
  <2>1. l <= LIMB_SIZE_IN_BYTES * 1  BY <1>3
  <2> HIDE DEF l
  <2> QED  BY <1>3, <1>9, <1>11, <2>1, LastBytes
<1>13. IsPower(Exp!lastBytes(limbs, l))  BY <1>2, <1>7, <1>10, <1>12 DEF IsPower
<1> QED  BY <1>1, <1>2, <1>13 DEF limbs, v

\* The special cases of the fallback.
SpecialCase ==
  \/ Exp!ReturnEmpty \/ Exp!ReturnOneLimb \/ Exp!ReturnTrivialModulus
  \/ Exp!ReturnBaseOne \/ Exp!ReturnExponentZero \/ Exp!ReturnBaseZero

\* Every special case is answered with the power, unless it is zero to zero in one limb.
LEMMA SpecialCasesAnswer ==
  ASSUME OperandsInvariant, SpecialCase, ~ZeroToZero
  PROVE  IsPower(reply')
<1> DEFINE V == Exp!ToThe(Exp!BaseValue, Exp!ExpValue)
<1>1. expPc = "start"
  BY DEF SpecialCase, Exp!ReturnEmpty, Exp!ReturnOneLimb, Exp!ReturnTrivialModulus,
         Exp!ReturnBaseOne, Exp!ReturnExponentZero, Exp!ReturnBaseZero, Exp!General
<1>2. call \in Calls  BY <1>1 DEF OperandsInvariant
<1>3. /\ Exp!modLen \in Nat /\ Exp!modLen = Len(call.mod)
      /\ Exp!BaseValue \in Nat /\ Exp!ExpValue \in Nat /\ Exp!ModValue \in Nat /\ V \in Nat
      /\ Exp!callDataBufferIsZero(call.base) <=> Exp!BaseValue = 0
      /\ Exp!callDataBufferIsOne(call.base) <=> Exp!BaseValue = 1
      /\ Exp!callDataBufferIsZero(call.exp) <=> Exp!ExpValue = 0
      /\ Exp!callDataBufferIsZero(call.mod) <=> Exp!ModValue = 0
      /\ Exp!callDataBufferIsOne(call.mod) <=> Exp!ModValue = 1
  BY <1>2, OperandsOfCall
<1>4. Exp!Power = IF Exp!ModValue = 0 THEN 0 ELSE V % Exp!ModValue  BY DEF Exp!Power
<1>5. ~Exp!ModulusIsTrivial => Exp!ModValue >= 2 /\ Exp!modLen > 0
  <2>1. ~Exp!ModulusIsTrivial => Exp!ModValue # 0 /\ Exp!ModValue # 1
    BY <1>3 DEF Exp!ModulusIsTrivial
  <2>2. Exp!modLen = 0 => Exp!callDataBufferIsZero(call.mod)
    BY <1>3 DEF Exp!callDataBufferIsZero
  <2> QED  BY <1>3, <2>1, <2>2
<1>6. /\ Len(Exp!Zeroes) = Exp!modLen /\ Exp!BytesValue(Exp!Zeroes) = 0
      /\ Exp!modLen > 0 => Len(Exp!One) = Exp!modLen /\ Exp!BytesValue(Exp!One) = 1
  BY <1>2, ConstantReplies
<1>7. ASSUME Exp!ModValue >= 2 PROVE V = 1 => Exp!Power = 1
  <2>1. 1 % Exp!ModValue = 1  BY <1>3, <1>7
  <2> QED  BY <1>3, <1>4, <1>7, <2>1
<1>8. ASSUME Exp!ModValue >= 2 PROVE V = 0 => Exp!Power = 0
  <2>1. 0 % Exp!ModValue = 0  BY <1>3, <1>8
  <2> QED  BY <1>3, <1>4, <1>8, <2>1
<1>9. CASE Exp!ReturnEmpty
  <2>1. reply' = <<>> /\ Exp!modLen = 0  BY <1>9 DEF Exp!ReturnEmpty, Exp!IsEmpty, Exp!Answer
  <2>2. Exp!ModValue = 0  BY <1>3, <2>1 DEF Exp!callDataBufferIsZero
  <2>3. Exp!Zeroes = <<>>  BY <2>1 DEF Exp!Zeroes
  <2> QED  BY <1>4, <1>6, <2>1, <2>2, <2>3 DEF IsPower
<1>10. CASE Exp!ReturnOneLimb
  BY <1>2, <1>10, OneLimbAnswer DEF Exp!ReturnOneLimb, Exp!Answer
<1>11. CASE Exp!ReturnTrivialModulus
  <2>1. reply' = Exp!Zeroes /\ (Exp!ModValue = 0 \/ Exp!ModValue = 1)
    BY <1>3, <1>11 DEF Exp!ReturnTrivialModulus, Exp!ModulusIsTrivial, Exp!Answer
  <2>2. Exp!Power = 0
    <3>1. V % 1 = 0
      <4> HIDE DEF V
      <4> QED  BY <1>3
    <3> QED  BY <1>4, <2>1, <3>1
  <2> QED  BY <1>6, <2>1, <2>2 DEF IsPower
<1>12. CASE Exp!ReturnBaseOne
  <2>1. reply' = Exp!One /\ Exp!BaseValue = 1 /\ ~Exp!ModulusIsTrivial
    BY <1>3, <1>12 DEF Exp!ReturnBaseOne, Exp!Answer
  <2>2. V = 1  BY <1>3, <2>1, TrivialPowers
  <2> QED  BY <1>5, <1>6, <1>7, <2>1, <2>2 DEF IsPower
<1>13. CASE Exp!ReturnExponentZero
  <2>1. reply' = Exp!One /\ Exp!ExpValue = 0 /\ ~Exp!ModulusIsTrivial
    BY <1>3, <1>13 DEF Exp!ReturnExponentZero, Exp!Answer
  <2>2. V = 1  BY <1>3, <2>1, PowersOfBase
  <2> QED  BY <1>5, <1>6, <1>7, <2>1, <2>2 DEF IsPower
<1>14. CASE Exp!ReturnBaseZero
  <2>1. reply' = Exp!Zeroes /\ Exp!BaseValue = 0 /\ Exp!ExpValue # 0 /\ ~Exp!ModulusIsTrivial
    BY <1>3, <1>14 DEF Exp!ReturnBaseZero, Exp!Answer
  <2>2. V = 0
    <3>1. Exp!ExpValue > 0  BY <1>3, <2>1
    <3> QED  BY <1>3, <2>1, <3>1, TrivialPowers
  <2> QED  BY <1>5, <1>6, <1>8, <2>1, <2>2 DEF IsPower
<1> QED  BY <1>9, <1>10, <1>11, <1>12, <1>13, <1>14 DEF SpecialCase

-----------------------------------------------------------------------------
(***************************************************************************)
(* What a division leaves.                                                 *)
(***************************************************************************)

\* The last subtraction leaves the remainder.
LEMMA LastSubtraction ==
  ASSUME NEW number \in Nat, NEW shiftedDivisor \in Nat, NEW divisor \in Nat, divisor > 0,
         NEW whole, Partial(number, shiftedDivisor, divisor, 0, whole),
         NEW space \in Nat, NEW difference \in Nat, difference < space, NEW borrow \in {0, 1},
         difference - borrow * space = number - shiftedDivisor
  PROVE  (IF borrow = 0 THEN difference ELSE number) = whole % divisor
<1>1. shiftedDivisor = divisor /\ number % divisor = whole % divisor /\ number < 2 * divisor
  <2>1. Exp!PowerOfTwo[0] = 1 /\ Exp!PowerOfTwo[0 + 1] = 2
    <3>1. Exp!PowerOfTwo[0] = 1 /\ Exp!PowerOfTwo[0 + 1] = 2 * Exp!PowerOfTwo[0]  BY PowerLaws
    <3> QED  BY <3>1
  <2>2. divisor * 1 = divisor /\ divisor * 2 = 2 * divisor  OBVIOUS
  <2> QED  BY <2>1, <2>2 DEF Partial
<1>2. CASE borrow = 0
  <2>1. difference = number - divisor
    <3> DEFINE e == borrow * space
    <3>1. e = 0  BY <1>2
    <3>2. difference - e = number - divisor  BY <1>1
    <3> HIDE DEF e
    <3> QED  BY <3>1, <3>2
  <2>2. difference \in 0 .. (divisor - 1) /\ 1 \in Int  BY <1>1, <2>1
  <2>3. divisor * 1 + difference = number  BY <2>1
  <2>4. (divisor * 1 + difference) % divisor = difference  BY <2>2, DivModUnique
  <2> QED  BY <1>1, <1>2, <2>3, <2>4
<1>3. CASE borrow = 1
  <2>1. difference - space = number - divisor
    <3> DEFINE e == borrow * space
    <3>1. e = space  BY <1>3
    <3>2. difference - e = number - divisor  BY <1>1
    <3> HIDE DEF e
    <3> QED  BY <3>1, <3>2
  <2>2. number < divisor  BY <2>1
  <2>3. number % divisor = number  BY <2>2
  <2> QED  BY <1>1, <1>3, <2>3
<1> QED  BY <1>2, <1>3

\* The base or the result, whichever is not being reduced, is what it was.
LEMMA RemPassKeepsOther ==
  ASSUME OperandsInvariant, Exp!RemPass,
         NEW p \in {5 * Exp!nLimbs, 6 * Exp!nLimbs}, p # frame.rem_ptr
  PROVE  Exp!Region(mem', p, Exp!nLimbs) = Exp!Region(mem, p, Exp!nLimbs)
<1> DEFINE n == Exp!nLimbs
           top == 7 * n - 1
           one == frame.tmp_ptr_1
           two == frame.tmp_ptr_2
           rem == frame.rem_ptr
           r_ == Exp!bigUIntSubWithBorrow(Exp!Number(rem), Exp!Number(one))
           stored == Exp!Store(mem, two, r_.difference)
           subtracted == IF r_.borrow = 0 THEN Exp!Store(stored, rem, r_.difference) ELSE stored
           half == Exp!bigUIntOneShiftRight(Exp!Number(one))
<1>1. /\ expPc = "rem"
      /\ \/ mem' = subtracted
         \/ mem' = Exp!Store(subtracted, one, half)
  BY DEF Exp!RemPass
<1>2. /\ call \in Calls /\ n > 0 /\ n \in Nat /\ mem \in Memories(top)
      /\ \E dividendPtr : Division(n, dividendPtr, one, two, rem, frame.returnTo)
  <2>1. call \in Calls  BY <1>1 DEF OperandsInvariant, Busy
  <2> QED  BY <1>1, <2>1, OperandsInLimbs DEF OperandsInvariant, Busy, HoldsOperands
<1>3. p \in {5 * n, 6 * n} /\ p # rem  OBVIOUS
<1> HIDE DEF n
<1>4. /\ one \in Nat /\ two \in Nat /\ rem \in Nat /\ top \in Nat /\ p \in Nat
      /\ one + n <= top + 1 /\ two + n <= top + 1 /\ rem + n <= top + 1 /\ p + n <= top + 1
      /\ one + n <= p /\ two + n <= p /\ (p + n <= rem \/ rem + n <= p)
  <2>1. \/ one = 3 * n /\ two = 4 * n /\ rem = 5 * n
        \/ one = 0 /\ two = 4 * n /\ rem = 6 * n
        \/ one = 3 * n /\ two = 0 /\ rem = 5 * n
    BY <1>2 DEF Division
  <2> HIDE DEF one, two, rem
  <2> QED  BY <1>2, <1>3, <2>1
<1>5. Exp!Number(rem) \in Words(n) /\ Exp!Number(one) \in Words(n)
  <2>1. Exp!Number(rem) = Exp!Region(mem, rem, n) /\ Exp!Number(one) = Exp!Region(mem, one, n)
    BY DEF Exp!Number, n
  <2> HIDE DEF top, one, two, rem
  <2> QED  BY <1>2, <1>4, <2>1, RegionType
<1>6. r_.difference \in Words(n)
  <2> HIDE DEF top, one, two, rem
  <2> QED  BY <1>2, <1>5, Subtracted
<1>7. half \in Words(n)
  <2> HIDE DEF top, one, two, rem
  <2> QED  BY <1>2, <1>5, ShiftedRight DEF Words
<1> HIDE DEF r_, half, top, one, two, rem
<1>8. /\ stored \in Memories(top) /\ SameOutside(mem, stored, top, two, n)
  BY <1>2, <1>4, <1>6, Stored
<1>9. Exp!Region(stored, p, n) = Exp!Region(mem, p, n)  BY <1>2, <1>4, <1>8, RegionKept
<1> HIDE DEF stored
<1>10. subtracted \in Memories(top) /\ Exp!Region(subtracted, p, n) = Exp!Region(stored, p, n)
  <2>1. CASE r_.borrow = 0
    <3> DEFINE s == Exp!Store(stored, rem, r_.difference)
    <3>1. s \in Memories(top) /\ SameOutside(stored, s, top, rem, n)
      BY <1>2, <1>4, <1>6, <1>8, Stored
    <3>2. subtracted = s  BY <2>1
    <3> HIDE DEF s, subtracted
    <3> QED  BY <1>2, <1>4, <3>1, <3>2, RegionKept
  <2>2. CASE r_.borrow # 0
    <3>1. subtracted = stored  BY <2>2
    <3> QED  BY <1>8, <3>1
  <2> QED  BY <2>1, <2>2
<1> HIDE DEF subtracted
<1>11. Exp!Region(Exp!Store(subtracted, one, half), p, n) = Exp!Region(subtracted, p, n)
  <2> DEFINE s == Exp!Store(subtracted, one, half)
  <2>1. SameOutside(subtracted, s, top, one, n)
    BY <1>2, <1>4, <1>7, <1>10, Stored
  <2> HIDE DEF s
  <2>2. Exp!Region(s, p, n) = Exp!Region(subtracted, p, n)  BY <1>2, <1>4, <2>1, RegionKept
  <2> QED  BY <2>2 DEF s
<1> QED  BY <1>1, <1>9, <1>10, <1>11 DEF n

\* The last pass of a division that lost no borrow leaves the remainder of the dividend.
LEMMA DivisionLeavesRemainder ==
  ASSUME OperandsInvariant, RemainderInvariant, Exp!RemPass, bd = 0, exact'
  PROVE  /\ exact
         /\ Exp!Value(Exp!Region(mem', frame.rem_ptr, Exp!nLimbs)) = dividend % Exp!ModValue
<1> DEFINE n == Exp!nLimbs
           top == 7 * n - 1
           one == frame.tmp_ptr_1
           two == frame.tmp_ptr_2
           rem == frame.rem_ptr
           number == Exp!Region(mem, rem, n)
           shifted == Exp!Region(mem, one, n)
           r_ == Exp!bigUIntSubWithBorrow(number, shifted)
           stored == Exp!Store(mem, two, r_.difference)
           subtracted == IF r_.borrow = 0 THEN Exp!Store(stored, rem, r_.difference) ELSE stored
           space == Exp!PowerOfTwo[Exp!LIMB_SIZE_IN_BITS * n]
<1>1. expPc = "rem" /\ exact' = (exact /\ Exp!BorrowsAreKept) /\ (mem' = subtracted \/ bd > 0)
  BY DEF Exp!RemPass, Exp!Number
<1>2. mem' = subtracted
  <2>1. ~(bd > 0)  OBVIOUS
  <2> QED  BY <1>1, <2>1
<1>3. exact /\ Exp!BorrowsAreKept  BY <1>1
<1>4. /\ call \in Calls /\ n > 0 /\ n \in Nat /\ mem \in Memories(top)
      /\ \E dividendPtr : Division(n, dividendPtr, one, two, rem, frame.returnTo)
      /\ Exp!ModValue \in Nat
  <2>1. call \in Calls  BY <1>1 DEF OperandsInvariant, Busy
  <2> QED  BY <1>1, <2>1, OperandsInLimbs DEF OperandsInvariant, Busy, HoldsOperands
<1>5. /\ Exp!ModValue > 0
      /\ Partial(Exp!Value(number), Exp!Value(shifted), Exp!ModValue, 0, dividend)
  BY <1>1, <1>3 DEF RemainderInvariant, Busy, Exp!Number
<1>6. Exp!Value(r_.difference) - r_.borrow * space = Exp!Value(number) - Exp!Value(shifted)
  BY <1>3 DEF Exp!BorrowsAreKept, Exp!Number
<1> HIDE DEF n
<1>7. /\ one \in Nat /\ two \in Nat /\ rem \in Nat /\ top \in Nat
      /\ one + n <= top + 1 /\ two + n <= top + 1 /\ rem + n <= top + 1
      /\ two + n <= rem
  <2>1. \/ one = 3 * n /\ two = 4 * n /\ rem = 5 * n
        \/ one = 0 /\ two = 4 * n /\ rem = 6 * n
        \/ one = 3 * n /\ two = 0 /\ rem = 5 * n
    BY <1>4 DEF Division
  <2> HIDE DEF one, two, rem
  <2> QED  BY <1>4, <2>1
<1> HIDE DEF top, one, two, rem
<1>8. number \in Words(n) /\ shifted \in Words(n)  BY <1>4, <1>7, RegionType
<1> HIDE DEF number, shifted
<1>9. r_.difference \in Words(n) /\ r_.borrow \in {0, 1}  BY <1>4, <1>8, Subtracted
<1> HIDE DEF r_
<1> DEFINE left == IF r_.borrow = 0 THEN r_.difference ELSE number
<1>10. Exp!Value(left) = dividend % Exp!ModValue
  <2> DEFINE v == Exp!Value(number)  w == Exp!Value(shifted)  d == Exp!Value(r_.difference)
             b == r_.borrow
  <2>1. v \in Nat /\ w \in Nat /\ d \in Nat /\ d < space
    BY <1>4, <1>8, <1>9, NumberIsBounded
  <2>2. space \in Nat
    <3>1. Exp!LIMB_SIZE_IN_BITS * n \in Nat
      <4>1. Exp!LIMB_SIZE_IN_BITS \in Nat  BY Sizes
      <4> QED  BY <1>4, <4>1
    <3> QED  BY <3>1, PowerLaws
  <2>3. Partial(v, w, Exp!ModValue, 0, dividend) /\ d - b * space = v - w  BY <1>5, <1>6
  <2>4. Exp!Value(left) = IF b = 0 THEN d ELSE v  OBVIOUS
  <2>5. b \in {0, 1}  BY <1>9
  <2> HIDE DEF v, w, d, space, b, left
  <2>6. (IF b = 0 THEN d ELSE v) = dividend % Exp!ModValue
    BY <1>4, <1>5, <2>1, <2>2, <2>3, <2>5, LastSubtraction
  <2> QED  BY <2>4, <2>6
<1>11. stored \in Memories(top) /\ SameOutside(mem, stored, top, two, n)
  BY <1>4, <1>7, <1>9, Stored
<1> HIDE DEF stored
<1>12. Exp!Region(stored, rem, n) = number
  <2>1. Exp!Region(stored, rem, n) = Exp!Region(mem, rem, n)  BY <1>4, <1>7, <1>11, RegionKept
  <2> QED  BY <2>1 DEF number
<1>13. Exp!Region(subtracted, rem, n) = left
  <2>1. CASE r_.borrow = 0
    <3>1. Exp!Region(Exp!Store(stored, rem, r_.difference), rem, n) = r_.difference
      BY <1>4, <1>7, <1>9, <1>11, Stored
    <3> QED  BY <2>1, <3>1
  <2>2. CASE r_.borrow # 0
    <3>1. subtracted = stored /\ left = number  BY <2>2
    <3> QED  BY <1>12, <3>1
  <2> QED  BY <2>1, <2>2
<1> HIDE DEF left, subtracted
<1> QED  BY <1>2, <1>3, <1>10, <1>13 DEF n, rem

\* A division takes the number at its dividend pointer as its dividend and leaves the
\* other of the base and the result.
LEMMA DivisionTakes ==
  ASSUME NEW m, NEW dividendPtr, NEW first, NEW second, NEW remPtr, NEW returnTo,
         DivisionBegins(m, dividendPtr, first, second, remPtr, returnTo)
  PROVE  /\ expPc' \in {"rem", "outOfGas"} /\ call' = call
         /\ frame'.rem_ptr = remPtr /\ frame'.returnTo = returnTo
         /\ dividend' = Exp!Value(Exp!Region(m, dividendPtr, Exp!nLimbs))
         /\ expPc' = "rem" /\ exact' => exact
         /\ \A p \in {5 * Exp!nLimbs, 6 * Exp!nLimbs} :
              p # remPtr => Exp!Region(mem', p, Exp!nLimbs) = Exp!Region(m, p, Exp!nLimbs)
<1>1. /\ call \in Calls /\ Exp!nLimbs > 0 /\ call' = call
      /\ m \in Memories(7 * Exp!nLimbs - 1) /\ m[Exp!nLimbs] = 0
      /\ Division(Exp!nLimbs, dividendPtr, first, second, remPtr, returnTo)
      /\ Exp!bigUIntRem(m, dividendPtr, first, second, remPtr, returnTo)
  BY DEF DivisionBegins, HoldsOperands
<1>2. dividend' = Exp!Value(Exp!Region(m, dividendPtr, Exp!nLimbs))  BY <1>1 DEF Exp!bigUIntRem
<1>3. expPc' = "rem" /\ exact' => exact  BY <1>1 DEF Exp!bigUIntRem
<1>4. /\ frame' = [tmp_ptr_1 |-> first, tmp_ptr_2 |-> second,
                   rem_ptr |-> remPtr, returnTo |-> returnTo]
      /\ expPc' \in {"rem", "outOfGas"}
      /\ \A p \in {5 * Exp!nLimbs, 6 * Exp!nLimbs} :
           p # remPtr => Exp!Region(mem', p, Exp!nLimbs) = Exp!Region(m, p, Exp!nLimbs)
  BY <1>1, DivisionStarts
<1> QED  BY <1>1, <1>2, <1>3, <1>4

-----------------------------------------------------------------------------
(***************************************************************************)
(* The numbers of bigUIntModularExponentiation.                            *)
(***************************************************************************)

\* The modulus fits in half of the limbs, and in the bytes of its operand; these fit
\* in the limbs.
LEMMA ModulusFits ==
  ASSUME call \in Calls
  PROVE  /\ \E h \in Nat : Exp!nLimbs = 2 * h /\ Exp!ModValue < Weight(h)
         /\ Exp!ModValue < Exp!PowerOfTwo[BYTE_SIZE_IN_BITS * Exp!modLen]
         /\ Exp!modLen <= LIMB_SIZE_IN_BYTES * Exp!nLimbs
<1> DEFINE l == Exp!bigIntLimbs(Len(call.mod))
           w == Exp!LIMB_SIZE_IN_BITS
           b == LIMB_SIZE_IN_BYTES
<1>1. PICK h \in Nat : Exp!nLimbs = 2 * h /\ l <= h  BY Layout
<1>2. call.mod \in Seq(Exp!Byte) /\ Exp!modLen = Len(call.mod) /\ Exp!modLen \in Nat
      /\ Exp!ModValue \in Nat
  BY OperandsOfCall
<1>3. l \in Nat /\ Exp!modLen <= b * l  BY <1>2, LimbsNeeded
<1>4. Exp!parseCalldata(call.mod) \in Words(l) /\ Exp!Value(Exp!parseCalldata(call.mod)) = Exp!ModValue
  BY <1>2, Parsed DEF Exp!ModValue
<1>5. w \in Nat /\ b \in Nat  BY Sizes
<1> HIDE DEF l, w, b
<1>6. Exp!ModValue < Exp!PowerOfTwo[w * l]  BY <1>3, <1>4, NumberIsBounded DEF w
<1>7. w * l \in Nat /\ w * h \in Nat /\ w * l <= w * h  BY <1>1, <1>3, <1>5
<1>8. Exp!PowerOfTwo[w * l] <= Exp!PowerOfTwo[w * h] /\ Exp!PowerOfTwo[w * l] \in Nat
      /\ Exp!PowerOfTwo[w * h] \in Nat
  BY <1>7, PowerGrows, PowerLaws
<1>9. Exp!ModValue < Weight(h)
  <2>1. Weight(h) = Exp!PowerOfTwo[w * h]  BY DEF Weight, w
  <2> DEFINE u == Exp!PowerOfTwo[w * l]  v == Exp!PowerOfTwo[w * h]
  <2>2. Exp!ModValue < u /\ u <= v /\ u \in Nat /\ v \in Nat  BY <1>6, <1>8
  <2> HIDE DEF u, v
  <2>3. Exp!ModValue < v  BY <1>2, <2>2
  <2> QED  BY <2>1, <2>3 DEF v
<1>10. Exp!ModValue < Exp!PowerOfTwo[BYTE_SIZE_IN_BITS * Exp!modLen]
  BY <1>2, BytesAreBounded DEF Exp!ModValue
<1>11. Exp!modLen <= b * Exp!nLimbs
  <2>1. b * l \in Nat /\ b * h \in Nat /\ b * l <= b * h /\ b * (2 * h) = 2 * (b * h)
    BY <1>1, <1>3, <1>5
  <2> QED  BY <1>1, <1>2, <1>3, <2>1
<1> QED  BY <1>1, <1>9, <1>10, <1>11 DEF b

\* The product of the lower halves of two numbers below the modulus is their product.
LEMMA ProductOfHalves ==
  ASSUME call \in Calls, NEW a \in Words(Exp!nLimbs), NEW c \in Words(Exp!nLimbs),
         Exp!Value(a) < Exp!ModValue, Exp!Value(c) < Exp!ModValue
  PROVE  LET product == Exp!bigUIntMul(Exp!bigUIntLowerHalf(a), Exp!bigUIntLowerHalf(c))
         IN  product \in Words(Exp!nLimbs) /\ Exp!Value(product) = Exp!Value(a) * Exp!Value(c)
<1>1. PICK h \in Nat : Exp!nLimbs = 2 * h /\ Exp!ModValue < Weight(h)  BY ModulusFits
<1>2. Exp!ModValue \in Nat  BY OperandsOfCall
<1>3. ASSUME NEW d \in Words(Exp!nLimbs), Exp!Value(d) < Exp!ModValue
      PROVE  /\ Exp!bigUIntLowerHalf(d) \in Words(h)
             /\ Exp!Value(Exp!bigUIntLowerHalf(d)) = Exp!Value(d)
  <2>1. d \in Words(2 * h) /\ 2 * h \in Nat  BY <1>1
  <2>2. Exp!Value(d) \in Nat  BY <2>1, NumberIsBounded
  <2>3. Weight(h) \in Nat  BY <1>1, Weights
  <2>4. Exp!Value(d) < Weight(h)  BY <1>1, <1>2, <1>3, <2>2, <2>3
  <2> QED  BY <2>1, <2>4, ValueOfLowerHalf
<1> DEFINE u == Exp!bigUIntLowerHalf(a)  v == Exp!bigUIntLowerHalf(c)
<1>4. u \in Words(h) /\ v \in Words(h) /\ Exp!Value(u) = Exp!Value(a) /\ Exp!Value(v) = Exp!Value(c)
  BY <1>3
<1> HIDE DEF u, v
<1>5. Exp!bigUIntMul(u, v) \in Words(2 * h)  BY <1>4, Multiplied
<1>6. Exp!Value(Exp!bigUIntMul(u, v)) = Exp!Value(u) * Exp!Value(v)  BY <1>4, ProductOfNumbers
<1> QED  BY <1>1, <1>4, <1>5, <1>6 DEF u, v

\* The result is set to one.
LEMMA ResultIsOne ==
  ASSUME NEW n \in Nat, n > 0
  PROVE  Exp!Value(Exp!bigUIntInPlaceOrWith1([j \in 1 .. n |-> 0])) = 1
<1> DEFINE zeros == [j \in 1 .. n |-> 0]
           d == Exp!bigUIntInPlaceOrWith1(zeros)
           first == n - 1
<1>0. 0 \in Exp!Limb  BY Sizes
<1>1. zeros \in Words(n)  BY <1>0 DEF Words
<1>2. d \in Words(n)  BY <1>1, OrWithOne
<1>3. d = [j \in 1 .. n |-> IF j = n THEN 1 ELSE 0]
  <2>1. Len(zeros) = n /\ 0 % 2 = 0 /\ 0 + 1 = 1 /\ \A j \in 1 .. n : zeros[j] = 0  OBVIOUS
  <2> HIDE DEF zeros
  <2> QED  BY <2>1 DEF Exp!bigUIntInPlaceOrWith1
<1> HIDE DEF d
<1>4. first \in Nat /\ first \in 0 .. n /\ n \in 0 .. n /\ 0 \in 0 .. n /\ n \in 1 .. n
      /\ 0 <= first /\ first <= n
  OBVIOUS
<1>5. Slice(d, 0, n) = Slice(d, 0, first) * Weight(n - first) + Slice(d, first, n)
  <2> HIDE DEF first
  <2> QED  BY <1>2, <1>4, SliceSplit
<1>6. Slice(d, first, n) = 1
  <2>1. Slice(d, n - 1, n) = d[n]  BY <1>2, <1>4, SliceEnds
  <2>2. d[n] = 1  BY <1>3, <1>4
  <2> QED  BY <2>1, <2>2
<1>7. Slice(d, 0, first) = 0
  <2>1. \A j \in 1 .. (first - 0) : d[0 + j] = 0
    <3> SUFFICES ASSUME NEW j \in 1 .. (first - 0) PROVE d[0 + j] = 0
      OBVIOUS
    <3>1. 0 + j = j /\ j \in 1 .. n /\ j # n  OBVIOUS
    <3> QED  BY <1>3, <3>1
  <2>2. Limbs(d, 0, first) = [j \in 1 .. (first - 0) |-> 0]  BY <2>1 DEF Limbs
  <2>3. first - 0 = first  BY <1>4
  <2>4. Limbs(d, 0, first) = [j \in 1 .. first |-> 0]  BY <2>2, <2>3
  <2>5. Exp!LimbBase \in Nat  BY Sizes
  <2> HIDE DEF first
  <2>6. Exp!digitsValue(Limbs(d, 0, first), Exp!LimbBase) = 0  BY <1>4, <2>4, <2>5, ZeroesAreZero
  <2> QED  BY <2>6 DEF Slice, Exp!Value
<1>8. n - first = 1 /\ Weight(1) \in Nat
  <2>1. n - first = 1 /\ 1 \in Nat  OBVIOUS
  <2> QED  BY <2>1, Weights
<1>9. Slice(d, 0, n) = Exp!Value(d)  BY <1>2, SliceEnds
<1> HIDE DEF first
<1>10. Slice(d, 0, n) = 0 * Weight(1) + 1  BY <1>5, <1>6, <1>7, <1>8
<1>11. 0 * Weight(1) + 1 = 1  BY <1>8
<1> QED  BY <1>9, <1>10, <1>11 DEF d, zeros

-----------------------------------------------------------------------------
(***************************************************************************)
(* Square and multiply.                                                    *)
(***************************************************************************)

NumberAt(p) == Exp!Value(Exp!Region(mem, p, Exp!nLimbs))

(* What is left of the exponent.                                           *)
ExponentLeft == Exp!ExpValue \div Exp!PowerOfTwo[i]

(* u times the e-th power of b is the answer, modulo the modulus.          *)
ReachesPower(u, b, e) == (u * Exp!ToThe(b, e)) % Exp!ModValue = Exp!Power

(***************************************************************************)
(* While no division was spoilt, the result times the base to what is left *)
(* of the exponent is the answer; in the division that follows one of the  *)
(* two multiplications the product is the dividend.                        *)
(***************************************************************************)
PowerInvariant ==
  /\ expPc \in Busy => Exp!ModValue > 1
  /\ expPc = "reduceBase" /\ exact =>
       /\ NumberAt(6 * Exp!nLimbs) < Exp!ModValue
       /\ ReachesPower(NumberAt(6 * Exp!nLimbs), NumberAt(0), ExponentLeft)
  /\ expPc \in {"flip", "loop"} /\ exact =>
       /\ NumberAt(6 * Exp!nLimbs) < Exp!ModValue /\ NumberAt(5 * Exp!nLimbs) < Exp!ModValue
       /\ ReachesPower(NumberAt(6 * Exp!nLimbs), NumberAt(5 * Exp!nLimbs), ExponentLeft)
  /\ expPc = "square" /\ exact =>
       /\ NumberAt(6 * Exp!nLimbs) < Exp!ModValue /\ NumberAt(5 * Exp!nLimbs) < Exp!ModValue
       /\ ReachesPower(NumberAt(6 * Exp!nLimbs), NumberAt(5 * Exp!nLimbs) * NumberAt(5 * Exp!nLimbs),
                       ExponentLeft \div 2)
  /\ expPc = "rem" /\ frame.returnTo \in {"flip", "loop"} /\ exact =>
       /\ NumberAt(6 * Exp!nLimbs) < Exp!ModValue /\ dividend \in Nat
       /\ ReachesPower(NumberAt(6 * Exp!nLimbs), dividend, ExponentLeft)
  /\ expPc = "rem" /\ frame.returnTo = "square" /\ exact =>
       /\ NumberAt(5 * Exp!nLimbs) < Exp!ModValue /\ dividend \in Nat
       /\ ReachesPower(dividend, NumberAt(5 * Exp!nLimbs) * NumberAt(5 * Exp!nLimbs),
                       ExponentLeft \div 2)
  /\ expPc = "done" /\ exact /\ ~ZeroToZero => IsPower(reply)

\* A bit of the exponent is taken into the result, and the base is squared for the rest.
LEMMA TakeBit ==
  ASSUME NEW u \in Nat, NEW b \in Nat, NEW e \in Nat, ReachesPower(u, b, e)
  PROVE  /\ e % 2 = 1 => ReachesPower(u * b, b * b, e \div 2)
         /\ e % 2 # 1 => ReachesPower(u, b * b, e \div 2)
<1> DEFINE h == e \div 2
           v == Exp!ToThe(b * b, h)
           V == Exp!ToThe(b, e)
<1>1. V = IF e % 2 = 1 THEN b * v ELSE v  BY PowerByBit
<1>2. v \in Nat
  <2>1. h \in Nat /\ b * b \in Nat  OBVIOUS
  <2> DEFINE bb == b * b
  <2>2. bb \in Nat  BY <2>1
  <2> HIDE DEF h, bb
  <2>3. Exp!ToThe(bb, h) \in Nat  BY <2>1, <2>2, PowersOfBase
  <2> QED  BY <2>3 DEF bb
<1>3. (u * V) % Exp!ModValue = Exp!Power  BY DEF ReachesPower
<1> HIDE DEF v, V
<1>4. (u * b) * v = u * (b * v)  BY <1>2
<1>5. e % 2 = 1 => ((u * b) * v) % Exp!ModValue = Exp!Power  BY <1>1, <1>3, <1>4
<1>6. e % 2 # 1 => (u * v) % Exp!ModValue = Exp!Power  BY <1>1, <1>3
<1> QED  BY <1>5, <1>6 DEF ReachesPower, v, h

\* The base may be reduced, and so may the result.
LEMMA ReducedAway ==
  ASSUME NEW u \in Nat, NEW b \in Nat, NEW e \in Nat, ReachesPower(u, b, e),
         Exp!ModValue \in Nat, Exp!ModValue > 1
  PROVE  /\ ReachesPower(u, b % Exp!ModValue, e)
         /\ ReachesPower(u % Exp!ModValue, b, e)
         /\ b % Exp!ModValue < Exp!ModValue /\ u % Exp!ModValue < Exp!ModValue
<1> DEFINE m == Exp!ModValue
           v == Exp!ToThe(b, e)
           w == Exp!ToThe(b % m, e)
<1>1. m \in Nat /\ m > 0 /\ (u * v) % m = Exp!Power  BY DEF ReachesPower
<1> HIDE DEF m
<1>2. b % m \in Nat /\ b % m < m /\ u % m \in Nat /\ u % m < m
  <2>1. b % m \in 0 .. (m - 1) /\ u % m \in 0 .. (m - 1)
    <3>1. b \in Int /\ u \in Int  OBVIOUS
    <3> QED  BY <1>1, <3>1, DivMod
  <2> QED  BY <1>1, <2>1
<1>3. w % m = v % m  BY <1>1, PowerOfRemainder
<1>4. v \in Nat  BY PowersOfBase
<1>5. w \in Nat
  <2> DEFINE c == b % m
  <2>1. c \in Nat  BY <1>2
  <2> HIDE DEF c
  <2>2. Exp!ToThe(c, e) \in Nat  BY <2>1, PowersOfBase
  <2> QED  BY <2>2 DEF c
<1> HIDE DEF v, w
<1>6. (u * (w % m)) % m = (u * w) % m /\ (u * (v % m)) % m = (u * v) % m
      /\ ((u % m) * v) % m = (u * v) % m
  <2>1. u \in Int /\ v \in Int /\ w \in Int  BY <1>4, <1>5
  <2> QED  BY <1>1, <2>1, FactorByRemainder
<1>7. (u * w) % m = Exp!Power /\ ((u % m) * v) % m = Exp!Power  BY <1>1, <1>3, <1>6
<1> QED  BY <1>2, <1>7 DEF ReachesPower, m, v, w

\* When nothing is left of the exponent, the result is the answer.
LEMMA NothingLeft ==
  ASSUME NEW u \in Nat, NEW b \in Nat, ReachesPower(u, b, 0),
         Exp!ModValue \in Nat, u < Exp!ModValue
  PROVE  u = Exp!Power
<1>1. Exp!ToThe(b, 0) = 1  BY PowersOfBase
<1>2. (u * 1) % Exp!ModValue = Exp!Power  BY <1>1 DEF ReachesPower
<1>3. u * 1 = u /\ u % Exp!ModValue = u  OBVIOUS
<1> QED  BY <1>2, <1>3

\* The numbers in the memory of a call that is past its special cases.
LEMMA NumbersInMemory ==
  ASSUME OperandsInvariant, expPc \in Busy
  PROVE  /\ call \in Calls /\ Exp!nLimbs \in Nat /\ Exp!nLimbs > 0
         /\ Exp!ModValue \in Nat /\ Exp!ExpValue \in Nat
         /\ i \in Nat /\ ExponentLeft \in Nat /\ ExponentLeft \div 2 \in Nat
         /\ mem \in Memories(7 * Exp!nLimbs - 1)
         /\ \A p \in {0, Exp!nLimbs, 5 * Exp!nLimbs, 6 * Exp!nLimbs} :
              Exp!Region(mem, p, Exp!nLimbs) \in Words(Exp!nLimbs) /\ NumberAt(p) \in Nat
<1> DEFINE n == Exp!nLimbs
<1>1. /\ call \in Calls /\ n > 0 /\ i \in Nat /\ mem \in Memories(7 * n - 1)
  BY DEF OperandsInvariant, HoldsOperands
<1>2. n \in Nat /\ Exp!ModValue \in Nat /\ Exp!ExpValue \in Nat  BY <1>1, OperandsInLimbs
<1>3. ExponentLeft \in Nat  BY <1>1, <1>2, HalfOfQuotient DEF ExponentLeft
<1> DEFINE e == ExponentLeft
<1>4. e \div 2 \in Nat
  <2>1. e \in Nat  BY <1>3
  <2> HIDE DEF e
  <2> QED  BY <2>1
<1>5. ASSUME NEW p \in {0, n, 5 * n, 6 * n}
      PROVE  Exp!Region(mem, p, n) \in Words(n) /\ NumberAt(p) \in Nat
  <2> HIDE DEF n
  <2>1. p \in Nat /\ p + n <= (7 * n - 1) + 1 /\ 7 * n - 1 \in Nat  BY <1>1, <1>2
  <2>2. Exp!Region(mem, p, n) \in Words(n)  BY <1>1, <1>2, <2>1, RegionType
  <2> QED  BY <1>2, <2>2, NumberIsBounded DEF NumberAt, n
<1> QED  BY <1>1, <1>2, <1>3, <1>4, <1>5

\* What the invariant is about, after a step of the same call.
LEMMA NumbersOfCall ==
  ASSUME call' = call
  PROVE  /\ Exp!nLimbs' = Exp!nLimbs /\ Exp!ModValue' = Exp!ModValue /\ Exp!Power' = Exp!Power
         /\ i' = i => ExponentLeft' = ExponentLeft
         /\ NumberAt(0)' = Exp!Value(Exp!Region(mem', 0, Exp!nLimbs))
         /\ NumberAt(5 * Exp!nLimbs)' = Exp!Value(Exp!Region(mem', 5 * Exp!nLimbs, Exp!nLimbs))
         /\ NumberAt(6 * Exp!nLimbs)' = Exp!Value(Exp!Region(mem', 6 * Exp!nLimbs, Exp!nLimbs))
<1>1. /\ Exp!nLimbs' = Exp!nLimbs /\ Exp!ModValue' = Exp!ModValue /\ Exp!ExpValue' = Exp!ExpValue
      /\ Exp!Power' = Exp!Power
  BY SameCall, SameQuestion
<1> QED  BY <1>1 DEF ExponentLeft, NumberAt

\* Loading: one times the base to the exponent.
LEMMA LoadReaches ==
  ASSUME OperandsInvariant, Exp!Load
  PROVE  PowerInvariant'
<1> DEFINE n == Exp!nLimbs
           m == Exp!ModValue
           V == Exp!ToThe(Exp!BaseValue, Exp!ExpValue)
<1>1. /\ expPc = "start" /\ expPc' = "reduceBase" /\ call' = call /\ i' = i
      /\ ~Exp!ModulusIsTrivial
  BY DEF Exp!Load, Exp!General
<1>2. call \in Calls /\ i = 0  BY <1>1 DEF OperandsInvariant
<1>3. /\ Exp!Region(mem', 0, n) = Exp!bigUIntPadWithZeros(Exp!parseCalldata(call.base), n)
      /\ Exp!Region(mem', 6 * n, n) = Exp!bigUIntInPlaceOrWith1([j \in 1 .. n |-> 0])
      /\ n > 0 /\ n \in Nat
  BY <1>2, LoadEstablishes, OperandsInLimbs
<1>4. /\ m \in Nat /\ m > 1 /\ V \in Nat /\ Exp!ExpValue \in Nat
      /\ Exp!BaseValue \in Nat
  <2>1. /\ m \in Nat /\ V \in Nat /\ Exp!ExpValue \in Nat /\ Exp!BaseValue \in Nat
        /\ Exp!callDataBufferIsZero(call.mod) <=> m = 0
        /\ Exp!callDataBufferIsOne(call.mod) <=> m = 1
    BY <1>2, OperandsOfCall
  <2> QED  BY <1>1, <2>1 DEF Exp!ModulusIsTrivial
<1>5. Exp!Value(Exp!Region(mem', 0, n)) = Exp!BaseValue
  <2> DEFINE l == Exp!bigIntLimbs(Len(call.base))
             limbs == Exp!parseCalldata(call.base)
  <2>1. PICK h \in Nat : n = 2 * h /\ l <= h  BY <1>2, Layout
  <2>2. call.base \in Seq(Exp!Byte)  BY <1>2, OperandsOfCall
  <2>3. l \in Nat
    <3>1. Len(call.base) \in Nat  BY <2>2
    <3> QED  BY <3>1, LimbsNeeded
  <2>4. limbs \in Words(l) /\ Exp!Value(limbs) = Exp!BaseValue
    BY <2>2, Parsed DEF Exp!BaseValue
  <2> HIDE DEF l, n, limbs
  <2>5. l <= n  BY <2>1, <2>3
  <2>6. Exp!Value(Exp!bigUIntPadWithZeros(limbs, n)) = Exp!Value(limbs)
    BY <1>3, <2>3, <2>4, <2>5, PaddedNumber
  <2> QED  BY <1>3, <2>4, <2>6 DEF limbs
<1>6. Exp!Value(Exp!Region(mem', 6 * n, n)) = 1  BY <1>3, ResultIsOne
<1>7. NumberAt(0)' = Exp!BaseValue /\ NumberAt(6 * n)' = 1 /\ Exp!ModValue' = m /\ Exp!Power' = Exp!Power
  BY <1>1, <1>5, <1>6, NumbersOfCall
<1>8. ExponentLeft' = Exp!ExpValue
  <2>1. ExponentLeft' = ExponentLeft  BY <1>1, NumbersOfCall
  <2>2. ExponentLeft = Exp!ExpValue \div 1  BY <1>2, PowerLaws DEF ExponentLeft
  <2>3. Exp!ExpValue \div 1 = Exp!ExpValue  BY <1>4
  <2> QED  BY <2>1, <2>2, <2>3
<1>9. (1 * V) % m = Exp!Power
  <2>1. Exp!Power = V % m  BY <1>4 DEF Exp!Power
  <2> HIDE DEF V
  <2>2. 1 * V = V  BY <1>4
  <2> QED  BY <2>1, <2>2
<1>10. (NumberAt(6 * n)' * Exp!ToThe(NumberAt(0)', ExponentLeft')) % Exp!ModValue' = Exp!Power'
  BY <1>7, <1>8, <1>9
<1>11. NumberAt(6 * n)' < Exp!ModValue'  BY <1>4, <1>7
<1> QED  BY <1>1, <1>4, <1>7, <1>10, <1>11 DEF PowerInvariant, Busy, ReachesPower

\* A division of a number that the answer is reached from begins.
LEMMA ReduceBaseReaches ==
  ASSUME OperandsInvariant, PowerInvariant, Exp!ReduceBase
  PROVE  PowerInvariant'
<1> DEFINE n == Exp!nLimbs
<1>1. expPc = "reduceBase" /\ i' = i  BY DEF Exp!ReduceBase
<1>2. expPc \in Busy  BY <1>1 DEF Busy
<1>3. DivisionBegins(mem, 0, 3 * n, 4 * n, 5 * n, "flip")  BY ReduceBaseDivides
<1>4. /\ expPc' \in {"rem", "outOfGas"} /\ call' = call
      /\ frame'.rem_ptr = 5 * n /\ frame'.returnTo = "flip"
      /\ dividend' = Exp!Value(Exp!Region(mem, 0, n))
      /\ expPc' = "rem" /\ exact' => exact
      /\ \A p \in {5 * n, 6 * n} :
           p # 5 * n => Exp!Region(mem', p, n) = Exp!Region(mem, p, n)
  BY <1>3, DivisionTakes
<1>5. n \in Nat /\ n > 0 /\ NumberAt(0) \in Nat  BY <1>2, NumbersInMemory
<1>6. Exp!Region(mem', 6 * n, n) = Exp!Region(mem, 6 * n, n)
  <2> HIDE DEF n
  <2>1. 6 * n # 5 * n  BY <1>5
  <2> QED  BY <1>4, <2>1
<1>7. dividend' = NumberAt(0) /\ NumberAt(6 * n)' = NumberAt(6 * n)
      /\ Exp!ModValue' = Exp!ModValue /\ Exp!Power' = Exp!Power /\ ExponentLeft' = ExponentLeft
  BY <1>1, <1>4, <1>6, NumbersOfCall DEF NumberAt
<1>8. Exp!ModValue > 1  BY <1>2 DEF PowerInvariant
<1>9. expPc' = "rem" /\ exact' => NumberAt(6 * n) < Exp!ModValue
                                 /\ ReachesPower(NumberAt(6 * n), NumberAt(0), ExponentLeft)
  BY <1>1, <1>4 DEF PowerInvariant
<1> QED  BY <1>4, <1>5, <1>7, <1>8, <1>9 DEF PowerInvariant, ReachesPower

\* The exponent's lowest bit is the one that the loop tests.
LEMMA TestsLowestBit ==
  ASSUME OperandsInvariant, expPc \in Busy
  PROVE  Exp!ExponentIsOdd <=> ExponentLeft % 2 = 1
<1> DEFINE limbs == Exp!Region(mem, Exp!nLimbs, Exp!nLimbs)
<1>1. Exp!Value(limbs) = ExponentLeft
  BY DEF OperandsInvariant, HoldsOperands, ExponentLeft
<1>2. limbs \in Words(Exp!nLimbs) /\ Exp!nLimbs \in Nat /\ Exp!nLimbs > 0  BY NumbersInMemory
<1>3. Exp!ExponentIsOdd = (Exp!bigUIntModTwo(limbs) = 1)
  BY DEF Exp!ExponentIsOdd, Exp!Number, Exp!exponentStartPtr
<1> HIDE DEF limbs
<1>4. Exp!bigUIntModTwo(limbs) = Exp!Value(limbs) % 2  BY <1>2, LowestBit
<1> QED  BY <1>1, <1>3, <1>4

\* A pass whose bit is one multiplies the result by the base.
LEMMA MultiplyResultReaches ==
  ASSUME OperandsInvariant, PowerInvariant, Exp!MultiplyResult
  PROVE  PowerInvariant'
<1> DEFINE n == Exp!nLimbs
           m == MemoryOfProduct
           u == NumberAt(6 * n)
           b == NumberAt(5 * n)
           e == ExponentLeft
<1>1. expPc = "loop" /\ i' = i /\ Exp!ExponentIsOdd  BY DEF Exp!MultiplyResult
<1>2. expPc \in Busy  BY <1>1 DEF Busy
<1>3. DivisionBegins(m, 3 * n, 0, 4 * n, 6 * n, "square")  BY MultiplyResultDivides
<1>4. /\ expPc' \in {"rem", "outOfGas"} /\ call' = call
      /\ frame'.rem_ptr = 6 * n /\ frame'.returnTo = "square"
      /\ dividend' = Exp!Value(Exp!Region(m, 3 * n, n))
      /\ expPc' = "rem" /\ exact' => exact
      /\ \A p \in {5 * n, 6 * n} :
           p # 6 * n => Exp!Region(mem', p, n) = Exp!Region(m, p, n)
  BY <1>3, DivisionTakes
<1>5. /\ n \in Nat /\ n > 0 /\ u \in Nat /\ b \in Nat /\ e \in Nat /\ call \in Calls
      /\ mem \in Memories(7 * n - 1)
      /\ Exp!Region(mem, 6 * n, n) \in Words(n) /\ Exp!Region(mem, 5 * n, n) \in Words(n)
  BY <1>2, NumbersInMemory
<1>6. basePtr = 5 * n  BY <1>1, <1>2 DEF OperandsInvariant
<1> DEFINE low1 == Exp!bigUIntLowerHalf(Exp!Region(mem, 6 * n, n))
           low2 == Exp!bigUIntLowerHalf(Exp!Region(mem, 5 * n, n))
           product == Exp!bigUIntMul(low1, low2)
<1>7. m = Exp!Store(mem, 3 * n, product)
  BY <1>6 DEF MemoryOfProduct, Exp!Number, Exp!resultPtr, Exp!scratchBuf1Ptr
<1>8. product \in Words(n)
  BY <1>5, ProductFits
<1> HIDE DEF m, product, n
<1>9. 6 * n # 5 * n /\ 3 * n \in Nat /\ 5 * n \in Nat /\ 7 * n - 1 \in Nat
      /\ 3 * n + n <= (7 * n - 1) + 1 /\ 3 * n + n <= 5 * n /\ 5 * n + n <= (7 * n - 1) + 1
  BY <1>5
<1>10. Exp!Region(m, 3 * n, n) = product /\ SameOutside(mem, m, 7 * n - 1, 3 * n, n)
  BY <1>5, <1>7, <1>8, <1>9, Stored
<1>11. Exp!Region(m, 5 * n, n) = Exp!Region(mem, 5 * n, n)
  BY <1>5, <1>9, <1>10, RegionKept
<1>12. Exp!Region(mem', 5 * n, n) = Exp!Region(mem, 5 * n, n)  BY <1>4, <1>9, <1>11
<1>13. NumberAt(5 * n)' = b /\ Exp!ModValue' = Exp!ModValue /\ Exp!Power' = Exp!Power
       /\ ExponentLeft' = e
  BY <1>1, <1>4, <1>12, NumbersOfCall DEF NumberAt, n
<1>14. Exp!ModValue > 1  BY <1>2 DEF PowerInvariant
<1>15. ASSUME expPc' = "rem", exact'
       PROVE  /\ b < Exp!ModValue /\ dividend' = u * b /\ u * b \in Nat
              /\ ReachesPower(u * b, b * b, e \div 2)
  <2>1. u < Exp!ModValue /\ b < Exp!ModValue /\ ReachesPower(u, b, e)
    BY <1>1, <1>4, <1>15 DEF PowerInvariant, n
  <2>2. Exp!Value(product) = u * b
    BY <1>5, <2>1, ProductOfHalves DEF NumberAt, n, product
  <2>3. e % 2 = 1  BY <1>1, <1>2, TestsLowestBit
  <2> HIDE DEF u, b, e
  <2>4. u * b \in Nat  BY <1>5
  <2> QED  BY <1>4, <1>5, <1>10, <2>1, <2>2, <2>3, <2>4, TakeBit
<1>16. expPc' = "rem" /\ exact' =>
         (dividend' * Exp!ToThe(b * b, e \div 2)) % Exp!ModValue = Exp!Power
         /\ b < Exp!ModValue /\ dividend' \in Nat
  BY <1>15 DEF ReachesPower
<1> HIDE DEF u, b, e
<1>17. n = Exp!nLimbs /\ n' = Exp!nLimbs'  BY DEF n
<1>18. PowerInvariant'
  BY <1>4, <1>13, <1>14, <1>16, <1>17 DEF PowerInvariant, ReachesPower
<1> QED  BY <1>18

\* A pass whose bit is zero leaves the result alone.
LEMMA SkipResultReaches ==
  ASSUME OperandsInvariant, PowerInvariant, Exp!SkipResult
  PROVE  PowerInvariant'
<1> DEFINE n == Exp!nLimbs
           u == NumberAt(6 * n)
           b == NumberAt(5 * n)
           e == ExponentLeft
<1>1. /\ expPc = "loop" /\ ~Exp!ExponentIsOdd /\ expPc' = "square"
      /\ UNCHANGED <<call, mem, i, exact>>
  BY DEF Exp!SkipResult
<1>2. expPc \in Busy  BY <1>1 DEF Busy
<1>3. u \in Nat /\ b \in Nat /\ e \in Nat  BY <1>2, NumbersInMemory
<1>4. /\ NumberAt(6 * n)' = u /\ NumberAt(5 * n)' = b /\ ExponentLeft' = e
      /\ Exp!ModValue' = Exp!ModValue /\ Exp!Power' = Exp!Power
  BY <1>1, NumbersOfCall DEF NumberAt
<1>5. Exp!ModValue > 1  BY <1>2 DEF PowerInvariant
<1>6. ASSUME exact
      PROVE  u < Exp!ModValue /\ b < Exp!ModValue /\ ReachesPower(u, b * b, e \div 2)
  <2>1. u < Exp!ModValue /\ b < Exp!ModValue /\ ReachesPower(u, b, e)
    BY <1>1, <1>6 DEF PowerInvariant
  <2>2. e % 2 # 1  BY <1>1, <1>2, TestsLowestBit
  <2> HIDE DEF u, b, e
  <2> QED  BY <1>3, <2>1, <2>2, TakeBit
<1> HIDE DEF u, b, e
<1>7. exact' => (u * Exp!ToThe(b * b, e \div 2)) % Exp!ModValue = Exp!Power
                /\ u < Exp!ModValue /\ b < Exp!ModValue
  BY <1>1, <1>6 DEF ReachesPower
<1> QED  BY <1>1, <1>4, <1>5, <1>7 DEF PowerInvariant, ReachesPower

\* Then the base is squared and the exponent halved.
LEMMA SquareBaseReaches ==
  ASSUME OperandsInvariant, PowerInvariant, Exp!SquareBase
  PROVE  PowerInvariant'
<1> DEFINE n == Exp!nLimbs
           m == MemoryOfSquare
           u == NumberAt(6 * n)
           b == NumberAt(5 * n)
           e == ExponentLeft
           top == 7 * n - 1
<1>1. expPc = "square" /\ i' = i + 1  BY DEF Exp!SquareBase
<1>2. expPc \in Busy  BY <1>1 DEF Busy
<1>3. DivisionBegins(m, 4 * n, 3 * n, 0, 5 * n, "loop")  BY SquareBaseDivides
<1>4. /\ expPc' \in {"rem", "outOfGas"} /\ call' = call
      /\ frame'.rem_ptr = 5 * n /\ frame'.returnTo = "loop"
      /\ dividend' = Exp!Value(Exp!Region(m, 4 * n, n))
      /\ expPc' = "rem" /\ exact' => exact
      /\ \A p \in {5 * n, 6 * n} :
           p # 5 * n => Exp!Region(mem', p, n) = Exp!Region(m, p, n)
  BY <1>3, DivisionTakes
<1>5. /\ n \in Nat /\ n > 0 /\ u \in Nat /\ b \in Nat /\ e \in Nat /\ call \in Calls
      /\ mem \in Memories(7 * n - 1) /\ i \in Nat /\ Exp!ExpValue \in Nat
      /\ Exp!Region(mem, n, n) \in Words(n) /\ Exp!Region(mem, 5 * n, n) \in Words(n)
  BY <1>2, NumbersInMemory
<1>6. basePtr = 5 * n  BY <1>1, <1>2 DEF OperandsInvariant
<1> DEFINE low == Exp!bigUIntLowerHalf(Exp!Region(mem, 5 * n, n))
           product == Exp!bigUIntMul(low, low)
           half == Exp!bigUIntOneShiftRight(Exp!Region(mem, n, n))
           shifted == Exp!Store(mem, n, half)
<1>7. m = Exp!Store(shifted, 4 * n, product)
  BY <1>6 DEF MemoryOfSquare, Exp!Number, Exp!scratchBuf2Ptr
<1>8. product \in Words(n)
  BY <1>5, ProductFits
<1>9. half \in Words(n)
  <2> DEFINE d == Exp!Region(mem, n, n)
  <2>1. d \in Words(n)  BY <1>5
  <2> HIDE DEF d, n
  <2> QED  BY <1>5, <2>1, ShiftedRight DEF Words
<1> HIDE DEF m, product, half, n
<1>10. /\ 6 * n # 5 * n /\ 4 * n \in Nat /\ 6 * n \in Nat /\ top \in Nat
       /\ 4 * n + n <= top + 1 /\ 4 * n + n <= 6 * n /\ 6 * n + n <= top + 1
       /\ n + n <= 6 * n /\ n + n <= top + 1
  BY <1>5
<1> HIDE DEF shifted, top
<1>11. shifted \in Memories(top) /\ SameOutside(mem, shifted, top, n, n)
  BY <1>5, <1>9, <1>10, Stored DEF shifted, top
<1>12. Exp!Region(m, 4 * n, n) = product /\ SameOutside(shifted, m, top, 4 * n, n)
  BY <1>5, <1>7, <1>8, <1>10, <1>11, Stored
<1>13. Exp!Region(mem', 6 * n, n) = Exp!Region(mem, 6 * n, n)
  <2>1. Exp!Region(shifted, 6 * n, n) = Exp!Region(mem, 6 * n, n)
    BY <1>5, <1>10, <1>11, RegionKept
  <2>2. Exp!Region(m, 6 * n, n) = Exp!Region(shifted, 6 * n, n)
    BY <1>5, <1>10, <1>12, RegionKept
  <2> QED  BY <1>4, <1>10, <2>1, <2>2
<1>14. ExponentLeft' = e \div 2
  <2>1. Exp!ExpValue' = Exp!ExpValue  BY <1>4, SameCall
  <2>2. ExponentLeft' = Exp!ExpValue \div Exp!PowerOfTwo[i + 1]  BY <1>1, <2>1 DEF ExponentLeft
  <2> QED  BY <1>5, <2>2, HalfOfQuotient DEF ExponentLeft
<1>15. NumberAt(6 * n)' = u /\ Exp!ModValue' = Exp!ModValue /\ Exp!Power' = Exp!Power
  BY <1>4, <1>13, NumbersOfCall DEF NumberAt, n
<1>16. Exp!ModValue > 1  BY <1>2 DEF PowerInvariant
<1>17. ASSUME expPc' = "rem", exact'
       PROVE  /\ u < Exp!ModValue /\ dividend' = b * b
              /\ (u * Exp!ToThe(b * b, e \div 2)) % Exp!ModValue = Exp!Power
  <2>1. u < Exp!ModValue /\ b < Exp!ModValue /\ ReachesPower(u, b * b, e \div 2)
    BY <1>1, <1>4, <1>17 DEF PowerInvariant, n
  <2>2. Exp!Value(product) = b * b
    BY <1>5, <2>1, ProductOfHalves DEF NumberAt, n, product
  <2> QED  BY <1>4, <1>12, <2>1, <2>2 DEF ReachesPower
<1>18. b * b \in Nat
  <2> HIDE DEF b
  <2> QED  BY <1>5
<1> HIDE DEF u, b, e
<1>19. expPc' = "rem" /\ exact' =>
         /\ (u * Exp!ToThe(dividend', e \div 2)) % Exp!ModValue = Exp!Power
         /\ u < Exp!ModValue /\ dividend' \in Nat
  BY <1>17, <1>18
<1>20. n = Exp!nLimbs /\ n' = Exp!nLimbs'  BY DEF n
<1> QED  BY <1>4, <1>14, <1>15, <1>16, <1>19, <1>20 DEF PowerInvariant, ReachesPower

\* A pass of a division keeps its dividend; the last one puts the remainder in the
\* dividend's place.
LEMMA RemPassReaches ==
  ASSUME OperandsInvariant, RemainderInvariant, PowerInvariant, Exp!RemPass
  PROVE  PowerInvariant'
<1> DEFINE n == Exp!nLimbs
           m == Exp!ModValue
           rem == frame.rem_ptr
           u == NumberAt(6 * n)
           b == NumberAt(5 * n)
           e == ExponentLeft
<1>1. /\ expPc = "rem" /\ exact' = (exact /\ Exp!BorrowsAreKept)
      /\ \/ bd = 0 /\ expPc' = frame.returnTo
         \/ bd > 0 /\ expPc' = "rem"
      /\ UNCHANGED <<call, i, frame, dividend>>
  BY DEF Exp!RemPass
<1>2. expPc \in Busy  BY <1>1 DEF Busy
<1>3. /\ n \in Nat /\ n > 0 /\ u \in Nat /\ b \in Nat /\ e \in Nat /\ e \div 2 \in Nat
      /\ call \in Calls /\ m \in Nat
  BY <1>2, NumbersInMemory
<1>4. m > 1  BY <1>2 DEF PowerInvariant
<1>5. /\ \/ rem = 5 * n /\ frame.returnTo \in {"flip", "loop"}
         \/ rem = 6 * n /\ frame.returnTo = "square"
  <2>1. \E dividendPtr : Division(n, dividendPtr, frame.tmp_ptr_1, frame.tmp_ptr_2,
                                  rem, frame.returnTo)
    BY <1>1, <1>2 DEF OperandsInvariant
  <2> QED  BY <2>1 DEF Division
<1>6. \A p \in {5 * n, 6 * n} : p # rem => Exp!Region(mem', p, n) = Exp!Region(mem, p, n)
  BY RemPassKeepsOther
<1>7. bd = 0 /\ exact' => Exp!Value(Exp!Region(mem', rem, n)) = dividend % m
  BY DivisionLeavesRemainder
<1>8. /\ Exp!ModValue' = m /\ Exp!Power' = Exp!Power /\ ExponentLeft' = e
      /\ NumberAt(5 * n)' = Exp!Value(Exp!Region(mem', 5 * n, n))
      /\ NumberAt(6 * n)' = Exp!Value(Exp!Region(mem', 6 * n, n))
  BY <1>1, NumbersOfCall
<1>9. b = Exp!Value(Exp!Region(mem, 5 * n, n)) /\ u = Exp!Value(Exp!Region(mem, 6 * n, n))
  BY DEF NumberAt
<1>10. n = Exp!nLimbs /\ n' = Exp!nLimbs'  OBVIOUS
<1>11. 5 * n # 6 * n
  <2> HIDE DEF n
  <2> QED  BY <1>3
<1>12. CASE rem = 5 * n /\ frame.returnTo \in {"flip", "loop"}
  <2>1. NumberAt(6 * n)' = u
    <3> HIDE DEF n, u
    <3> QED  BY <1>6, <1>8, <1>9, <1>11, <1>12
  <2>2. exact' => u < m /\ dividend \in Nat /\ ReachesPower(u, dividend, e)
    BY <1>1, <1>12 DEF PowerInvariant
  <2>3. CASE bd > 0 /\ expPc' = "rem"
    <3>1. frame'.returnTo \in {"flip", "loop"}  BY <1>1, <1>12
    <3>2. exact' => (u * Exp!ToThe(dividend', e)) % m = Exp!Power /\ u < m /\ dividend' \in Nat
      BY <1>1, <2>2 DEF ReachesPower
    <3> HIDE DEF u, m, e, n
    <3>3. frame'.returnTo # "square"  BY <3>1
    <3> QED  BY <1>4, <1>8, <1>10, <2>1, <2>3, <3>1, <3>2, <3>3 DEF PowerInvariant, ReachesPower
  <2>4. CASE bd = 0 /\ expPc' = frame.returnTo
    <3>1. exact' => /\ NumberAt(5 * n)' = dividend % m
                    /\ ReachesPower(u, dividend % m, e) /\ dividend % m < m
      <4> SUFFICES ASSUME exact'
                   PROVE  /\ NumberAt(5 * n)' = dividend % m
                          /\ ReachesPower(u, dividend % m, e) /\ dividend % m < m
        OBVIOUS
      <4>1. NumberAt(5 * n)' = dividend % m  BY <1>7, <1>8, <1>12, <2>4
      <4>2. u \in Nat /\ e \in Nat /\ dividend \in Nat /\ ReachesPower(u, dividend, e)
        BY <1>3, <2>2
      <4> HIDE DEF u, e, n
      <4>3. ReachesPower(u, dividend % Exp!ModValue, e) /\ dividend % Exp!ModValue < Exp!ModValue
        BY <1>3, <1>4, <4>2, ReducedAway
      <4> QED  BY <4>1, <4>3
    <3>2. exact' => /\ (u * Exp!ToThe(NumberAt(5 * n)', e)) % m = Exp!Power
                    /\ u < m /\ NumberAt(5 * n)' < m
      BY <2>2, <3>1 DEF ReachesPower
    <3>3. expPc' \in {"flip", "loop"}  BY <1>12, <2>4
    <3> HIDE DEF u, m, e, n
    <3>4. expPc' \notin {"rem", "square", "reduceBase", "done"}  BY <3>3
    <3> QED  BY <1>4, <1>8, <1>10, <2>1, <3>2, <3>3, <3>4 DEF PowerInvariant, ReachesPower
  <2> QED  BY <1>1, <2>3, <2>4
<1>13. CASE rem = 6 * n /\ frame.returnTo = "square"
  <2> DEFINE bb == b * b  h == e \div 2
  <2>1. NumberAt(5 * n)' = b
    <3> HIDE DEF n, b
    <3> QED  BY <1>6, <1>8, <1>9, <1>11, <1>13
  <2>2. exact' => b < m /\ dividend \in Nat /\ ReachesPower(dividend, bb, h)
    BY <1>1, <1>13 DEF PowerInvariant
  <2>3. CASE bd > 0 /\ expPc' = "rem"
    <3>1. frame'.returnTo = "square"  BY <1>1, <1>13
    <3>2. exact' => (dividend' * Exp!ToThe(b * b, e \div 2)) % m = Exp!Power /\ b < m /\ dividend' \in Nat
      BY <1>1, <2>2 DEF ReachesPower
    <3> HIDE DEF b, m, e, n
    <3> QED  BY <1>4, <1>8, <1>10, <2>1, <2>3, <3>1, <3>2 DEF PowerInvariant, ReachesPower
  <2>4. CASE bd = 0 /\ expPc' = frame.returnTo
    <3>1. exact' => /\ NumberAt(6 * n)' = dividend % m
                    /\ ReachesPower(dividend % m, bb, h) /\ dividend % m < m
      <4> SUFFICES ASSUME exact'
                   PROVE  /\ NumberAt(6 * n)' = dividend % m
                          /\ ReachesPower(dividend % m, bb, h) /\ dividend % m < m
        OBVIOUS
      <4>1. NumberAt(6 * n)' = dividend % m  BY <1>7, <1>8, <1>13, <2>4
      <4>2. bb \in Nat
        <5> HIDE DEF b
        <5> QED  BY <1>3
      <4>3. h \in Nat /\ dividend \in Nat /\ ReachesPower(dividend, bb, h)
        BY <1>3, <2>2
      <4> HIDE DEF bb, h, n
      <4>4. ReachesPower(dividend % Exp!ModValue, bb, h) /\ dividend % Exp!ModValue < Exp!ModValue
        BY <1>3, <1>4, <4>2, <4>3, ReducedAway
      <4> QED  BY <4>1, <4>4
    <3>2. exact' => /\ (NumberAt(6 * n)' * Exp!ToThe(b * b, e \div 2)) % m = Exp!Power
                    /\ b < m /\ NumberAt(6 * n)' < m
      BY <2>2, <3>1 DEF ReachesPower
    <3>3. expPc' = "square"  BY <1>13, <2>4
    <3> HIDE DEF b, m, e, n
    <3> QED  BY <1>4, <1>8, <1>10, <2>1, <3>2, <3>3 DEF PowerInvariant, ReachesPower
  <2> QED  BY <1>1, <2>3, <2>4
<1> QED  BY <1>5, <1>12, <1>13

\* flip exchanges two pointers, and no number.
LEMMA FlipReaches ==
  ASSUME OperandsInvariant, PowerInvariant, Exp!flip
  PROVE  PowerInvariant'
<1> DEFINE n == Exp!nLimbs
           u == NumberAt(6 * n)
           b == NumberAt(5 * n)
           e == ExponentLeft
<1>1. expPc = "flip" /\ expPc' = "loop" /\ UNCHANGED <<call, mem, i, exact>>
  BY DEF Exp!flip
<1>2. /\ NumberAt(6 * n)' = u /\ NumberAt(5 * n)' = b /\ ExponentLeft' = e
      /\ Exp!ModValue' = Exp!ModValue /\ Exp!Power' = Exp!Power
  BY <1>1, NumbersOfCall DEF NumberAt
<1>3. Exp!ModValue > 1  BY <1>1 DEF PowerInvariant, Busy
<1>4. exact => u < Exp!ModValue /\ b < Exp!ModValue /\ (u * Exp!ToThe(b, e)) % Exp!ModValue = Exp!Power
  BY <1>1 DEF PowerInvariant, ReachesPower
<1> HIDE DEF u, b, e
<1> QED  BY <1>1, <1>2, <1>3, <1>4 DEF PowerInvariant, ReachesPower

\* After as many passes as the exponent has bits nothing is left of it, and the result
\* fits the bytes of the modulus.
LEMMA FinishReaches ==
  ASSUME OperandsInvariant, PowerInvariant, Exp!Finish
  PROVE  PowerInvariant'
<1> DEFINE n == Exp!nLimbs
           limbs == Exp!Region(mem, 6 * n, n)
           u == NumberAt(6 * n)
           b == NumberAt(5 * n)
           bits == Exp!exponentBitSize
           pow == Exp!PowerOfTwo
<1>1. /\ expPc = "loop" /\ expPc' = "done" /\ call' = call /\ exact' = exact
      /\ i >= bits /\ reply' = Exp!lastBytes(limbs, Exp!modLen)
  BY DEF Exp!Finish, Exp!Answer, Exp!Number, Exp!resultPtr
<1>2. expPc \in Busy  BY <1>1 DEF Busy
<1>3. /\ n \in Nat /\ i \in Nat /\ Exp!ModValue \in Nat /\ Exp!ExpValue \in Nat /\ call \in Calls
      /\ limbs \in Words(n) /\ u \in Nat /\ b \in Nat
  BY <1>2, NumbersInMemory
<1>4. ExponentLeft = 0
  <2>1. Exp!exponent \in Words(n) /\ Exp!Value(Exp!exponent) = Exp!ExpValue
    BY <1>3, OperandsInLimbs
  <2>2. bits \in Nat /\ Exp!ExpValue < pow[bits]
    BY <1>3, <2>1, BitsOfNumber, NumberFitsBits DEF Exp!exponentBitSize
  <2> HIDE DEF bits, n
  <2>3. pow[bits] <= pow[i] /\ pow[bits] \in Nat /\ pow[i] \in Nat /\ pow[i] > 0
    BY <1>1, <1>3, <2>2, PowerGrows, PowerLaws
  <2> DEFINE p == pow[i]  E == Exp!ExpValue
  <2>4. E \in Nat /\ p \in Nat /\ E < p
    <3> HIDE DEF pow
    <3> QED  BY <1>3, <2>2, <2>3
  <2> HIDE DEF p, E
  <2>5. E \div p = 0  BY <2>4
  <2> QED  BY <2>5 DEF E, p, ExponentLeft
<1>5. ASSUME exact PROVE IsPower(reply')
  <2>1. u < Exp!ModValue /\ ReachesPower(u, b, 0)  BY <1>1, <1>4, <1>5 DEF PowerInvariant
  <2>2. u = Exp!Power
    <3> HIDE DEF u, b
    <3> QED  BY <1>3, <2>1, NothingLeft
  <2>3. /\ Exp!ModValue < pow[BYTE_SIZE_IN_BITS * Exp!modLen]
        /\ Exp!modLen <= LIMB_SIZE_IN_BYTES * n /\ Exp!modLen \in Nat
    BY <1>3, ModulusFits, OperandsOfCall
  <2>4. BYTE_SIZE_IN_BITS * Exp!modLen \in Nat  BY <2>3, Sizes
  <2>5. pow[BYTE_SIZE_IN_BITS * Exp!modLen] \in Nat  BY <2>4, PowerLaws
  <2>6. Exp!Value(limbs) = u  BY DEF NumberAt
  <2>7. Exp!Value(limbs) < pow[BYTE_SIZE_IN_BITS * Exp!modLen]
    <3> HIDE DEF u, pow, limbs
    <3> QED  BY <1>3, <2>1, <2>3, <2>5, <2>6
  <2>8. /\ Len(Exp!lastBytes(limbs, Exp!modLen)) = Exp!modLen
        /\ Exp!BytesValue(Exp!lastBytes(limbs, Exp!modLen)) = Exp!Value(limbs)
    <3> HIDE DEF limbs, n
    <3> QED  BY <1>3, <2>3, <2>7, LastBytes
  <2> QED  BY <1>1, <2>2, <2>6, <2>8 DEF IsPower
<1>6. exact' => IsPower(reply)'
  BY <1>1, <1>5, SameQuestion DEF IsPower
<1> QED  BY <1>1, <1>6 DEF PowerInvariant, Busy

\* The special cases answer at once.
LEMMA SpecialCaseReaches ==
  ASSUME OperandsInvariant, SpecialCase
  PROVE  PowerInvariant'
<1>1. expPc' = "done" /\ call' = call
  BY DEF SpecialCase, Exp!ReturnEmpty, Exp!ReturnOneLimb, Exp!ReturnTrivialModulus,
         Exp!ReturnBaseOne, Exp!ReturnExponentZero, Exp!ReturnBaseZero, Exp!Answer
<1>2. ~ZeroToZero' => IsPower(reply)'
  BY <1>1, SpecialCasesAnswer, SameQuestion DEF IsPower
<1> QED  BY <1>1, <1>2 DEF PowerInvariant, Busy

\* Square and multiply keeps its meaning at every step of a call.
LEMMA PowerInvariantHolds ==
  MCSpec => []PowerInvariant
<1>1. MCInit => PowerInvariant
  <2>1. NoExp => PowerInvariant  BY DEF NoExp, PowerInvariant, Busy
  <2>2. Exp!Init => PowerInvariant  BY DEF Exp!Init, PowerInvariant, Busy
  <2> QED  BY <2>1, <2>2 DEF MCInit
<1>2. ASSUME OperandsInvariant, RemainderInvariant, PowerInvariant,
             [MCNext]_<<vars, addVars, expVars>>
      PROVE  PowerInvariant'
  <2>1. CASE UNCHANGED expVars
    <3>1. /\ call' = call /\ expPc' = expPc /\ mem' = mem /\ i' = i /\ frame' = frame
          /\ reply' = reply /\ dividend' = dividend /\ exact' = exact
      BY <2>1 DEF expVars
    <3>2. /\ Exp!nLimbs' = Exp!nLimbs /\ Exp!ModValue' = Exp!ModValue /\ Exp!Power' = Exp!Power
          /\ ExponentLeft' = ExponentLeft
      BY <3>1, NumbersOfCall
    <3>3. /\ NumberAt(0)' = NumberAt(0)
          /\ NumberAt(5 * Exp!nLimbs)' = NumberAt(5 * Exp!nLimbs)
          /\ NumberAt(6 * Exp!nLimbs)' = NumberAt(6 * Exp!nLimbs)
      BY <3>1, NumbersOfCall DEF NumberAt
    <3>4. IsPower(reply)' = IsPower(reply) /\ ZeroToZero' = ZeroToZero
      BY <3>1, SameQuestion DEF IsPower
    <3> QED  BY <1>2, <3>1, <3>2, <3>3, <3>4 DEF PowerInvariant, ReachesPower
  <2>2. CASE Exp!Next
    <3>1. CASE SpecialCase  BY <1>2, <3>1, SpecialCaseReaches
    <3>2. CASE Exp!Load  BY <1>2, <3>2, LoadReaches
    <3>3. CASE Exp!ReduceBase  BY <1>2, <3>3, ReduceBaseReaches
    <3>4. CASE Exp!RemPass  BY <1>2, <3>4, RemPassReaches
    <3>5. CASE Exp!flip  BY <1>2, <3>5, FlipReaches
    <3>6. CASE Exp!SkipResult  BY <1>2, <3>6, SkipResultReaches
    <3>7. CASE Exp!MultiplyResult  BY <1>2, <3>7, MultiplyResultReaches
    <3>8. CASE Exp!SquareBase  BY <1>2, <3>8, SquareBaseReaches
    <3>9. CASE Exp!Finish  BY <1>2, <3>9, FinishReaches
    <3>10. CASE Exp!Terminated  BY <2>1, <3>10 DEF Exp!Terminated, Exp!vars, expVars
    <3> QED
      BY <2>2, <3>1, <3>2, <3>3, <3>4, <3>5, <3>6, <3>7, <3>8, <3>9, <3>10
         DEF Exp!Next, SpecialCase
  <2>3. CASE UNCHANGED <<vars, addVars, expVars>>  BY <2>1, <2>3
  <2> QED  BY <1>2, <2>1, <2>2, <2>3 DEF MCNext
<1> QED  BY <1>1, <1>2, OperandsInvariantHolds, RemainderInvariantHolds, PTL DEF MCSpec

\* A call that no bug of the big-integer arithmetic reached is answered with the power,
\* in as many bytes as the modulus has (zero to zero in operands of one limb excepted).
THEOREM ModExpReturnsPower == MCSpec => []ReturnsPowerWhenExact
<1>1. PowerInvariant => ReturnsPowerWhenExact
  BY DEF PowerInvariant, ZeroToZero, IsPower, ReturnsPowerWhenExact, Exp!ReturnsPowerWhenExact
<1> QED  BY <1>1, PowerInvariantHolds, PTL
=============================================================================
