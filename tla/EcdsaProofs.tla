----------------------------- MODULE EcdsaProofs ----------------------------
(***************************************************************************)
(* P256VERIFY and secp256k1VERIFY, for every pair of prime orders, every   *)
(* curve and all calldata: the tables of Ecdsa are what the texts compute, *)
(* a request is burned exactly when it is malformed, Shamir's loop         *)
(* computes the combination of the scalars, 1 is returned exactly for the  *)
(* signatures that verify, and P256VERIFY answers every request.           *)
(***************************************************************************)
EXTENDS Ecdsa, CurveProofs

-----------------------------------------------------------------------------
(***************************************************************************)
(* The two orders, and the tables.                                         *)
(***************************************************************************)

\* The orders of the field and of the group, with what is precomputed for them.
LEMMA Orders ==
  /\ P \in Nat /\ P > 3 /\ F = 0 .. (P - 1) /\ F \subseteq Word /\ A \in F /\ B \in F
  /\ IsOrder(P, P_PRIME, R2_MOD_P) /\ R_INVERSE_P = radixInverse(P)
  /\ N \in Nat /\ N > 2 /\ N < R /\ ScalarField = 0 .. (N - 1) /\ ScalarField \subseteq Word
  /\ IsOrder(N, N_PRIME, R2_MOD_N) /\ R_INVERSE_N = radixInverse(N)
  /\ Variant # "bn"
<1>1. /\ Variant \in {"r1", "k1"} /\ P < R /\ N < R
      /\ P_PRIME \in Word /\ (P * P_PRIME) % R = R - 1 /\ R2_MOD_P = (R * R) % P
      /\ N_PRIME \in Word /\ (N * N_PRIME) % R = R - 1 /\ R2_MOD_N = (R * R) % N
  BY EcdsaAssumption
<1>2. Variant # "bn"
  BY <1>1
<1>3. /\ P \in Nat /\ P > 3 /\ IsPrime(P) /\ A \in F /\ B \in F
      /\ N \in Nat /\ N > 2 /\ IsPrime(N) /\ R \in Nat
  BY CurveAssumption, OrderAssumption, OrderIsNatural, WordAssumption DEF IsPrime
<1>4. IsOrder(P, P_PRIME, R2_MOD_P) /\ IsOrder(N, N_PRIME, R2_MOD_N)
  BY <1>1, <1>2, <1>3 DEF IsOrder
<1>5. F = 0 .. (P - 1) /\ ScalarField = 0 .. (N - 1)
  BY DEF F, ScalarField
<1>6. F \subseteq Word /\ ScalarField \subseteq Word
  BY <1>1, <1>3, <1>5 DEF Word
<1>7. R_INVERSE_P = radixInverse(P) /\ R_INVERSE_N = radixInverse(N)
  BY <1>5 DEF R_INVERSE_P, R_INVERSE_N, radixInverse
<1>. QED BY <1>1, <1>2, <1>3, <1>4, <1>5, <1>6, <1>7

LEMMA ProductEntry ==
  ASSUME NEW n, NEW nPrime, NEW r2, IsOrder(n, nPrime, r2), NEW a \in Int, NEW b \in Int
  PROVE  (a * b * radixInverse(n)) % n = decode(n, TimesMod(n, a, b))
<1>1. PICK ab \in Int : ab = a * b
  BY SMT
<1>2. decode(n, ab % n) = decode(n, ab)
  BY OrderFacts, RadixInverts, EarlyRemainder DEF decode
<1>. QED BY <1>1, <1>2 DEF decode, TimesMod

\* The entries of the tables modulo P, and modulo N.
LEMMA FieldEntries ==
  /\ \A a, b \in F : /\ pAdd(a, b) = PlusMod(P, a, b)
                     /\ pSub(a, b) = MinusMod(P, a, b)
                     /\ pMul(a, b) = decode(P, TimesMod(P, a, b))
                     /\ pAdd(a, b) \in F /\ pSub(a, b) \in F /\ pMul(a, b) \in F
  /\ \A a \in F : /\ intoP[a] = encode(P, a) /\ outOfP[a] = decode(P, a)
                  /\ intoP[a] \in F /\ outOfP[a] \in F
<1>1. ASSUME NEW a \in F, NEW b \in F
      PROVE  /\ pAdd(a, b) = PlusMod(P, a, b)
             /\ pSub(a, b) = MinusMod(P, a, b)
             /\ pMul(a, b) = decode(P, TimesMod(P, a, b))
             /\ pAdd(a, b) \in F /\ pSub(a, b) \in F /\ pMul(a, b) \in F
  <2>0. a \in Int /\ b \in Int /\ P \in Nat /\ P > 0
    BY Orders
  <2>1. pAdd(a, b) = PlusMod(P, a, b) /\ pSub(a, b) = MinusMod(P, a, b)
    BY DEF pAdd, pSums, pSub, pDifferences, PlusMod, MinusMod
  <2>2. pMul(a, b) = (a * b * R_INVERSE_P) % P
    BY DEF pMul, pProducts
  <2>3. pMul(a, b) = decode(P, TimesMod(P, a, b))
    BY <2>0, <2>2, Orders, ProductEntry
  <2>4. TimesMod(P, a, b) \in Int
    BY <2>0, Closed
  <2>5. decode(P, TimesMod(P, a, b)) \in F
    BY <2>4, Orders, EncodeDecode
  <2>6. PlusMod(P, a, b) \in F /\ MinusMod(P, a, b) \in F
    BY <2>0, Orders, Closed
  <2>. QED BY <2>1, <2>3, <2>5, <2>6
<1>2. ASSUME NEW a \in F
      PROVE  /\ intoP[a] = encode(P, a) /\ outOfP[a] = decode(P, a)
             /\ intoP[a] \in F /\ outOfP[a] \in F
  <2>1. a \in Int
    BY Orders
  <2>2. intoP[a] = encode(P, a) /\ outOfP[a] = decode(P, a)
    BY Orders DEF intoP, outOfP, encode, decode, TimesMod
  <2>3. encode(P, a) \in F /\ decode(P, a) \in F
    BY <2>1, Orders, EncodeDecode
  <2>. QED BY <2>2, <2>3
<1>. QED BY <1>1, <1>2

LEMMA ScalarEntries ==
  /\ \A a, b \in ScalarField : /\ nMul(a, b) = decode(N, TimesMod(N, a, b))
                               /\ nMul(a, b) \in ScalarField
  /\ \A a \in Word : intoN[a] = encode(N, a) /\ intoN[a] \in ScalarField
  /\ \A a \in ScalarField : outOfN[a] = decode(N, a) /\ outOfN[a] \in ScalarField
<1>1. ASSUME NEW a \in ScalarField, NEW b \in ScalarField
      PROVE  nMul(a, b) = decode(N, TimesMod(N, a, b)) /\ nMul(a, b) \in ScalarField
  <2>0. a \in Int /\ b \in Int /\ N \in Nat /\ N > 0
    BY Orders
  <2>1. nMul(a, b) = (a * b * R_INVERSE_N) % N
    BY DEF nMul, nProducts
  <2>2. nMul(a, b) = decode(N, TimesMod(N, a, b))
    BY <2>0, <2>1, Orders, ProductEntry
  <2>3. TimesMod(N, a, b) \in Int
    BY <2>0, Closed
  <2>4. decode(N, TimesMod(N, a, b)) \in ScalarField
    BY <2>3, Orders, EncodeDecode
  <2>. QED BY <2>2, <2>4
<1>2. ASSUME NEW a \in Word
      PROVE  intoN[a] = encode(N, a) /\ intoN[a] \in ScalarField
  <2>1. a \in Int
    BY Orders, WordAssumption DEF Word
  <2>2. intoN[a] = encode(N, a)
    BY DEF intoN, encode, TimesMod
  <2>3. encode(N, a) \in ScalarField
    BY <2>1, Orders, EncodeDecode
  <2>. QED BY <2>2, <2>3
<1>3. ASSUME NEW a \in ScalarField
      PROVE  outOfN[a] = decode(N, a) /\ outOfN[a] \in ScalarField
  <2>1. a \in Int
    BY Orders
  <2>2. outOfN[a] = decode(N, a)
    BY Orders DEF outOfN, decode, TimesMod
  <2>3. decode(N, a) \in ScalarField
    BY <2>1, Orders, EncodeDecode
  <2>. QED BY <2>2, <2>3
<1>. QED BY <1>1, <1>2, <1>3

\* For every word size and both orders, whether or not they leave spare bits,
\* the tables that the verifiers are modelled with hold what the functions of
\* their texts return: on reduced operands, and for intoMontgomeryForm modulo N
\* on any word, as the hash is.
THEOREM VerifierTablesAreExact == FieldOperations /\ ScalarOperations
<1>1. FieldOperations
  <2>1. ASSUME NEW a \in F, NEW b \in F
        PROVE  /\ pAdd(a, b) = montgomeryAdd(a, b, P)
               /\ pSub(a, b) = montgomerySub(a, b, P)
               /\ pMul(a, b) = montgomeryMul(a, b, P, P_PRIME)
    <3>1. /\ montgomeryAdd(a, b, P) = PlusMod(P, a, b)
          /\ montgomerySub(a, b, P) = MinusMod(P, a, b)
      BY Orders, SumValue
    <3>2. montgomeryMul(a, b, P, P_PRIME) = decode(P, TimesMod(P, a, b))
      BY Orders, ProductValue
    <3>. QED BY <3>1, <3>2, FieldEntries
  <2>2. ASSUME NEW a \in F \ {0}
        PROVE  pInv[a] = montgomeryModularInverse(a, P, R2_MOD_P)
    <3>1. a \in 1 .. (P - 1)
      BY Orders
    <3>2. pInv[a] = CHOOSE j \in 0 .. (P - 1) : (a * j - R * R) % P = 0
      BY Orders DEF pInv
    <3>. QED BY <3>1, <3>2, Orders, InverseValue
  <2>3. ASSUME NEW a \in F
        PROVE  /\ intoP[a] = intoMontgomeryForm(a, P, P_PRIME, R2_MOD_P)
               /\ outOfP[a] = outOfMontgomeryForm(a, P, P_PRIME)
    <3>1. a \in Word
      BY Orders
    <3>2. /\ intoMontgomeryForm(a, P, P_PRIME, R2_MOD_P) = encode(P, a)
          /\ outOfMontgomeryForm(a, P, P_PRIME) = decode(P, a)
      BY <3>1, Orders, FormValue
    <3>. QED BY <3>2, FieldEntries
  <2>. QED BY <2>1, <2>2, <2>3 DEF FieldOperations
<1>2. ScalarOperations
  <2>1. ASSUME NEW a \in ScalarField, NEW b \in ScalarField
        PROVE  nMul(a, b) = montgomeryMul(a, b, N, N_PRIME)
    <3>1. montgomeryMul(a, b, N, N_PRIME) = decode(N, TimesMod(N, a, b))
      BY Orders, ProductValue
    <3>. QED BY <3>1, ScalarEntries
  <2>2. ASSUME NEW a \in ScalarField \ {0}
        PROVE  nInv[a] = montgomeryModularInverse(a, N, R2_MOD_N)
    <3>1. a \in 1 .. (N - 1)
      BY Orders
    <3>2. nInv[a] = CHOOSE j \in 0 .. (N - 1) : (a * j - R * R) % N = 0
      BY Orders DEF nInv
    <3>. QED BY <3>1, <3>2, Orders, InverseValue
  <2>3. ASSUME NEW a \in Word
        PROVE  intoN[a] = intoMontgomeryForm(a, N, N_PRIME, R2_MOD_N)
    BY Orders, ScalarEntries, FormValue
  <2>4. ASSUME NEW a \in ScalarField
        PROVE  outOfN[a] = outOfMontgomeryForm(a, N, N_PRIME)
    <3>1. a \in Word
      BY Orders
    <3>. QED BY <3>1, Orders, ScalarEntries, FormValue
  <2>. QED BY <2>1, <2>2, <2>3, <2>4 DEF ScalarOperations
<1>. QED BY <1>1, <1>2

-----------------------------------------------------------------------------
(***************************************************************************)
(* The checks on a request, and the scalars.                               *)
(***************************************************************************)

\* The check on words in Montgomery form decides the curve's equation.
LEMMA CurveCheck ==
  ASSUME NEW a \in F, NEW b \in F
  PROVE  affinePointIsOnCurve(intoP[a], intoP[b]) <=> OnCurve(a, b)
<1>. DEFINE m == intoP[a]  w == intoP[b]
<1>0. P \in Nat /\ P > 0 /\ a \in Int /\ b \in Int /\ A \in F /\ B \in F /\ A \in Int /\ B \in Int
  BY Orders
<1>1. \A x \in F : intoP[x] \in F /\ decode(P, intoP[x]) = x
  <2>. TAKE x \in F
  <2>1. x \in Int /\ x % P = x
    BY Orders, OrderFacts
  <2>. QED BY <2>1, Orders, EncodeDecode, FieldEntries
<1>2. MONTGOMERY_A_P = intoP[A] /\ MONTGOMERY_B_P = intoP[B]
  BY <1>0 DEF MONTGOMERY_A_P, MONTGOMERY_B_P, intoP
<1>3. \A x, y \in F : /\ pAdd(x, y) \in F /\ pMul(x, y) \in F
                      /\ decode(P, pAdd(x, y)) = PlusMod(P, decode(P, x), decode(P, y))
                      /\ decode(P, pMul(x, y)) = TimesMod(P, decode(P, x), decode(P, y))
  <2>. TAKE x, y \in F
  <2>1. x \in Int /\ y \in Int
    BY Orders
  <2>. QED BY <2>1, Orders, FieldEntries, DecodeOperations
<1>. DEFINE cube == pMul(m, pMul(m, m))  linear == pAdd(pMul(MONTGOMERY_A_P, m), MONTGOMERY_B_P)
            right == pAdd(cube, linear)
<1>4. /\ m \in F /\ decode(P, m) = a /\ w \in F /\ decode(P, w) = b
      /\ MONTGOMERY_A_P \in F /\ decode(P, MONTGOMERY_A_P) = A
      /\ MONTGOMERY_B_P \in F /\ decode(P, MONTGOMERY_B_P) = B
  BY <1>0, <1>1, <1>2
<1>. HIDE DEF m, w
<1>5. pMul(w, w) \in F /\ decode(P, pMul(w, w)) = TimesMod(P, b, b)
  BY <1>3, <1>4
<1>6. cube \in F /\ decode(P, cube) = TimesMod(P, a, TimesMod(P, a, a))
  <2>1. pMul(m, m) \in F /\ decode(P, pMul(m, m)) = TimesMod(P, a, a)
    BY <1>3, <1>4
  <2>. QED BY <1>3, <1>4, <2>1
<1>7. linear \in F /\ decode(P, linear) = PlusMod(P, TimesMod(P, A, a), B)
  <2>1. /\ pMul(MONTGOMERY_A_P, m) \in F
        /\ decode(P, pMul(MONTGOMERY_A_P, m)) = TimesMod(P, A, a)
    BY <1>3, <1>4
  <2>. QED BY <1>3, <1>4, <2>1
<1>. HIDE DEF cube, linear
<1>8. /\ right \in F
      /\ decode(P, right) = PlusMod(P, TimesMod(P, a, TimesMod(P, a, a)),
                                       PlusMod(P, TimesMod(P, A, a), B))
  BY <1>3, <1>6, <1>7
<1>. HIDE DEF right
<1>9. PlusMod(P, TimesMod(P, a, TimesMod(P, a, a)), PlusMod(P, TimesMod(P, A, a), B))
        = (a * a * a + A * a + B) % P
  <2>1. PICK aa \in Int : aa = a * a
    BY <1>0, SMT
  <2>2. PICK aaa \in Int : aaa = a * aa
    BY <1>0, SMT
  <2>3. PICK ca \in Int : ca = A * a
    BY <1>0, SMT
  <2>4. PICK z \in Int : z = ca + B
    BY <1>0
  <2>5. TimesMod(P, a, TimesMod(P, a, a)) = aaa % P
    <3>1. TimesMod(P, a, a) = aa % P
      BY <2>1 DEF TimesMod
    <3>2. TimesMod(P, a, aa % P) = TimesMod(P, a, aa)
      BY <1>0, EarlyRemainder
    <3>. QED BY <2>2, <3>1, <3>2 DEF TimesMod
  <2>6. PlusMod(P, TimesMod(P, A, a), B) = z % P
    <3>1. TimesMod(P, A, a) = ca % P
      BY <2>3 DEF TimesMod
    <3>2. PlusMod(P, ca % P, B) = PlusMod(P, ca, B)
      BY <1>0, EarlyRemainder
    <3>. QED BY <2>4, <3>1, <3>2 DEF PlusMod
  <2>7. PlusMod(P, aaa % P, z % P) = PlusMod(P, aaa, z)
    <3>1. z % P \in Int
      BY <1>0, RemainderTwice
    <3>2. PlusMod(P, aaa % P, z % P) = PlusMod(P, aaa, z % P)
      BY <1>0, <3>1, EarlyRemainder
    <3>3. PlusMod(P, aaa, z % P) = PlusMod(P, aaa, z)
      BY <1>0, EarlyRemainder
    <3>. QED BY <3>2, <3>3
  <2>8. a * a * a + A * a + B = aaa + z
    <3>1. a * a * a = aaa
      <4>1. (a * a) * a = a * (a * a)
        BY <1>0, SMT
      <4>. QED BY <2>1, <2>2, <4>1
    <3>. QED BY <1>0, <2>3, <2>4, <3>1
  <2>. QED BY <2>5, <2>6, <2>7, <2>8 DEF PlusMod
<1>10. pMul(w, w) = right <=> TimesMod(P, b, b) = (a * a * a + A * a + B) % P
  <2>1. decode(P, pMul(w, w)) = decode(P, right) => pMul(w, w) = right
    BY <1>5, <1>8, Orders, DecodeInjective
  <2>. QED BY <1>5, <1>8, <1>9, <2>1
<1>. QED BY <1>10 DEF affinePointIsOnCurve, OnCurve, TimesMod, m, w, cube, linear, right

\* The key is a point other than infinity exactly when it passes the checks.
LEMMA KeyCheck ==
  ASSUME key \in Word \X Word
  PROVE  key \in Points \ {Infinity}
           <=> keyInField /\ affinePointIsOnCurve(intoP[key[1]], intoP[key[2]])
<1>1. PICK a \in Word, b \in Word : key = <<a, b>>
  OBVIOUS
<1>2. key[1] = a /\ key[2] = b
  BY <1>1
<1>3. keyInField <=> key # Infinity /\ a \in F /\ b \in F
  <2>1. a < P /\ b < P <=> a \in F /\ b \in F
    BY Orders DEF Word
  <2>2. affinePointIsInfinity(key) <=> key = Infinity
    BY <1>1, <1>2 DEF affinePointIsInfinity, Infinity
  <2>3. affinePointCoordinatesAreOnFieldOrder(key) <=> a < P /\ b < P
    BY <1>2 DEF affinePointCoordinatesAreOnFieldOrder
  <2>. QED BY <2>1, <2>2, <2>3 DEF keyInField
<1>4. key \in Points \ {Infinity} <=> key # Infinity /\ a \in F /\ b \in F /\ OnCurve(a, b)
  BY <1>1, <1>2 DEF Points
<1>. QED BY <1>2, <1>3, <1>4, CurveCheck

\* The checks of a request.
LEMMA RequestCheck ==
  ASSUME r \in Word, s \in Word, key \in Word \X Word
  PROVE  /\ requestValid <=> /\ signatureInRange /\ keyInField
                             /\ affinePointIsOnCurve(intoP[key[1]], intoP[key[2]])
         /\ signatureInRange => r \in 1 .. (N - 1) /\ s \in 1 .. (N - 1)
<1>1. signatureInRange <=> r \in 1 .. (N - 1) /\ s \in 1 .. (N - 1)
  BY Orders DEF signatureInRange, fieldElementIsOnSubgroupOrder, Word
<1>. QED BY <1>1, KeyCheck DEF requestValid

\* What the chain of operations modulo N computes is the quotient of a word by
\* a scalar that is not zero.
LEMMA Quotient ==
  ASSUME NEW a \in Word, NEW d \in 1 .. (N - 1)
  PROVE  LET t == outOfN[nMul(intoN[a], nInv[intoN[d]])]
         IN  t \in ScalarField /\ TimesMod(N, t, d) = a % N
<1>. DEFINE m == intoN[a]  e == intoN[d]  i == nInv[e]  q == nMul(m, i)  t == outOfN[q]
<1>0. N \in Nat /\ N > 0 /\ a \in Int /\ d \in Int /\ d \in Word /\ d % N = d /\ d # 0
  <2>1. N \in Nat /\ N > 0 /\ N < R /\ R \in Nat
    BY Orders, WordAssumption
  <2>2. a \in Int /\ d \in Int /\ d \in Word /\ d # 0 /\ d \in 0 .. (N - 1)
    BY <2>1 DEF Word
  <2>. QED BY <2>1, <2>2, SmallRemainder
<1>1. /\ m = encode(N, a) /\ m \in ScalarField /\ m \in Int
      /\ e = encode(N, d) /\ e \in ScalarField /\ e \in Int
  BY <1>0, ScalarEntries, Orders
<1>2. decode(N, m) = a % N /\ decode(N, e) = d
  BY <1>0, <1>1, Orders, EncodeDecode
<1>3. e \in 1 .. (N - 1)
  <2>1. e # 0
    BY <1>0, <1>2, Orders, DecodeInjective
  <2>. QED BY <1>1, <2>1, Orders
<1>. HIDE DEF m, e
<1>4. i \in ScalarField /\ TimesMod(N, d, decode(N, i)) = 1
  <2>1. i = CHOOSE j \in 0 .. (N - 1) : (e * j - R * R) % N = 0
    BY <1>3, Orders DEF nInv
  <2>. QED BY <1>2, <1>3, <2>1, Orders, InverseValue
<1>. HIDE DEF i
<1>5. q \in ScalarField /\ t \in ScalarField /\ t = decode(N, decode(N, TimesMod(N, m, i)))
  BY <1>1, <1>4, ScalarEntries
<1>6. i \in Int /\ decode(N, i) \in Int
  <2>1. i \in Int
    BY <1>4, Orders
  <2>. QED BY <2>1, Orders, EncodeDecode
<1>7. t = TimesMod(N, a % N, decode(N, i))
  BY <1>1, <1>2, <1>5, <1>6, Orders, DecodeOperations
<1>8. TimesMod(N, t, d) = a % N
  <2>1. t = TimesMod(N, a, decode(N, i))
    BY <1>0, <1>6, <1>7, EarlyRemainder
  <2>2. TimesMod(N, decode(N, i), d) = 1 % N
    <3>1. TimesMod(N, decode(N, i), d) = 1
      BY <1>0, <1>4, <1>6, TimesCommutes
    <3>. QED BY <3>1, Orders, OrderFacts
  <2>. HIDE DEF t
  <2>3. TimesMod(N, TimesMod(N, a, decode(N, i)), d) = a % N
    BY <1>0, <1>6, <2>2, Undo
  <2>. QED BY <2>1, <2>3
<1>. QED BY <1>5, <1>8 DEF m, e, i, q, t

-----------------------------------------------------------------------------
(***************************************************************************)
(* The invariant of a call: past the checks the request is well-formed and *)
(* the scalars are the quotients hash/s and r/s, the second not zero; at   *)
(* the end the result is what the checks called for.                       *)
(***************************************************************************)
CallTyped ==
  /\ hash \in Word /\ r \in Word /\ s \in Word /\ key \in Word \X Word
  /\ pc \in {"entry", "combine", "shamir", "done"}

ScalarsAreQuotients ==
  /\ t0 \in ScalarField /\ TimesMod(N, t0, s) = hash % N
  /\ t1 \in ScalarField /\ TimesMod(N, t1, s) = r

PastTheChecks ==
  pc \in {"combine", "shamir"} => requestValid /\ t1 # 0 /\ ScalarsAreQuotients

Answered ==
  pc = "done" =>
    /\ result = Burned <=> ~requestValid
    /\ requestValid /\ Variant = "r1" => result \in {Returned(0), Returned(1)}

CallInv == CallTyped /\ PastTheChecks /\ Answered

\* The ways a call can end differ.
LEMMA Results ==
  /\ Burned # Diverged /\ Diverged # <<>> /\ Returned(1) # Returned(0)
  /\ \A b : Returned(b) # Burned /\ Returned(b) # Diverged
<1>1. \A b : Returned(b) # Burned /\ Returned(b) # Diverged
  <2>. TAKE b
  <2>1. Returned(b)[1] = "returned" /\ Burned[1] = "burned" /\ Diverged[1] = "diverged"
    BY DEF Returned, Burned, Diverged
  <2>2. "returned" # "burned" /\ "returned" # "diverged"
    OBVIOUS
  <2>. QED BY <2>1, <2>2
<1>2. Burned # Diverged /\ Diverged # <<>>
  BY DEF Burned, Diverged
<1>3. Returned(1) # Returned(0)
  <2>1. Returned(1)[2] = 1 /\ Returned(0)[2] = 0
    BY DEF Returned
  <2>. QED BY <2>1
<1>. QED BY <1>1, <1>2, <1>3

LEMMA CallInvInit == Init => CallInv
<1>. SUFFICES ASSUME Init PROVE CallInv
  OBVIOUS
<1>1. Hashes \subseteq Word /\ Signatures \subseteq Word /\ Keys \subseteq Word \X Word
  BY EcdsaAssumption
<1>2. CallTyped
  BY <1>1 DEF Init, CallTyped
<1>. QED BY <1>2 DEF Init, CallInv, PastTheChecks, Answered

\* Each step keeps the invariant.
LEMMA CallInvStep == CallInv /\ [Next]_vars => CallInv'
<1>. SUFFICES ASSUME CallInv, [Next]_vars PROVE CallInv'
  OBVIOUS
<1>. USE DEF CallInv
<1>0. /\ requestValid <=> /\ signatureInRange /\ keyInField
                          /\ affinePointIsOnCurve(intoP[key[1]], intoP[key[2]])
      /\ signatureInRange => r \in 1 .. (N - 1) /\ s \in 1 .. (N - 1)
  BY RequestCheck DEF CallTyped
<1>a. ASSUME UNCHANGED <<r, s, key>> PROVE requestValid' <=> requestValid
  BY <1>a DEF requestValid
<1>1. CASE RejectSignature
  <2>1. ~requestValid /\ result' = Burned /\ pc' = "done" /\ UNCHANGED <<hash, r, s, key, t0, t1>>
    BY <1>0, <1>1 DEF RejectSignature, finish
  <2>. QED BY <1>a, <2>1 DEF CallTyped, PastTheChecks, Answered
<1>2. CASE RejectKey
  <2>1. ~requestValid /\ result' = Burned /\ pc' = "done" /\ UNCHANGED <<hash, r, s, key, t0, t1>>
    BY <1>0, <1>2 DEF RejectKey, finish
  <2>. QED BY <1>a, <2>1 DEF CallTyped, PastTheChecks, Answered
<1>3. CASE ComputeScalars
  <2>1. requestValid /\ r \in 1 .. (N - 1) /\ s \in 1 .. (N - 1)
    BY <1>0, <1>3 DEF ComputeScalars
  <2>2. /\ t0' = outOfN[nMul(intoN[hash], nInv[intoN[s]])]
        /\ t1' = outOfN[nMul(intoN[r], nInv[intoN[s]])]
        /\ pc' = "combine" /\ UNCHANGED <<hash, r, s, key>>
    BY <1>3 DEF ComputeScalars
  <2>3. /\ t0' \in ScalarField /\ TimesMod(N, t0', s) = hash % N
        /\ t1' \in ScalarField /\ TimesMod(N, t1', s) = r % N
    BY <2>1, <2>2, Quotient DEF CallTyped
  <2>4. r % N = r /\ r # 0
    <3>1. N \in Nat /\ N > 0 /\ r \in 0 .. (N - 1) /\ r # 0
      BY <2>1, Orders
    <3>. QED BY <3>1, SmallRemainder
  <2>5. t1' # 0
    <3>1. TimesMod(N, 0, s) = 0
      <4>1. s \in Int
        BY <2>1
      <4>2. 0 * s = 0
        BY <4>1
      <4>3. 0 % N = 0
        BY Orders, OrderFacts
      <4>. QED BY <4>2, <4>3 DEF TimesMod
    <3>. QED BY <2>3, <2>4, <3>1
  <2>6. ScalarsAreQuotients'
    BY <2>2, <2>3, <2>4 DEF ScalarsAreQuotients
  <2>. QED BY <1>a, <2>1, <2>2, <2>5, <2>6 DEF CallTyped, PastTheChecks, Answered
<1>4. CASE StartShamir
  <2>1. /\ pc = "combine" /\ requestValid /\ t1 # 0 /\ ScalarsAreQuotients
        /\ pc' = "shamir" /\ UNCHANGED <<hash, r, s, key, t0, t1>>
    BY <1>4 DEF StartShamir, loadTopBits, PastTheChecks
  <2>2. ScalarsAreQuotients'
    BY <2>1 DEF ScalarsAreQuotients
  <2>. QED BY <1>a, <2>1, <2>2 DEF CallTyped, PastTheChecks, Answered
<1>5. CASE ShamirPass
  <2>1. /\ pc = "shamir" /\ requestValid /\ t1 # 0 /\ ScalarsAreQuotients
        /\ pc' = "shamir" /\ UNCHANGED <<hash, r, s, key, t0, t1>>
    BY <1>5 DEF ShamirPass, PastTheChecks
  <2>2. ScalarsAreQuotients'
    BY <2>1 DEF ScalarsAreQuotients
  <2>. QED BY <1>a, <2>1, <2>2 DEF CallTyped, PastTheChecks, Answered
<1>6. CASE Compare
  <2>1. /\ pc = "shamir" /\ requestValid
        /\ pc' = "done" /\ UNCHANGED <<hash, r, s, key, t0, t1>>
    BY <1>6 DEF Compare, finish, PastTheChecks
  <2>2. compareX \in {Returned(0), Returned(1)}
    BY DEF compareX
  <2>3. \/ result' \in {Returned(0), Returned(1)}
        \/ result' = Diverged /\ Variant # "r1"
    BY <1>6, <2>2 DEF Compare, finish
  <2>4. result' # Burned
    BY <2>3, Results
  <2>. QED BY <1>a, <2>1, <2>3, <2>4 DEF CallTyped, PastTheChecks, Answered
<1>7. CASE UNCHANGED vars
  <2>1. UNCHANGED <<hash, r, s, key, t0, t1, pc, result>>
    BY <1>7 DEF vars
  <2>2. ScalarsAreQuotients' <=> ScalarsAreQuotients
    BY <2>1 DEF ScalarsAreQuotients
  <2>. QED BY <1>a, <2>1, <2>2 DEF CallTyped, PastTheChecks, Answered
<1>. QED BY <1>1, <1>2, <1>3, <1>4, <1>5, <1>6, <1>7 DEF Next, Terminated

\* The invariant of every call.
THEOREM CallInvariant == Spec => []CallInv
BY CallInvInit, CallInvStep, PTL DEF Spec

\* In both texts, for every curve, hash, signature and key: burnGas() is reached
\* exactly for a request that EIP-7212 calls malformed. The check of the curve,
\* done on words in Montgomery form, decides the curve's equation.
THEOREM MalformedAreBurned == Spec => []BurnsExactlyMalformed
<1>1. CallInv => BurnsExactlyMalformed
  BY DEF CallInv, Answered, BurnsExactlyMalformed
<1>. QED BY <1>1, CallInvariant, PTL

\* P256VERIFY answers 0 or 1 to every well-formed request: r and s are not zero
\* modulo the prime N, so neither is r/s, the search for the top bit pair ends,
\* and infinity is tested for before its z-coordinate would be inverted.
THEOREM WellFormedAreAnswered ==
  ASSUME Variant = "r1"
  PROVE  Spec => []AnswersWellFormed
<1>1. CallInv => AnswersWellFormed
  BY DEF CallInv, Answered, AnswersWellFormed
<1>. QED BY <1>1, CallInvariant, PTL


-----------------------------------------------------------------------------
(***************************************************************************)
(* What the projective formulas compute.                                   *)
(***************************************************************************)

\* Words have a Montgomery form, and the constants are those of one and of A.
LEMMA WordForms ==
  /\ HasForm
  /\ \A c \in F : outOfP[c] = decode(P, c) /\ Means(intoP[c], c)
  /\ Means(MONTGOMERY_ONE_P, 1) /\ Means(MONTGOMERY_A_P, A)
<1>1. HasForm  BY Orders DEF HasForm
<1>2. ASSUME NEW e \in Int PROVE Means((e * R) % P, e)
  <2>1. encode(P, e) = (e * R) % P  BY DEF encode, TimesMod
  <2>2. encode(P, e) \in F /\ decode(P, encode(P, e)) = e % P
    BY Orders, EncodeDecode
  <2> QED  BY <2>1, <2>2 DEF Means
<1>3. ASSUME NEW c \in F PROVE outOfP[c] = decode(P, c) /\ Means(intoP[c], c)
  <2>1. outOfP[c] = decode(P, c)  BY FieldEntries
  <2>2. intoP[c] = (c * R) % P /\ c \in Int  BY Orders DEF intoP
  <2> QED  BY <1>2, <2>1, <2>2
<1>4. Means(MONTGOMERY_ONE_P, 1)
  <2>1. 1 * R = R  BY WordAssumption
  <2>2. Means((1 * R) % P, 1)  BY <1>2
  <2> QED  BY <2>1, <2>2 DEF MONTGOMERY_ONE_P
<1>5. Means(MONTGOMERY_A_P, A)
  <2>1. A \in Int  BY PrimeFacts
  <2> QED  BY <1>2, <2>1 DEF MONTGOMERY_A_P
<1> QED  BY <1>1, <1>3, <1>4, <1>5

\* The operations on words stand for those on numbers.
LEMMA WordOperations ==
  ASSUME NEW a, NEW b, NEW e, NEW f, Means(a, e), Means(b, f)
  PROVE  /\ Means(pAdd(a, b), e + f) /\ Means(pSub(a, b), e - f)
         /\ Means(pMul(a, b), e * f)
<1>1. a \in F /\ b \in F  BY DEF Means
<1>2. /\ pAdd(a, b) = PlusMod(P, a, b) /\ pSub(a, b) = MinusMod(P, a, b)
      /\ pMul(a, b) = decode(P, TimesMod(P, a, b))
  BY <1>1, FieldEntries
<1> QED  BY <1>2, WordForms, MeansOperations

\* A coordinate that is read from projective words.
LEMMA ReadsCoordinate ==
  ASSUME NEW a, NEW b, NEW c \in F, NEW z \in Int, Means(a, c * z), Means(b, z), b # 0
  PROVE  outOfP[pMul(a, pInv[b])] = c
<1> DEFINE i == pInv[b]
           n == decode(P, i)
<1>1. b \in 1 .. (P - 1) /\ b \in F \ {0}  BY Orders DEF Means
<1>2. i = CHOOSE j \in 0 .. (P - 1) : (b * j - R * R) % P = 0
  BY <1>1, Orders DEF pInv
<1>3. i \in F /\ TimesMod(P, decode(P, b), n) = 1
  BY <1>1, <1>2, Orders, InverseValue
<1> HIDE DEF i
<1>4. Means(i, n) /\ n \in F /\ n \in Int
  BY <1>3, WordForms, WordMeans, PrimeFacts
<1> HIDE DEF n
<1>5. c \in Int /\ c % P = c /\ P \in Nat /\ P > 0 /\ 1 % P = 1  BY PrimeFacts
<1>6. Same(z * n, 1)
  <2>1. TimesMod(P, z % P, n) = 1  BY <1>3 DEF Means
  <2>2. TimesMod(P, z, n) = 1  BY <1>4, <1>5, <2>1, EarlyRemainder
  <2>3. z * n \in Int  BY <1>4
  <2> QED  BY <1>5, <2>2, <2>3 DEF Same, TimesMod
<1>7. Means(pMul(a, i), (c * z) * n)  BY <1>4, WordOperations
<1>8. Same((c * z) * n, c)
  <2>1. Same(c * (z * n), c * 1)  BY <1>5, <1>6, SameTimes
  <2>2. (c * z) * n = c * (z * n) /\ c * 1 = c  BY <1>4, <1>5, SMT
  <2> QED  BY <2>1, <2>2
<1>9. pMul(a, i) \in F  BY <1>7 DEF Means
<1>10. Means(pMul(a, i), c)  BY <1>7, <1>8, <1>9, WordForms, WordMeans
<1> QED  BY <1>5, <1>9, <1>10, WordForms DEF Means, i

\* The affine point that projective words stand for is the one read from them.
LEMMA AffineReads ==
  ASSUME NEW p, NEW pt, Stands(p, pt)
  PROVE  Affine(p) = pt
<1>1. CASE p[3] = 0  BY <1>1 DEF Stands, Affine
<1>2. CASE p[3] # 0
  <2>1. PICK a, b \in F, z \in Int :
          /\ pt = <<a, b>> /\ Means(p[1], a * z) /\ Means(p[2], b * z) /\ Means(p[3], z)
    BY <1>2 DEF Stands, Finite
  <2>2. outOfP[pMul(p[1], pInv[p[3]])] = a /\ outOfP[pMul(p[2], pInv[p[3]])] = b
    BY <1>2, <2>1, ReadsCoordinate
  <2> QED  BY <1>2, <2>1, <2>2 DEF Affine
<1> QED  BY <1>1, <1>2

\* The zero point stands for infinity, and the words of an affine point for it.
LEMMA StartStands ==
  /\ Stands(ZeroPoint, Infinity)
  /\ \A a, b \in F : OnCurve(a, b) => Stands(projectiveFromAffine(<<a, b>>), <<a, b>>)
<1>1. 0 \in F /\ MONTGOMERY_ONE_P \in F  BY WordForms, PrimeFacts DEF Means
<1>2. Stands(ZeroPoint, Infinity)  BY <1>1 DEF Stands, ZeroPoint
<1>3. ASSUME NEW a \in F, NEW b \in F, OnCurve(a, b)
      PROVE  Stands(projectiveFromAffine(<<a, b>>), <<a, b>>)
  <2>1. Means(intoP[a], a) /\ Means(intoP[b], b)  BY WordForms
  <2>2. a * 1 = a /\ b * 1 = b  BY PrimeFacts
  <2>3. ~Same(1, 0)
    <3>1. 1 % P = 1 /\ 0 % P = 0  BY PrimeFacts
    <3> QED  BY <3>1 DEF Same
  <2>4. Same(a, a * 1) /\ Same(b, b * 1) /\ a \in Int /\ b \in Int
    BY <2>2, PrimeFacts, SameLaws
  <2>5. Stands(<<intoP[a], intoP[b], MONTGOMERY_ONE_P>>, <<a, b>>)
    BY <1>3, <2>1, <2>3, <2>4, WordForms, StandsFor
  <2> QED  BY <2>5 DEF projectiveFromAffine
<1> QED  BY <1>2, <1>3

\* What projectiveDouble computes, as numbers.
LEMMA DoubleMeans ==
  ASSUME NEW p, NEW n1, NEW n2, NEW n3, Means(p[1], n1), Means(p[2], n2), Means(p[3], n3)
  PROVE  LET xx  == n1 * n1
             t   == (xx + (xx + xx)) + A * (n3 * n3)
             yz  == n2 * n3
             u   == yz + yz
             uxy == u * (n1 * n2)
             v   == uxy + uxy
             w   == t * t - (v + v)
             uy  == u * n2
             uy2 == uy * uy
             d   == projectiveDouble(p)
         IN  /\ d = <<d[1], d[2], d[3]>>
             /\ Means(d[1], u * w) /\ Means(d[2], t * (v - w) - (uy2 + uy2))
             /\ Means(d[3], u * (u * u))
<1> DEFINE w1 == p[1]  w2 == p[2]  w3 == p[3]
           mxx  == pMul(w1, w1)
           mt   == pAdd(pAdd(mxx, pAdd(mxx, mxx)), pMul(MONTGOMERY_A_P, pMul(w3, w3)))
           myz  == pMul(w2, w3)
           mu   == pAdd(myz, myz)
           muxy == pMul(mu, pMul(w1, w2))
           mv   == pAdd(muxy, muxy)
           mw   == pSub(pMul(mt, mt), pAdd(mv, mv))
           muy  == pMul(mu, w2)
           muy2 == pMul(muy, muy)
           d1   == pMul(mu, mw)
           d2   == pSub(pMul(mt, pSub(mv, mw)), pAdd(muy2, muy2))
           d3   == pMul(mu, pMul(mu, mu))
           xx  == n1 * n1
           t   == (xx + (xx + xx)) + A * (n3 * n3)
           yz  == n2 * n3
           u   == yz + yz
           uxy == u * (n1 * n2)
           v   == uxy + uxy
           w   == t * t - (v + v)
           uy  == u * n2
           uy2 == uy * uy
<1>1. projectiveDouble(p) = <<d1, d2, d3>>  BY DEF projectiveDouble
<1> HIDE DEF w1, w2, w3
<1>2. Means(mxx, xx)  BY WordOperations DEF w1
<1> HIDE DEF mxx, xx
<1>3. Means(mt, t)
  <2>1. Means(pAdd(mxx, mxx), xx + xx)  BY <1>2, WordOperations
  <2>2. Means(pAdd(mxx, pAdd(mxx, mxx)), xx + (xx + xx))  BY <1>2, <2>1, WordOperations
  <2>3. Means(pMul(w3, w3), n3 * n3)  BY WordOperations DEF w3
  <2>4. Means(pMul(MONTGOMERY_A_P, pMul(w3, w3)), A * (n3 * n3))
    BY <2>3, WordForms, WordOperations
  <2> QED  BY <2>2, <2>4, WordOperations
<1> HIDE DEF mt, t
<1>4. Means(myz, yz)  BY WordOperations DEF w2, w3
<1> HIDE DEF myz, yz
<1>5. Means(mu, u)  BY <1>4, WordOperations
<1> HIDE DEF mu, u
<1>6. Means(muxy, uxy)
  <2>1. Means(pMul(w1, w2), n1 * n2)  BY WordOperations DEF w1, w2
  <2> QED  BY <1>5, <2>1, WordOperations
<1> HIDE DEF muxy, uxy
<1>7. Means(mv, v)  BY <1>6, WordOperations
<1> HIDE DEF mv, v
<1>8. Means(mw, w)
  <2>1. Means(pMul(mt, mt), t * t)  BY <1>3, WordOperations
  <2>2. Means(pAdd(mv, mv), v + v)  BY <1>7, WordOperations
  <2> QED  BY <2>1, <2>2, WordOperations
<1> HIDE DEF mw, w
<1>9. Means(muy, uy)  BY <1>5, WordOperations DEF w2
<1> HIDE DEF muy, uy
<1>10. Means(muy2, uy2)  BY <1>9, WordOperations
<1> HIDE DEF muy2, uy2
<1>11. Means(d1, u * w)  BY <1>5, <1>8, WordOperations
<1>12. Means(d2, t * (v - w) - (uy2 + uy2))
  <2>1. Means(pSub(mv, mw), v - w)  BY <1>7, <1>8, WordOperations
  <2>2. Means(pMul(mt, pSub(mv, mw)), t * (v - w))  BY <1>3, <2>1, WordOperations
  <2>3. Means(pAdd(muy2, muy2), uy2 + uy2)  BY <1>10, WordOperations
  <2> QED  BY <2>2, <2>3, WordOperations
<1>13. Means(d3, u * (u * u))
  <2>1. Means(pMul(mu, mu), u * u)  BY <1>5, WordOperations
  <2> QED  BY <1>5, <2>1, WordOperations
<1> HIDE DEF d1, d2, d3
<1> QED  BY <1>1, <1>11, <1>12, <1>13 DEF xx, t, yz, u, uxy, v, w, uy, uy2

\* projectiveDouble doubles.
LEMMA DoubleStands ==
  ASSUME NEW p, NEW pt, Stands(p, pt)
  PROVE  Stands(projectiveDouble(p), GroupAdd(pt, pt))
<1> DEFINE d == projectiveDouble(p)
<1>1. CASE pt = Infinity
  <2>1. p[1] \in F /\ p[2] \in F /\ p[3] = 0  BY <1>1, WordForms, StandsFinite DEF Stands
  <2>2. \A c \in F : Means(c, decode(P, c))  BY WordForms, WordMeans
  <2>3. Means(p[3], 0)
    <3>1. decode(P, 0) = 0  BY Orders, DecodeInjective
    <3>2. Means(0, decode(P, 0))  BY <2>2, PrimeFacts
    <3> QED  BY <2>1, <3>1, <3>2
  <2>4. PICK n1, n2 : Means(p[1], n1) /\ Means(p[2], n2)  BY <2>1, <2>2
  <2> DEFINE u == n2 * 0 + n2 * 0
  <2>5. d = <<d[1], d[2], d[3]>> /\ d[1] \in F /\ d[2] \in F /\ Means(d[3], u * (u * u))
    <3> DEFINE xx  == n1 * n1
               t   == (xx + (xx + xx)) + A * (0 * 0)
               uxy == u * (n1 * n2)
               v   == uxy + uxy
               w   == t * t - (v + v)
               uy  == u * n2
               uy2 == uy * uy
    <3>1. /\ d = <<d[1], d[2], d[3]>>
          /\ Means(d[1], u * w) /\ Means(d[2], t * (v - w) - (uy2 + uy2))
          /\ Means(d[3], u * (u * u))
      BY <2>3, <2>4, DoubleMeans
    <3> HIDE DEF d, u, t, v, w, uy2
    <3> QED  BY <3>1 DEF Means
  <2>6. u * (u * u) = 0
    <3>1. n2 \in Int  BY <2>4 DEF Means
    <3>2. u = 0  BY <3>1
    <3> QED  BY <3>2
  <2> HIDE DEF u, d
  <2>7. d[3] \in F /\ d[3] = 0
    <3>1. d[3] \in F /\ Means(d[3], 0) /\ Same(0, 0)  BY <2>5, <2>6, SameLaws DEF Means
    <3> QED  BY <3>1, WordForms, WordMeans
  <2>8. GroupAdd(pt, pt) = Infinity  BY <1>1, GroupLaw
  <2> QED  BY <2>5, <2>7, <2>8 DEF Stands, d
<1>2. CASE pt # Infinity
  <2>1. PICK a, b \in F, z \in Int :
          /\ pt = <<a, b>> /\ OnCurve(a, b) /\ ~Same(z, 0)
          /\ Means(p[1], a * z) /\ Means(p[2], b * z) /\ Means(p[3], z)
    BY <1>2, WordForms, StandsFinite
  <2>2. pt \in Points  BY WordForms, StandsFinite
  <2>3. GroupAdd(pt, pt) # Infinity  BY <1>2, <2>2, NoTwoTorsion
  <2>4. b # 0
    <3> SUFFICES ASSUME b = 0 PROVE FALSE  OBVIOUS
    <3>1. Negate(pt) = pt  BY <2>1, OppositeOf
    <3> QED  BY <1>2, <2>3, <3>1, GroupAddCases
  <2>5. PICK e, f, g \in F :
           /\ GroupAdd(pt, pt) = <<e, f>>
           /\ Same((2 * b) * g, (3 * a) * a + A)
           /\ Same(e, (g * g - a) - a) /\ Same(f, g * (a - e) - b)
    BY <2>1, <2>4, Tangent
  <2>6. OnCurve(e, f)
    <3>1. GroupAdd(pt, pt) \in Points  BY <2>2, GroupLaw
    <3> QED  BY <2>3, <2>5, <3>1, FinitePoints
  <2>7. a \in Int /\ b \in Int /\ e \in Int /\ f \in Int /\ g \in Int /\ ~Same(b, 0)
    <3>1. ~Same(b, 0)  BY <2>4, PrimeFacts, SameResidue
    <3> QED  BY <3>1, PrimeFacts
  <2> DEFINE xx  == (a * z) * (a * z)
             t   == (xx + (xx + xx)) + A * (z * z)
             yz  == (b * z) * z
             u   == yz + yz
             uxy == u * ((a * z) * (b * z))
             v   == uxy + uxy
             w   == t * t - (v + v)
             uy  == u * (b * z)
             uy2 == uy * uy
             l   == u * (u * u)
             e1  == u * w
             e2  == t * (v - w) - (uy2 + uy2)
  <2>8. /\ d = <<d[1], d[2], d[3]>>
        /\ Means(d[1], e1) /\ Means(d[2], e2) /\ Means(d[3], l)
    BY <2>1, DoubleMeans
  <2>9. /\ Same(e1, e * l) /\ Same(e2, f * l) /\ ~Same(l, 0)
        /\ e1 \in Int /\ e2 \in Int /\ l \in Int
    BY <2>1, <2>5, <2>7, ProjectiveTangent
  <2> HIDE DEF e1, e2, l, d
  <2>10. Stands(<<d[1], d[2], d[3]>>, <<e, f>>)
    BY <2>6, <2>8, <2>9, WordForms, StandsFor
  <2> QED  BY <2>5, <2>8, <2>10 DEF d
<1> QED  BY <1>1, <1>2

\* What chord computes from two finite points <<a, b>> and <<c, d>>, as numbers.
LEMMA ChordMeans ==
  ASSUME NEW p, NEW o, NEW a \in F, NEW b \in F, NEW c \in F, NEW d \in F,
         NEW z \in Int, NEW e \in Int,
         Means(p[1], a * z), Means(p[2], b * z), Means(p[3], z),
         Means(o[1], c * e), Means(o[2], d * e), Means(o[3], e)
  PROVE  LET nt == (b * z) * e - (d * e) * z
             nu == (a * z) * e - (c * e) * z
             nv == z * e
             no == (nt * nt) * nv - (nu * nu) * ((a * z) * e + (c * e) * z)
             m  == chord(p, o)
         IN  /\ m = <<m[1], m[2], m[3]>>
             /\ Means(m[1], nu * no)
             /\ Means(m[2], nt * (((a * z) * e) * (nu * nu) - no)
                              - ((b * z) * e) * ((nu * nu) * nu))
             /\ Means(m[3], ((nu * nu) * nu) * nv)
<1> DEFINE ta == pMul(p[2], o[3])
           t  == pSub(ta, pMul(o[2], p[3]))
           u0 == pMul(p[1], o[3])
           u1 == pMul(o[1], p[3])
           u  == pSub(u0, u1)
           u2 == pMul(u, u)
           u3 == pMul(u2, u)
           v  == pMul(p[3], o[3])
           w  == pSub(pMul(pMul(t, t), v), pMul(u2, pAdd(u0, u1)))
           m1 == pMul(u, w)
           m2 == pSub(pMul(t, pSub(pMul(u0, u2), w)), pMul(ta, u3))
           m3 == pMul(u3, v)
           nt0 == (b * z) * e
           nu0 == (a * z) * e
           nu1 == (c * e) * z
           nt == nt0 - (d * e) * z
           nu == nu0 - nu1
           nv == z * e
           no == (nt * nt) * nv - (nu * nu) * (nu0 + nu1)
<1>1. chord(p, o) = <<m1, m2, m3>>  BY DEF chord
<1>2. Means(ta, nt0) /\ Means(u0, nu0) /\ Means(u1, nu1) /\ Means(v, nv)
  BY WordOperations
<1>3. Means(t, nt)
  <2>1. Means(pMul(o[2], p[3]), (d * e) * z)  BY WordOperations
  <2> QED  BY <1>2, <2>1, WordOperations
<1>4. Means(u, nu)  BY <1>2, WordOperations
<1> HIDE DEF t, u, ta, u0, u1, v, nt0, nu0, nu1, nt, nu, nv
<1>5. Means(u2, nu * nu)  BY <1>4, WordOperations
<1> HIDE DEF u2
<1>6. Means(u3, (nu * nu) * nu)  BY <1>4, <1>5, WordOperations
<1> HIDE DEF u3
<1>7. Means(w, no)
  <2>1. Means(pMul(t, t), nt * nt)  BY <1>3, WordOperations
  <2>2. Means(pMul(pMul(t, t), v), (nt * nt) * nv)  BY <1>2, <2>1, WordOperations
  <2>3. Means(pAdd(u0, u1), nu0 + nu1)  BY <1>2, WordOperations
  <2>4. Means(pMul(u2, pAdd(u0, u1)), (nu * nu) * (nu0 + nu1))  BY <1>5, <2>3, WordOperations
  <2> QED  BY <2>2, <2>4, WordOperations
<1> HIDE DEF w, no
<1>8. Means(m1, nu * no)  BY <1>4, <1>7, WordOperations
<1>9. Means(m2, nt * (nu0 * (nu * nu) - no) - nt0 * ((nu * nu) * nu))
  <2>1. Means(pMul(u0, u2), nu0 * (nu * nu))  BY <1>2, <1>5, WordOperations
  <2>2. Means(pSub(pMul(u0, u2), w), nu0 * (nu * nu) - no)  BY <1>7, <2>1, WordOperations
  <2>3. Means(pMul(t, pSub(pMul(u0, u2), w)), nt * (nu0 * (nu * nu) - no))
    BY <1>3, <2>2, WordOperations
  <2>4. Means(pMul(ta, u3), nt0 * ((nu * nu) * nu))  BY <1>2, <1>6, WordOperations
  <2> QED  BY <2>3, <2>4, WordOperations
<1>10. Means(m3, ((nu * nu) * nu) * nv)  BY <1>2, <1>6, WordOperations
<1> HIDE DEF m1, m2, m3
<1> QED  BY <1>1, <1>8, <1>9, <1>10 DEF nt0, nu0, nu1, nt, nu, nv, no

\* Equal words in Montgomery form stand for the same number.
LEMMA EqualWords ==
  ASSUME NEW a, NEW b, NEW e, NEW f, Means(a, e), Means(b, f)
  PROVE  a = b <=> Same(e, f)
<1>1. /\ a \in F /\ b \in F /\ e \in Int /\ f \in Int
      /\ decode(P, a) = e % P /\ decode(P, b) = f % P
  BY DEF Means
<1>2. decode(P, a) = decode(P, b) => a = b  BY <1>1, Orders, DecodeInjective
<1> QED  BY <1>1, <1>2 DEF Same

\* The tests for equal coordinates, crosswise multiplied, decide equality.
LEMMA SameTests ==
  ASSUME NEW p, NEW o, NEW a \in F, NEW b \in F, NEW c \in F, NEW d \in F,
         NEW z \in Int, NEW e \in Int, ~Same(z, 0), ~Same(e, 0),
         Means(p[1], a * z), Means(p[2], b * z), Means(p[3], z),
         Means(o[1], c * e), Means(o[2], d * e), Means(o[3], e)
  PROVE  (sameX(p, o) <=> a = c) /\ (sameY(p, o) <=> b = d)
<1>1. z * e \in Int /\ ~Same(z * e, 0)  BY NotZero
<1>2. ASSUME NEW f \in F, NEW g \in F
      PROVE  Same((f * z) * e, (g * e) * z) <=> f = g
  <2>1. f \in Int /\ g \in Int  BY PrimeFacts
  <2>2. (f * z) * e = f * (z * e) /\ (g * e) * z = g * (z * e)  BY <2>1, SMT
  <2>3. ASSUME Same(f * (z * e), g * (z * e)) PROVE f = g
    <3>1. Same(f, g)  BY <1>1, <2>1, <2>3, SameCancels
    <3> QED  BY <3>1, SameResidue
  <2>4. Same(f * (z * e), f * (z * e))
    <3>1. f * (z * e) \in Int  BY <1>1, <2>1
    <3> QED  BY <3>1, SameLaws
  <2> QED  BY <2>2, <2>3, <2>4
<1>3. /\ Means(pMul(p[1], o[3]), (a * z) * e) /\ Means(pMul(o[1], p[3]), (c * e) * z)
      /\ Means(pMul(p[2], o[3]), (b * z) * e) /\ Means(pMul(o[2], p[3]), (d * e) * z)
  BY WordOperations
<1>4. sameX(p, o) <=> a = c  BY <1>2, <1>3, EqualWords DEF sameX
<1>5. sameY(p, o) <=> b = d  BY <1>2, <1>3, EqualWords DEF sameY
<1> QED  BY <1>4, <1>5

\* The chord formula adds two distinct finite points, opposite ones included.
LEMMA ChordStands ==
  ASSUME NEW p, NEW o, NEW pp, NEW po, Stands(p, pp), Stands(o, po),
         pp # Infinity, po # Infinity, pp # po
  PROVE  Stands(chord(p, o), GroupAdd(pp, po))
<1>1. PICK a, b \in F, z \in Int :
        /\ pp = <<a, b>> /\ OnCurve(a, b) /\ ~Same(z, 0)
        /\ Means(p[1], a * z) /\ Means(p[2], b * z) /\ Means(p[3], z)
  BY WordForms, StandsFinite
<1>2. PICK c, d \in F, e \in Int :
        /\ po = <<c, d>> /\ OnCurve(c, d) /\ ~Same(e, 0)
        /\ Means(o[1], c * e) /\ Means(o[2], d * e) /\ Means(o[3], e)
  BY WordForms, StandsFinite
<1> DEFINE nt == (b * z) * e - (d * e) * z
           nu == (a * z) * e - (c * e) * z
           nv == z * e
           no == (nt * nt) * nv - (nu * nu) * ((a * z) * e + (c * e) * z)
           l  == ((nu * nu) * nu) * nv
           e1 == nu * no
           e2 == nt * (((a * z) * e) * (nu * nu) - no) - ((b * z) * e) * ((nu * nu) * nu)
           m  == chord(p, o)
<1>3. /\ m = <<m[1], m[2], m[3]>>
      /\ Means(m[1], e1) /\ Means(m[2], e2) /\ Means(m[3], l)
  BY <1>1, <1>2, ChordMeans
<1>4. a \in Int /\ b \in Int /\ c \in Int /\ d \in Int /\ a - c \in Int /\ b - d \in Int
  BY PrimeFacts
<1>5. nu = (a - c) * nv /\ nv \in Int /\ nu \in Int  BY <1>4, SMT
<1>6. ~Same(nv, 0)  BY <1>1, <1>2, NotZero
<1>7. e1 \in Int /\ e2 \in Int /\ l \in Int  BY <1>3 DEF Means
<1> HIDE DEF m, e1, e2, l, no, nt, nu, nv
<1>8. CASE a = c
  <2>1. po = Negate(pp)
    <3>1. d = (-b) % P  BY <1>1, <1>2, <1>8, SameAbscissa
    <3> QED  BY <1>1, <1>2, <1>8, <3>1, OppositeOf
  <2>2. GroupAdd(pp, po) = Infinity  BY <2>1, GroupAddCases
  <2>3. Same(l, 0)
    <3>1. nu = 0
      <4>1. a - c = 0  BY <1>4, <1>8
      <4> QED  BY <1>5, <4>1
    <3>2. l = 0
      <4>1. (nu * nu) * nu = 0  BY <3>1
      <4> QED  BY <1>5, <4>1 DEF l
    <3> QED  BY <3>2, SameLaws
  <2>4. m[1] \in F /\ m[2] \in F /\ m[3] \in F  BY <1>3 DEF Means
  <2>5. m[3] = 0  BY <1>3, <1>7, <2>3, <2>4, WordForms, WordMeans
  <2> QED  BY <1>3, <2>2, <2>4, <2>5 DEF Stands, m
<1>9. CASE a # c
  <2>1. PICK f, g, i \in F :
          /\ GroupAdd(pp, po) = <<f, g>>
          /\ Same((c - a) * i, d - b)
          /\ Same(f, (i * i - a) - c) /\ Same(g, i * (a - f) - b)
    BY <1>1, <1>2, <1>9, Chord
  <2>2. pp \in Points /\ po \in Points  BY WordForms, StandsFinite
  <2>3. GroupAdd(pp, po) # Infinity
    <3> SUFFICES ASSUME GroupAdd(pp, po) = Infinity PROVE FALSE  OBVIOUS
    <3>1. po = Negate(pp)  BY <1>1, <2>2, OnlyOpposite
    <3> QED  BY <1>1, <1>2, <1>9, <3>1 DEF Negate
  <2>4. OnCurve(f, g)
    <3>1. GroupAdd(pp, po) \in Points  BY <2>2, GroupLaw
    <3> QED  BY <2>1, <2>3, <3>1, FinitePoints
  <2>5. f \in Int /\ g \in Int /\ i \in Int  BY PrimeFacts
  <2>6. Same(e1, f * l) /\ Same(e2, g * l)
    BY <1>4, <2>1, <2>5, ProjectiveChord DEF e1, e2, l, no, nt, nu, nv
  <2>7. ~Same(l, 0)
    <3>1. nu * nu \in Int /\ (nu * nu) * nu \in Int  BY <1>5
    <3>2. ~Same(nu, 0)
      <4> SUFFICES ASSUME Same(nu, 0) PROVE FALSE  OBVIOUS
      <4>1. Same(a - c, 0)  BY <1>4, <1>5, <1>6, SameZero
      <4>2. a % P = c % P  BY <1>4, <4>1, PrimeFacts, ZeroDifference DEF Same
      <4> QED  BY <1>9, <4>2, PrimeFacts
    <3>3. ~Same((nu * nu) * nu, 0)  BY <1>5, <3>1, <3>2, NotZero
    <3> QED  BY <1>5, <1>6, <3>1, <3>3, NotZero DEF l
  <2>8. Stands(m, <<f, g>>)
    BY <1>3, <1>7, <2>4, <2>6, <2>7, WordForms, StandsFor
  <2> QED  BY <2>1, <2>8 DEF m
<1> QED  BY <1>8, <1>9

\* In both texts projectiveAdd adds, whatever the two points are.
LEMMA AddStands ==
  ASSUME NEW p, NEW o, NEW pp, NEW po, Stands(p, pp), Stands(o, po)
  PROVE  Stands(projectiveAdd(p, o), GroupAdd(pp, po))
<1>1. /\ projectivePointIsInfinity(p) <=> pp = Infinity
      /\ projectivePointIsInfinity(o) <=> po = Infinity
      /\ pp \in Points /\ po \in Points
  BY WordForms, StandsFinite DEF projectivePointIsInfinity
<1>2. Variant = "r1" \/ Variant = "k1"  BY EcdsaAssumption
<1>3. CASE pp = Infinity /\ po = Infinity
  <2>1. projectiveAdd(p, o) = o \/ projectiveAdd(p, o) = ZeroPoint
    BY <1>1, <1>3 DEF projectiveAdd, projectiveAdd_r1, projectiveAdd_k1
  <2>2. GroupAdd(pp, po) = Infinity  BY <1>3, GroupLaw
  <2> QED  BY <1>3, <2>1, <2>2, StartStands
<1>4. CASE pp = Infinity /\ po # Infinity
  <2>1. projectiveAdd(p, o) = o
    BY <1>1, <1>4 DEF projectiveAdd, projectiveAdd_r1, projectiveAdd_k1
  <2> QED  BY <1>4, <2>1, GroupLaw
<1>5. CASE pp # Infinity /\ po = Infinity
  <2>1. projectiveAdd(p, o) = p
    BY <1>1, <1>5 DEF projectiveAdd, projectiveAdd_r1, projectiveAdd_k1
  <2> QED  BY <1>5, <2>1, GroupLaw
<1>6. CASE pp # Infinity /\ po # Infinity
  <2>1. PICK a, b \in F, z \in Int :
          /\ pp = <<a, b>> /\ OnCurve(a, b) /\ ~Same(z, 0)
          /\ Means(p[1], a * z) /\ Means(p[2], b * z) /\ Means(p[3], z)
    BY <1>6, WordForms, StandsFinite
  <2>2. PICK c, d \in F, e \in Int :
          /\ po = <<c, d>> /\ OnCurve(c, d) /\ ~Same(e, 0)
          /\ Means(o[1], c * e) /\ Means(o[2], d * e) /\ Means(o[3], e)
    BY <1>6, WordForms, StandsFinite
  <2>3. (sameX(p, o) <=> a = c) /\ (sameY(p, o) <=> b = d)  BY <2>1, <2>2, SameTests
  <2>4. /\ Variant = "r1" =>
             projectiveAdd(p, o) = IF sameX(p, o) /\ sameY(p, o) THEN projectiveDouble(p)
                                   ELSE chord(p, o)
        /\ Variant = "k1" =>
             projectiveAdd(p, o) = IF sameX(p, o)
                                     THEN IF sameY(p, o) THEN projectiveDouble(p) ELSE ZeroPoint
                                     ELSE chord(o, p)
    <3>1. ~projectivePointIsInfinity(p) /\ ~projectivePointIsInfinity(o)  BY <1>1, <1>6
    <3>2. "r1" # "k1"  OBVIOUS
    <3> QED  BY <3>1, <3>2 DEF projectiveAdd, projectiveAdd_r1, projectiveAdd_k1
  <2>5. CASE a = c /\ b = d
    <3>1. pp = po /\ projectiveAdd(p, o) = projectiveDouble(p)
      BY <1>2, <2>1, <2>2, <2>3, <2>4, <2>5
    <3> QED  BY <3>1, DoubleStands
  <2>6. CASE a # c \/ b # d
    <3>1. pp # po  BY <2>1, <2>2, <2>6
    <3>2. Stands(chord(p, o), GroupAdd(pp, po)) /\ Stands(chord(o, p), GroupAdd(po, pp))
      BY <1>6, <3>1, ChordStands
    <3>3. GroupAdd(po, pp) = GroupAdd(pp, po)  BY <1>1, GroupLaw
    <3>4. a = c => GroupAdd(pp, po) = Infinity
      <4> SUFFICES ASSUME a = c PROVE GroupAdd(pp, po) = Infinity  OBVIOUS
      <4>1. d = (-b) % P  BY <2>1, <2>2, <2>6, SameAbscissa
      <4>2. po = Negate(pp)  BY <2>1, <2>2, <4>1, OppositeOf
      <4> QED  BY <1>6, <4>2, GroupAddCases
    <3>5. \/ projectiveAdd(p, o) = chord(p, o) \/ projectiveAdd(p, o) = chord(o, p)
          \/ a = c /\ projectiveAdd(p, o) = ZeroPoint
      BY <1>2, <2>3, <2>4, <2>6
    <3> QED  BY <3>2, <3>3, <3>4, <3>5, StartStands
  <2> QED  BY <2>5, <2>6
<1> QED  BY <1>3, <1>4, <1>5, <1>6

-----------------------------------------------------------------------------
(***************************************************************************)
(* The bits of the scalars.                                                *)
(***************************************************************************)

(* Powers of two up to n, one after the other.                             *)
ArePowers(n, f) == f = [i \in 0 .. n |-> IF i = 0 THEN 1 ELSE 2 * f[i - 1]]

\* There are such powers.
LEMMA PowersExist == ASSUME NEW n \in Nat PROVE \E f : ArePowers(n, f)
<1> DEFINE S == {m \in Nat : \E f : ArePowers(m, f)}
<1>1. 0 \in S
  <2>1. ArePowers(0, [k \in 0 .. 0 |-> 1])
    <3>1. \A k \in 0 .. 0 : k = 0  OBVIOUS
    <3> QED  BY <3>1, Zenon DEF ArePowers
  <2> QED  BY <2>1
<1>2. ASSUME NEW i \in S PROVE i + 1 \in S
  <2>1. PICK f : ArePowers(i, f)  OBVIOUS
  <2> DEFINE value(k) == IF k = 0 THEN 1 ELSE 2 * f[k - 1]
             g == [k \in 0 .. (i + 1) |-> value(k)]
  <2>2. \A k \in 0 .. i : f[k] = value(k)  BY <2>1 DEF ArePowers
  <2>3. \A k \in 0 .. (i + 1) : k # 0 => g[k - 1] = f[k - 1]
    <3> SUFFICES ASSUME NEW k \in 0 .. (i + 1), k # 0 PROVE g[k - 1] = f[k - 1]
      OBVIOUS
    <3>1. k - 1 \in 0 .. i /\ k - 1 \in 0 .. (i + 1)  OBVIOUS
    <3>2. g[k - 1] = value(k - 1)  BY <3>1
    <3> QED  BY <2>2, <3>1, <3>2
  <2>4. g = [k \in 0 .. (i + 1) |-> IF k = 0 THEN 1 ELSE 2 * g[k - 1]]
    <3> DEFINE other(k) == IF k = 0 THEN 1 ELSE 2 * g[k - 1]
    <3>1. \A k \in 0 .. (i + 1) : value(k) = other(k)  BY <2>3
    <3> HIDE DEF value, other
    <3>2. [k \in 0 .. (i + 1) |-> value(k)] = [k \in 0 .. (i + 1) |-> other(k)]
      BY <3>1
    <3> QED  BY <3>2 DEF other
  <2> HIDE DEF g
  <2>5. ArePowers(i + 1, g)  BY <2>4 DEF ArePowers
  <2> QED  BY <2>5
<1> HIDE DEF S
<1>3. n \in S  BY <1>1, <1>2, SetInduction
<1> QED  BY <1>3 DEF S

\* The powers of two below the word size.
LEMMA Powers ==
  /\ PowerOfTwo[0] = 1
  /\ \A i \in 1 .. Bits : PowerOfTwo[i] = 2 * PowerOfTwo[i - 1]
  /\ \A i \in 0 .. Bits : PowerOfTwo[i] \in Nat /\ PowerOfTwo[i] > 0
<1> DEFINE f == PowerOfTwo
<1>0. Bits \in Nat  BY EcdsaAssumption
<1>1. f = CHOOSE g : ArePowers(Bits, g)  BY DEF PowerOfTwo, ArePowers
<1>2. ArePowers(Bits, f)
  <2>1. \E g : ArePowers(Bits, g)  BY <1>0, PowersExist
  <2> HIDE DEF f
  <2> QED  BY <1>1, <2>1
<1> HIDE DEF f
<1>3. \A i \in 0 .. Bits : f[i] = IF i = 0 THEN 1 ELSE 2 * f[i - 1]
  BY <1>2 DEF ArePowers
<1>4. f[0] = 1  BY <1>0, <1>3
<1>5. ASSUME NEW i \in 1 .. Bits PROVE f[i] = 2 * f[i - 1]
  <2>1. i \in 0 .. Bits /\ i # 0  BY <1>0
  <2> QED  BY <1>3, <2>1
<1> DEFINE S == {i \in Nat : i <= Bits => f[i] \in Nat /\ f[i] > 0}
<1>6. 0 \in S  BY <1>4
<1>7. ASSUME NEW i \in S PROVE i + 1 \in S
  <2>1. CASE i + 1 <= Bits
    <3>1. i + 1 \in 1 .. Bits /\ (i + 1) - 1 = i /\ i <= Bits  BY <1>0, <2>1
    <3>2. f[i + 1] = 2 * f[i] /\ f[i] \in Nat /\ f[i] > 0  BY <1>5, <3>1
    <3> QED  BY <3>2
  <2>2. CASE ~(i + 1 <= Bits)  BY <2>2
  <2> QED  BY <2>1, <2>2
<1> HIDE DEF S
<1>8. Nat \subseteq S  BY <1>6, <1>7, SetInduction
<1>9. \A i \in 0 .. Bits : f[i] \in Nat /\ f[i] > 0
  <2>1. \A i \in 0 .. Bits : i \in Nat /\ i <= Bits  BY <1>0
  <2> QED  BY <1>8, <2>1 DEF S
<1> QED  BY <1>4, <1>5, <1>9 DEF f

\* A shift by one less has one more bit.
LEMMA OneMoreBit ==
  ASSUME NEW i \in Positions, NEW u \in Nat
  PROVE  /\ shr(i, u) \in Nat /\ shr(i + 1, u) \in Nat /\ shr(i, u) % 2 \in 0 .. 1
         /\ shr(i, u) = 2 * shr(i + 1, u) + (shr(i, u) % 2)
<1>0. Bits \in Nat /\ i \in 0 .. Bits /\ i + 1 \in 1 .. Bits /\ (i + 1) - 1 = i
  BY EcdsaAssumption DEF Positions
<1>1. PICK p \in Nat : p = PowerOfTwo[i] /\ p > 0  BY <1>0, Powers
<1>2. PowerOfTwo[i + 1] = 2 * p  BY <1>0, <1>1, Powers
<1> DEFINE n == u \div p
           m == u % p
           b == n % 2
<1>3. n \in Int /\ m \in 0 .. (p - 1) /\ u = p * n + m
  <2>1. u \in Int  OBVIOUS
  <2> QED  BY <1>1, <2>1, DivMod, Zenon
<1>4. n \in Nat  BY <1>1, SMT
<1>5. n \div 2 \in Nat /\ b \in 0 .. 1 /\ n = 2 * (n \div 2) + b
  <2> HIDE DEF n
  <2> QED  BY <1>4
<1>6. PICK half \in Nat : half = n \div 2  BY <1>5
<1>7. PICK d \in Nat : d = 2 * p /\ d > 0  BY <1>1
<1> HIDE DEF n, m, b
<1>8. u = d * half + (p * b + m)
  <2>1. p * n = d * half + p * b
    <3>1. n = 2 * half + b  BY <1>5, <1>6
    <3>2. p * (2 * half + b) = (2 * p) * half + p * b  BY <1>5, SMT
    <3> QED  BY <1>7, <3>1, <3>2
  <2> QED  BY <1>1, <1>3, <1>5, <1>7, <2>1
<1>9. p * b + m \in 0 .. (d - 1)
  <2>1. b = 0 \/ b = 1  BY <1>5
  <2>2. b = 0 => p * b = 0  BY <1>1
  <2>3. b = 1 => p * b = p  BY <1>1
  <2> QED  BY <1>1, <1>3, <1>7, <2>1, <2>2, <2>3
<1>10. u \div d = half
  <2>1. (d * half + (p * b + m)) \div d = half  BY <1>7, <1>9, DivModUnique
  <2> QED  BY <1>8, <2>1
<1>11. shr(i, u) = n /\ shr(i + 1, u) = half  BY <1>1, <1>2, <1>7, <1>10 DEF shr, n
<1> QED  BY <1>4, <1>5, <1>6, <1>11 DEF b

\* No shift leaves the number, and a shift by the word's width leaves nothing.
LEMMA WholeShifts ==
  ASSUME NEW u \in Word
  PROVE  u \in Nat /\ shr(0, u) = u /\ shr(Bits, u) = 0
<1>1. u \in Nat /\ u < R /\ R \in Nat /\ R > 0  BY WordAssumption DEF Word
<1>2. shr(0, u) = u
  <2>1. u \div 1 = u  BY <1>1
  <2> QED  BY <2>1, Powers DEF shr
<1>3. u \div R = 0
  <2>1. u = R * 0 + u /\ u \in 0 .. (R - 1)  BY <1>1
  <2>2. (R * 0 + u) \div R = 0  BY <1>1, <2>1, DivModUnique
  <2> QED  BY <2>1, <2>2
<1> QED  BY <1>1, <1>2, <1>3, EcdsaAssumption DEF shr

\* The search for the top bit pair ends at the place above which both scalars
\* have no bits.
LEMMA TopBits ==
  ASSUME NEW u0 \in Word, NEW u1 \in Word, u0 # 0 \/ u1 # 0
  PROVE  LET i == findMostSignificantBitIndex(u0, u1)
         IN  /\ i \in Positions /\ compareBits(i, u0, u1) # 0
             /\ shr(i + 1, u0) = 0 /\ shr(i + 1, u1) = 0
<1> DEFINE gone(k) == shr(k, u0) = 0 /\ shr(k, u1) = 0
           T == {j \in 0 .. Bits : \A k \in j .. Bits : gone(k)}
<1>0. Bits \in Nat /\ u0 \in Nat /\ u1 \in Nat /\ Positions = 0 .. (Bits - 1)
  BY EcdsaAssumption, WholeShifts DEF Positions
<1>1. gone(Bits) /\ ~gone(0)  BY WholeShifts
<1>2. Bits \in T /\ T \subseteq Nat
  <2>1. \A k \in Bits .. Bits : k = Bits  BY <1>0
  <2> QED  BY <1>0, <1>1, <2>1
<1>3. PICK m \in T : \A j \in T : m <= j
  <2> HIDE DEF T
  <2> QED  BY <1>2, Least
<1>4. m \in 0 .. Bits /\ \A k \in m .. Bits : gone(k)
  OBVIOUS
<1>5. m # 0  BY <1>0, <1>1, <1>4
<1>6. PICK top \in Positions : m = top + 1
  <2>1. m - 1 \in Positions /\ m = (m - 1) + 1  BY <1>0, <1>4, <1>5
  <2> QED  BY <2>1
<1>7. ~gone(top)
  <2> SUFFICES ASSUME gone(top) PROVE FALSE  OBVIOUS
  <2>1. top \in 0 .. Bits /\ ~(m <= top)  BY <1>0, <1>6
  <2>2. \A k \in top .. Bits : k = top \/ k \in m .. Bits  BY <1>0, <1>6
  <2> HIDE DEF gone
  <2>3. top \in T  BY <1>4, <2>1, <2>2
  <2> QED  BY <1>3, <2>1, <2>3
<1>8. gone(top + 1)  BY <1>0, <1>4, <1>6
<1>9. compareBits(top, u0, u1) # 0
  <2>1. shr(top, u0) = shr(top, u0) % 2 /\ shr(top, u1) = shr(top, u1) % 2
        /\ shr(top, u0) % 2 \in 0 .. 1 /\ shr(top, u1) % 2 \in 0 .. 1
    <3>1. /\ shr(top, u0) = 2 * 0 + (shr(top, u0) % 2) /\ shr(top, u0) % 2 \in 0 .. 1
          /\ shr(top, u1) = 2 * 0 + (shr(top, u1) % 2) /\ shr(top, u1) % 2 \in 0 .. 1
      BY <1>0, <1>8, OneMoreBit
    <3> QED  BY <3>1
  <2> QED  BY <1>7, <2>1 DEF compareBits
<1>10. \A j \in Positions : j > top => compareBits(j, u0, u1) = 0
  <2> TAKE j \in Positions
  <2>1. j > top => gone(j)  BY <1>0, <1>4, <1>6
  <2>2. 0 % 2 = 0 /\ 2 * 0 + 0 = 0  OBVIOUS
  <2> QED  BY <2>1, <2>2 DEF compareBits
<1> DEFINE found(i) == /\ compareBits(i, u0, u1) # 0
                       /\ \A j \in Positions : j > i => compareBits(j, u0, u1) = 0
           i == findMostSignificantBitIndex(u0, u1)
<1>11. i \in Positions /\ found(i)
  <2>1. \E j \in Positions : found(j)  BY <1>9, <1>10
  <2> QED  BY <2>1 DEF findMostSignificantBitIndex
<1>12. i = top
  <2> HIDE DEF i
  <2>1. ~(i > top) /\ ~(top > i)  BY <1>9, <1>10, <1>11
  <2>2. i \in Int /\ top \in Int  BY <1>0, <1>11
  <2> QED  BY <2>1, <2>2
<1> HIDE DEF i
<1> QED  BY <1>6, <1>8, <1>9, <1>12 DEF i

-----------------------------------------------------------------------------
(***************************************************************************)
(* The combination of the scalars, bit by bit.                             *)
(***************************************************************************)

(* The point that a pair of bits adds.                                     *)
bitsPoint(bits) == IF bits = 0 THEN Infinity ELSE <<key, G, GroupAdd(G, key)>>[bits]

\* A multiple by one more bit.
LEMMA MulBit ==
  ASSUME NEW p \in Points, NEW v \in Nat, NEW b \in 0 .. 1
  PROVE  /\ GroupMul(v, p) \in Points
         /\ GroupMul(2 * v + b, p) = GroupAdd(GroupAdd(GroupMul(v, p), GroupMul(v, p)),
                                              IF b = 1 THEN p ELSE Infinity)
<1>1. GroupMul(v, p) \in Points /\ GroupMul(2 * v, p) = GroupAdd(GroupMul(v, p), GroupMul(v, p))
  BY MulDouble, MulTwice
<1>2. CASE b = 0
  <2>1. 2 * v + b = 2 * v  BY <1>2
  <2> QED  BY <1>1, <1>2, <2>1, GroupLaw
<1>3. CASE b = 1
  <2>1. 2 * v \in Nat /\ 2 * v + b = 2 * v + 1  BY <1>3
  <2> QED  BY <1>1, <1>3, <2>1, MulSuccessor
<1> QED  BY <1>1, <1>2, <1>3

\* The combination by one more pair of bits: doubled, and the point added that
\* the pair selects.
LEMMA CombinationBit ==
  ASSUME key \in Points, NEW v0 \in Nat, NEW v1 \in Nat, NEW b0 \in 0 .. 1, NEW b1 \in 0 .. 1
  PROVE  /\ Combination(v0, v1) \in Points
         /\ Combination(2 * v0 + b0, 2 * v1 + b1)
              = GroupAdd(GroupAdd(Combination(v0, v1), Combination(v0, v1)),
                         bitsPoint(2 * b0 + b1))
<1>0. G \in Points  BY EcdsaAssumption
<1> DEFINE m == GroupMul(v0, G)
           n == GroupMul(v1, key)
           e == IF b0 = 1 THEN G ELSE Infinity
           f == IF b1 = 1 THEN key ELSE Infinity
<1>1. /\ m \in Points /\ GroupMul(2 * v0 + b0, G) = GroupAdd(GroupAdd(m, m), e)
      /\ n \in Points /\ GroupMul(2 * v1 + b1, key) = GroupAdd(GroupAdd(n, n), f)
  BY <1>0, MulBit
<1>2. e \in Points /\ f \in Points  BY <1>0, GroupLaw
<1>3. GroupAdd(e, f) = bitsPoint(2 * b0 + b1)
  <2>1. CASE b0 = 0 /\ b1 = 0
    <3>1. 2 * b0 + b1 = 0  BY <2>1
    <3> QED  BY <2>1, <3>1, GroupLaw DEF bitsPoint
  <2>2. CASE b0 = 0 /\ b1 = 1
    <3>1. 2 * b0 + b1 = 1  BY <2>2
    <3> QED  BY <2>2, <3>1, GroupLaw DEF bitsPoint
  <2>3. CASE b0 = 1 /\ b1 = 0
    <3>1. 2 * b0 + b1 = 2  BY <2>3
    <3> QED  BY <2>3, <3>1, GroupLaw DEF bitsPoint
  <2>4. CASE b0 = 1 /\ b1 = 1
    <3>1. 2 * b0 + b1 = 3  BY <2>4
    <3> QED  BY <2>4, <3>1 DEF bitsPoint
  <2> QED  BY <2>1, <2>2, <2>3, <2>4
<1>4. /\ Combination(v0, v1) = GroupAdd(m, n)
      /\ Combination(2 * v0 + b0, 2 * v1 + b1)
           = GroupAdd(GroupAdd(GroupAdd(m, m), e), GroupAdd(GroupAdd(n, n), f))
  BY <1>1 DEF Combination
<1> HIDE DEF m, n, e, f
<1>5. /\ GroupAdd(m, m) \in Points /\ GroupAdd(n, n) \in Points /\ GroupAdd(m, n) \in Points
  BY <1>1, GroupLaw
<1>6. GroupAdd(GroupAdd(GroupAdd(m, m), e), GroupAdd(GroupAdd(n, n), f))
        = GroupAdd(GroupAdd(GroupAdd(m, m), GroupAdd(n, n)), GroupAdd(e, f))
  BY <1>2, <1>5, Rearrange
<1>7. GroupAdd(GroupAdd(m, m), GroupAdd(n, n)) = GroupAdd(GroupAdd(m, n), GroupAdd(m, n))
  BY <1>1, Rearrange
<1> QED  BY <1>3, <1>4, <1>5, <1>6, <1>7

\* The combination of the scalars without their last i bits, from that without
\* one more.
LEMMA CombinationShift ==
  ASSUME key \in Points, NEW u0 \in Nat, NEW u1 \in Nat, NEW i \in Positions
  PROVE  /\ compareBits(i, u0, u1) \in 0 .. 3
         /\ Combination(shr(i + 1, u0), shr(i + 1, u1)) \in Points
         /\ Combination(shr(i, u0), shr(i, u1))
              = GroupAdd(GroupAdd(Combination(shr(i + 1, u0), shr(i + 1, u1)),
                                  Combination(shr(i + 1, u0), shr(i + 1, u1))),
                         bitsPoint(compareBits(i, u0, u1)))
<1> DEFINE b0 == shr(i, u0) % 2
           b1 == shr(i, u1) % 2
           v0 == shr(i + 1, u0)
           v1 == shr(i + 1, u1)
<1>1. /\ v0 \in Nat /\ b0 \in 0 .. 1 /\ shr(i, u0) = 2 * v0 + b0
      /\ v1 \in Nat /\ b1 \in 0 .. 1 /\ shr(i, u1) = 2 * v1 + b1
  BY OneMoreBit
<1>2. compareBits(i, u0, u1) = 2 * b0 + b1  BY DEF compareBits
<1> HIDE DEF b0, b1, v0, v1
<1>3. 2 * b0 + b1 \in 0 .. 3  BY <1>1
<1>4. /\ Combination(v0, v1) \in Points
      /\ Combination(2 * v0 + b0, 2 * v1 + b1)
           = GroupAdd(GroupAdd(Combination(v0, v1), Combination(v0, v1)), bitsPoint(2 * b0 + b1))
  BY <1>1, CombinationBit
<1>5. Combination(shr(i, u0), shr(i, u1))
        = GroupAdd(GroupAdd(Combination(v0, v1), Combination(v0, v1)),
                   bitsPoint(compareBits(i, u0, u1)))
  BY <1>1, <1>2, <1>4
<1>6. compareBits(i, u0, u1) \in 0 .. 3  BY <1>2, <1>3
<1> QED  BY <1>4, <1>5, <1>6 DEF v0, v1

\* What a pair of bits selects stands for the point that the pair adds.
LEMMA SelectedStands ==
  ASSUME key \in Points \ {Infinity}
  PROVE  /\ Stands(projectiveAdd(PG, Q), GroupAdd(G, key))
         /\ \A w : Stands(w, GroupAdd(G, key)) =>
              \A bits \in 1 .. 3 : Stands(selected(bits, w), bitsPoint(bits))
<1>1. \A p \in Points \ {Infinity} : Stands(projectiveFromAffine(p), p)
  <2> TAKE p \in Points \ {Infinity}
  <2>1. p \in F \X F  BY DEF Points
  <2>2. PICK a, b \in F : p = <<a, b>>  BY <2>1
  <2>3. OnCurve(a, b)  BY <2>2, FinitePoints
  <2> QED  BY <2>2, <2>3, StartStands
<1>2. Stands(Q, key) /\ Stands(PG, G)  BY <1>1, EcdsaAssumption DEF Q, PG
<1>3. Stands(projectiveAdd(PG, Q), GroupAdd(G, key))  BY <1>2, AddStands
<1>4. ASSUME NEW w, Stands(w, GroupAdd(G, key)), NEW bits \in 1 .. 3
      PROVE  Stands(selected(bits, w), bitsPoint(bits))
  <2>1. CASE bits = 1
    <3>1. selected(1, w) = Q /\ bitsPoint(1) = key  BY DEF selected, bitsPoint
    <3> QED  BY <1>2, <2>1, <3>1
  <2>2. CASE bits = 2
    <3>1. selected(2, w) = PG /\ bitsPoint(2) = G  BY DEF selected, bitsPoint
    <3> QED  BY <1>2, <2>2, <3>1
  <2>3. CASE bits = 3
    <3>1. selected(3, w) = w /\ bitsPoint(3) = GroupAdd(G, key)  BY DEF selected, bitsPoint
    <3> QED  BY <1>4, <2>3, <3>1
  <2> QED  BY <2>1, <2>2, <2>3
<1> QED  BY <1>3, <1>4

\* The scalars of the request are those that ECDSA prescribes.
LEMMA ScalarsOfEcdsa ==
  ASSUME hash \in Word, r \in Word, s \in 1 .. (N - 1), ScalarsAreQuotients
  PROVE  LET w == CHOOSE z \in 1 .. (N - 1) : (s * z) % N = 1
         IN  Combination(hash * w, r * w) = Combination(t0, t1)
<1> DEFINE w == CHOOSE z \in 1 .. (N - 1) : (s * z) % N = 1
<1>0. /\ N \in Nat /\ N > 2 /\ N > 0 /\ s \in Int /\ hash \in Int /\ r \in Int /\ IsPrime(N)
      /\ t0 \in 0 .. (N - 1) /\ t1 \in 0 .. (N - 1) /\ t0 \in Int /\ t1 \in Int
  <2>1. N \in Nat /\ N > 2 /\ ScalarField = 0 .. (N - 1) /\ IsPrime(N)
    BY Orders, OrderFacts
  <2> QED  BY <2>1, WordAssumption DEF Word, ScalarsAreQuotients
<1>1. \E z \in 1 .. (N - 1) : (s * z) % N = 1
  <2>1. s % N # 0
    <3>1. s \in 0 .. (N - 1) /\ s # 0  BY <1>0
    <3> QED  BY <1>0, <3>1, SmallRemainder
  <2>2. PICK z \in 0 .. (N - 1) : TimesMod(N, s, z) = 1  BY <1>0, <2>1, InverseExists
  <2>3. z # 0
    <3> SUFFICES ASSUME z = 0 PROVE FALSE  OBVIOUS
    <3>1. s * z = 0  BY <1>0
    <3>2. 0 % N = 0  BY <1>0
    <3> QED  BY <2>2, <3>1, <3>2 DEF TimesMod
  <2>4. z \in 1 .. (N - 1)  BY <1>0, <2>3
  <2> QED  BY <2>2, <2>4 DEF TimesMod
<1>2. w \in 1 .. (N - 1) /\ TimesMod(N, s, w) = 1  BY <1>1 DEF TimesMod
<1> HIDE DEF w
<1>3. w \in Int /\ TimesMod(N, s, w) = 1 % N  BY <1>0, <1>2
<1>4. ASSUME NEW a \in Int, NEW t \in Int, TimesMod(N, t, s) = a % N
      PROVE  (a * w) % N = t % N
  <2>1. TimesMod(N, TimesMod(N, t, s), w) = t % N  BY <1>0, <1>3, <1>4, Undo
  <2>2. TimesMod(N, a % N, w) = TimesMod(N, a, w)  BY <1>0, <1>3, EarlyRemainder
  <2> QED  BY <1>4, <2>1, <2>2 DEF TimesMod
<1>5. TimesMod(N, t0, s) = hash % N /\ TimesMod(N, t1, s) = r % N
  <2>1. TimesMod(N, t0, s) = hash % N /\ TimesMod(N, t1, s) = r  BY DEF ScalarsAreQuotients
  <2>2. t1 * s \in Int  BY <1>0
  <2>3. (t1 * s) % N \in 0 .. (N - 1)  BY <1>0, <2>2, Remainder
  <2>4. r % N = r  BY <1>0, <2>1, <2>3, SmallRemainder DEF TimesMod
  <2> QED  BY <2>1, <2>4
<1>6. (hash * w) % N = t0 % N /\ (r * w) % N = t1 % N  BY <1>0, <1>4, <1>5
<1> QED  BY <1>6, MulRemainder DEF Combination, w

-----------------------------------------------------------------------------
(***************************************************************************)
(* Shamir's loop, and the verdict.                                         *)
(***************************************************************************)

(* In the loop the words h and acc stand for G + key and for the combination *)
(* of the scalars without their last index bits.                           *)
ShamirInv ==
  pc = "shamir" =>
    /\ index \in Positions
    /\ Stands(h, GroupAdd(G, key))
    /\ Stands(acc, Combination(shr(index, t0), shr(index, t1)))

(* What the verdict is compared with.                                      *)
VerdictInv ==
  /\ pc # "done" => result = <<>>
  /\ AcceptsExactlyValid
  /\ DivergesOnlyAtInfinity

VerifierInv == ShamirInv /\ VerdictInv

\* Before the first step.
LEMMA VerifierInit == Init => VerifierInv
BY Results DEF Init, VerifierInv, ShamirInv, VerdictInv, AcceptsExactlyValid, DivergesOnlyAtInfinity

\* What is asked of a verdict depends on the request and the scalars.
LEMMA RequestFrame ==
  ASSUME UNCHANGED <<hash, r, s, key>>
  PROVE  /\ requestValid' <=> requestValid
         /\ EcdsaAccepts' <=> EcdsaAccepts
         /\ UNCHANGED <<t0, t1>> => Combination(t0, t1)' = Combination(t0, t1)
BY DEF requestValid, EcdsaAccepts, Combination

\* The search for the top bit pair ends, and loads the combination of the top bits.
LEMMA StartsLoop ==
  ASSUME CallInv, StartShamir
  PROVE  ShamirInv' /\ pc' # "done" /\ UNCHANGED result
<1>1. /\ pc = "combine" /\ requestValid /\ t1 # 0 /\ t0 \in Word /\ t1 \in Word
      /\ key \in Points \ {Infinity} /\ key \in Points
  BY Orders DEF CallInv, PastTheChecks, ScalarsAreQuotients, StartShamir, loadTopBits, requestValid
<1> DEFINE i == findMostSignificantBitIndex(t0, t1)
           bits == compareBits(i, t0, t1)
           sum == projectiveAdd(PG, Q)
<1>2. /\ h' = sum /\ index' = i /\ acc' = selected(bits, sum) /\ pc' = "shamir"
      /\ UNCHANGED <<hash, r, s, key, t0, t1, result>>
  BY <1>1 DEF StartShamir, loadTopBits
<1>3. /\ i \in Positions /\ bits # 0
      /\ shr(i + 1, t0) = 0 /\ shr(i + 1, t1) = 0
  BY <1>1, TopBits
<1>4. t0 \in Nat /\ t1 \in Nat  BY <1>1, WholeShifts
<1> HIDE DEF i
<1>5. /\ bits \in 0 .. 3
      /\ Combination(shr(i, t0), shr(i, t1))
           = GroupAdd(GroupAdd(Combination(0, 0), Combination(0, 0)), bitsPoint(bits))
  BY <1>1, <1>3, <1>4, CombinationShift
<1> HIDE DEF bits, sum
<1>6. Combination(0, 0) = Infinity
  BY <1>1, EcdsaAssumption, MulSuccessor, GroupLaw DEF Combination
<1>7. Combination(shr(i, t0), shr(i, t1)) = bitsPoint(bits)
  BY <1>5, <1>6, GroupLaw
<1>8. Stands(sum, GroupAdd(G, key)) /\ Stands(selected(bits, sum), bitsPoint(bits))
  <2>1. bits \in 1 .. 3  BY <1>3, <1>5
  <2> QED  BY <1>1, <2>1, SelectedStands DEF sum
<1>9. ShamirInv'
  <2>1. /\ index' \in Positions /\ Stands(h', GroupAdd(G, key'))
        /\ Stands(acc', Combination(shr(index', t0), shr(index', t1)))
    BY <1>2, <1>3, <1>7, <1>8
  <2>2. Combination(shr(index, t0), shr(index, t1))' = Combination(shr(index', t0), shr(index', t1))
    BY <1>2 DEF Combination
  <2> QED  BY <2>1, <2>2 DEF ShamirInv
<1> QED  BY <1>2, <1>9

\* A pass doubles the combination and adds the point of the next pair of bits.
LEMMA PassesLoop ==
  ASSUME CallInv, ShamirInv, ShamirPass
  PROVE  ShamirInv' /\ pc' # "done" /\ UNCHANGED result
<1> DEFINE i == index - 1
           bits == compareBits(i, t0, t1)
           doubled == projectiveDouble(acc)
           c == Combination(shr(index, t0), shr(index, t1))
<1>1. /\ pc = "shamir" /\ index > 0 /\ index \in Positions
      /\ Stands(h, GroupAdd(G, key)) /\ Stands(acc, c)
      /\ index' = i /\ pc' = pc
      /\ acc' = IF bits = 0 THEN doubled ELSE projectiveAdd(doubled, selected(bits, h))
      /\ UNCHANGED <<hash, r, s, key, t0, t1, h, result>>
  BY DEF ShamirPass, ShamirInv
<1>2. /\ requestValid /\ t0 \in Word /\ t1 \in Word
      /\ key \in Points \ {Infinity} /\ key \in Points
  BY <1>1, Orders DEF CallInv, PastTheChecks, ScalarsAreQuotients, requestValid
<1>3. t0 \in Nat /\ t1 \in Nat  BY <1>2, WholeShifts
<1>4. i \in Positions /\ i + 1 = index  BY <1>1, EcdsaAssumption DEF Positions
<1> HIDE DEF i
<1>5. /\ bits \in 0 .. 3 /\ c \in Points
      /\ Combination(shr(i, t0), shr(i, t1)) = GroupAdd(GroupAdd(c, c), bitsPoint(bits))
  <2>1. /\ bits \in 0 .. 3
        /\ Combination(shr(i + 1, t0), shr(i + 1, t1)) \in Points
        /\ Combination(shr(i, t0), shr(i, t1))
             = GroupAdd(GroupAdd(Combination(shr(i + 1, t0), shr(i + 1, t1)),
                                 Combination(shr(i + 1, t0), shr(i + 1, t1))), bitsPoint(bits))
    BY <1>2, <1>3, <1>4, CombinationShift
  <2> QED  BY <1>4, <2>1
<1> HIDE DEF c
<1>6. Stands(doubled, GroupAdd(c, c))  BY <1>1, DoubleStands
<1> HIDE DEF bits, doubled
<1>7. Stands(acc', GroupAdd(GroupAdd(c, c), bitsPoint(bits)))
  <2>1. CASE bits = 0
    <3>1. bitsPoint(bits) = Infinity  BY <2>1 DEF bitsPoint
    <3> QED  BY <1>1, <1>6, <2>1, <3>1, GroupLaw
  <2>2. CASE bits # 0
    <3>1. bits \in 1 .. 3  BY <1>5, <2>2
    <3>2. Stands(selected(bits, h), bitsPoint(bits))  BY <1>1, <1>2, <3>1, SelectedStands
    <3> QED  BY <1>1, <1>6, <2>2, <3>2, AddStands
  <2> QED  BY <2>1, <2>2
<1>8. ShamirInv'
  <2>1. /\ index' \in Positions /\ Stands(h', GroupAdd(G, key'))
        /\ Stands(acc', Combination(shr(index', t0), shr(index', t1)))
    BY <1>1, <1>4, <1>5, <1>7
  <2>2. Combination(shr(index, t0), shr(index, t1))' = Combination(shr(index', t0), shr(index', t1))
    BY <1>1 DEF Combination
  <2> QED  BY <2>1, <2>2 DEF ShamirInv
<1> QED  BY <1>1, <1>8

\* The verdict: the x-coordinate of the combination that ECDSA prescribes.
LEMMA Compares ==
  ASSUME CallInv, ShamirInv, Compare
  PROVE  VerdictInv'
<1>1. /\ pc = "shamir" /\ index = 0 /\ pc' = "done"
      /\ UNCHANGED <<hash, r, s, key, t0, t1>>
      /\ result' = IF acc[3] # 0 THEN compareX
                   ELSE IF Variant = "r1" THEN Returned(0) ELSE Diverged
  BY DEF Compare, finish
<1>2. /\ requestValid /\ s \in 1 .. (N - 1) /\ ScalarsAreQuotients /\ hash \in Word /\ r \in Word
      /\ t0 \in Word /\ t1 \in Word
  BY <1>1, Orders DEF CallInv, CallTyped, PastTheChecks, ScalarsAreQuotients, requestValid
<1> DEFINE c == Combination(t0, t1)
<1>3. Stands(acc, c)
  <2>1. shr(0, t0) = t0 /\ shr(0, t1) = t1  BY <1>2, WholeShifts
  <2> QED  BY <1>1, <2>1 DEF ShamirInv
<1>4. EcdsaAccepts <=> c # Infinity /\ c[1] % N = r
  <2> DEFINE w == CHOOSE z \in 1 .. (N - 1) : (s * z) % N = 1
  <2>1. Combination(hash * w, r * w) = c  BY <1>2, ScalarsOfEcdsa
  <2>2. EcdsaAccepts <=> /\ Combination(hash * w, r * w) # Infinity
                         /\ Combination(hash * w, r * w)[1] % N = r
    BY DEF EcdsaAccepts
  <2> HIDE DEF w, c
  <2> QED  BY <2>1, <2>2
<1> HIDE DEF c
<1>5. (acc[3] = 0 <=> c = Infinity) /\ Affine(acc) = c
  BY <1>3, WordForms, StandsFinite, AffineReads
<1>6. acc[3] # 0 => outOfP[pMul(acc[1], pInv[acc[3]])] = c[1]  BY <1>5 DEF Affine
<1>7. /\ result' = Returned(1) <=> EcdsaAccepts
      /\ result' = Diverged => c = Infinity /\ ~EcdsaAccepts
  <2>1. CASE acc[3] # 0
    <3>1. result' = Returned(IF c[1] % N = r THEN 1 ELSE 0)  BY <1>1, <1>6, <2>1 DEF compareX
    <3>2. c # Infinity  BY <1>5, <2>1
    <3> QED  BY <1>4, <3>1, <3>2, Results
  <2>2. CASE acc[3] = 0
    <3>1. result' \in {Returned(0), Diverged} /\ c = Infinity  BY <1>1, <1>5, <2>2
    <3> QED  BY <1>4, <3>1, Results
  <2> QED  BY <2>1, <2>2
<1>8. /\ requestValid' <=> requestValid
      /\ EcdsaAccepts' <=> EcdsaAccepts
      /\ Combination(t0, t1)' = Combination(t0, t1)
  BY <1>1, RequestFrame
<1> QED  BY <1>1, <1>2, <1>7, <1>8 DEF VerdictInv, AcceptsExactlyValid, DivergesOnlyAtInfinity, c

\* Each step keeps the invariant.
LEMMA VerifierStep == CallInv /\ VerifierInv /\ [Next]_vars => VerifierInv'
<1> SUFFICES ASSUME CallInv, VerifierInv, [Next]_vars PROVE VerifierInv'
  OBVIOUS
<1> USE DEF VerifierInv
<1>a. ASSUME pc # "done", pc' # "done", UNCHANGED result PROVE VerdictInv'
  BY <1>a, Results DEF VerdictInv, AcceptsExactlyValid, DivergesOnlyAtInfinity
<1>b. ASSUME ~requestValid, finish(Burned) PROVE VerifierInv'
  <2>1. pc' = "done" /\ result' = Burned /\ UNCHANGED <<hash, r, s, key>>
    BY <1>b DEF finish
  <2>2. ~requestValid'  BY <1>b, <2>1, RequestFrame
  <2> QED  BY <2>1, <2>2, Results DEF ShamirInv, VerdictInv, AcceptsExactlyValid, DivergesOnlyAtInfinity
<1>c. /\ requestValid <=> /\ signatureInRange /\ keyInField
                          /\ affinePointIsOnCurve(intoP[key[1]], intoP[key[2]])
  BY RequestCheck DEF CallInv, CallTyped
<1>1. CASE RejectSignature  BY <1>b, <1>c, <1>1 DEF RejectSignature
<1>2. CASE RejectKey  BY <1>b, <1>c, <1>2 DEF RejectKey
<1>3. CASE ComputeScalars
  <2>1. pc = "entry" /\ pc' = "combine" /\ UNCHANGED result  BY <1>3 DEF ComputeScalars
  <2> QED  BY <1>a, <2>1 DEF ShamirInv
<1>4. CASE StartShamir
  <2>1. pc = "combine"  BY <1>4 DEF StartShamir, loadTopBits
  <2> QED  BY <1>a, <1>4, <2>1, StartsLoop
<1>5. CASE ShamirPass
  <2>1. pc = "shamir"  BY <1>5 DEF ShamirPass
  <2> QED  BY <1>a, <1>5, <2>1, PassesLoop
<1>6. CASE Compare
  <2>1. pc' = "done"  BY <1>6 DEF Compare, finish
  <2> QED  BY <1>6, <2>1, Compares DEF ShamirInv
<1>7. CASE UNCHANGED vars
  <2>1. UNCHANGED <<hash, r, s, key, t0, t1, h, acc, index, pc, result>>  BY <1>7 DEF vars
  <2>2. ShamirInv'  BY <2>1 DEF ShamirInv, Combination
  <2>3. /\ requestValid' <=> requestValid
        /\ EcdsaAccepts' <=> EcdsaAccepts
        /\ Combination(t0, t1)' = Combination(t0, t1)
    BY <2>1, RequestFrame
  <2>4. VerdictInv'
    BY <2>1, <2>3 DEF VerdictInv, AcceptsExactlyValid, DivergesOnlyAtInfinity
  <2> QED  BY <2>2, <2>4
<1> QED  BY <1>1, <1>2, <1>3, <1>4, <1>5, <1>6, <1>7 DEF Next, Terminated

\* What the proof of the verifiers rests on: in every pass of Shamir's loop the
\* words are those of the points that the trick prescribes.
THEOREM VerifierInvariant == Spec => []VerifierInv
<1>1. CallInv /\ CallInv' /\ VerifierInv /\ [Next]_vars => VerifierInv'  BY VerifierStep
<1> QED  BY <1>1, VerifierInit, CallInvariant, PTL DEF Spec

\* Shamir's trick: after the passes for the bits above index the accumulator is
\* the combination of the scalars without their last index bits, also where it
\* passes through infinity, G, the key, their sum or their opposites.
THEOREM LoopTracksCombination == Spec => []AccumulatorTracksCombination
<1>1. VerifierInv => AccumulatorTracksCombination
  BY AffineReads DEF VerifierInv, ShamirInv, AccumulatorTracksCombination
<1> QED  BY <1>1, VerifierInvariant, PTL

\* In both texts 1 is returned exactly for a well-formed request that ECDSA on
\* plain integers accepts, whatever the hash, and x-coordinates from N to P
\* included.
THEOREM ValidAreAccepted == Spec => []AcceptsExactlyValid
<1>1. VerifierInv => AcceptsExactlyValid  BY DEF VerifierInv, VerdictInv
<1> QED  BY <1>1, VerifierInvariant, PTL

\* The one request that secp256k1VERIFY leaves unanswered is the one whose
\* combination is the point at infinity, which does not verify.
THEOREM OnlyInfinityDiverges == Spec => []DivergesOnlyAtInfinity
<1>1. VerifierInv => DivergesOnlyAtInfinity  BY DEF VerifierInv, VerdictInv
<1> QED  BY <1>1, VerifierInvariant, PTL
=============================================================================
