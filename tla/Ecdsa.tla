-------------------------------- MODULE Ecdsa -------------------------------
(***************************************************************************)
(* The signature precompiles P256VERIFY (Variant "r1") and secp256k1VERIFY *)
(* (Variant "k1"): one call on the calldata words hash, r, s, x, y.  The   *)
(* checks and the scalar arithmetic modulo N are actions, and so is each   *)
(* pass of the Shamir loop that computes t0*G + t1*(x, y).  The two texts  *)
(* differ in REDC, in projectiveAdd and in what happens when the           *)
(* combination is the point at infinity.                                   *)
(***************************************************************************)
EXTENDS Montgomery, WeierstrassGroup

CONSTANTS
  Bits,                           \* word width: R is two to its power
  P_PRIME, R2_MOD_P,              \* precomputed for the field order P
  N_PRIME, R2_MOD_N,              \* precomputed for the group order N
  G,                              \* the generator, in affine coordinates
  Hashes, Signatures, Keys        \* the calldata considered

PowerOfTwo[i \in 0 .. Bits] == IF i = 0 THEN 1 ELSE 2 * PowerOfTwo[i - 1]

ASSUME EcdsaAssumption ==
  /\ Variant \in {"r1", "k1"} /\ (Variant = "k1" => A = 0)
  /\ Bits \in Nat /\ R = PowerOfTwo[Bits] /\ P < R /\ N < R
  /\ P_PRIME \in Word /\ (P * P_PRIME) % R = R - 1 /\ R2_MOD_P = (R * R) % P
  /\ N_PRIME \in Word /\ (N * N_PRIME) % R = R - 1 /\ R2_MOD_N = (R * R) % N
  /\ G \in Points \ {Infinity}
  /\ Hashes \subseteq Word /\ Signatures \subseteq Word
  /\ Keys \subseteq Word \X Word

VARIABLES hash, r, s, key, t0, t1, h, acc, index, pc, result

vars == <<hash, r, s, key, t0, t1, h, acc, index, pc, result>>

Burned == <<"burned">>        \* burnGas()
Diverged == <<"diverged">>    \* a loop that runs until the gas is spent
Returned(b) == <<"returned", b>>

-----------------------------------------------------------------------------
(***************************************************************************)
(* The operations modulo P and modulo N, tabulated over reduced operands   *)
(* by what they compute: a word x stands for the element x/R.              *)
(* FieldOperations and ScalarOperations say that the texts of module       *)
(* Montgomery compute just that; EcdsaProofs proves it.                    *)
(***************************************************************************)
R_INVERSE_P == CHOOSE z \in F : (R * z) % P = 1

pSums == [pair \in F \X F |-> (pair[1] + pair[2]) % P]
pDifferences == [pair \in F \X F |-> (pair[1] - pair[2]) % P]
pProducts == [pair \in F \X F |-> (pair[1] * pair[2] * R_INVERSE_P) % P]

pAdd(a, b) == pSums[<<a, b>>]
pSub(a, b) == pDifferences[<<a, b>>]
pMul(a, b) == pProducts[<<a, b>>]
pInv == [a \in F \ {0} |-> CHOOSE i \in F : (a * i - R * R) % P = 0]
intoP == [a \in F |-> (a * R) % P]
outOfP == [a \in F |-> (a * R_INVERSE_P) % P]

ScalarField == 0 .. (N - 1)
R_INVERSE_N == CHOOSE z \in ScalarField : (R * z) % N = 1

nProducts == [pair \in ScalarField \X ScalarField |-> (pair[1] * pair[2] * R_INVERSE_N) % N]

nMul(a, b) == nProducts[<<a, b>>]
nInv == [a \in ScalarField \ {0} |->
           CHOOSE i \in ScalarField : (a * i - R * R) % N = 0]
\* The hash is any word, not only a reduced one.
intoN == [a \in Word |-> (a * R) % N]
outOfN == [a \in ScalarField |-> (a * R_INVERSE_N) % N]

FieldOperations ==
  /\ \A a, b \in F :
       /\ pAdd(a, b) = montgomeryAdd(a, b, P)
       /\ pSub(a, b) = montgomerySub(a, b, P)
       /\ pMul(a, b) = montgomeryMul(a, b, P, P_PRIME)
  /\ \A a \in F \ {0} : pInv[a] = montgomeryModularInverse(a, P, R2_MOD_P)
  /\ \A a \in F : /\ intoP[a] = intoMontgomeryForm(a, P, P_PRIME, R2_MOD_P)
                   /\ outOfP[a] = outOfMontgomeryForm(a, P, P_PRIME)

ScalarOperations ==
  /\ \A a, b \in ScalarField : nMul(a, b) = montgomeryMul(a, b, N, N_PRIME)
  /\ \A a \in ScalarField \ {0} :
       nInv[a] = montgomeryModularInverse(a, N, R2_MOD_N)
  /\ \A a \in Word : intoN[a] = intoMontgomeryForm(a, N, N_PRIME, R2_MOD_N)
  /\ \A a \in ScalarField : outOfN[a] = outOfMontgomeryForm(a, N, N_PRIME)

MONTGOMERY_ONE_P == R % P
MONTGOMERY_A_P == (A * R) % P
MONTGOMERY_B_P == (B * R) % P

fieldElementIsOnSubgroupOrder(felt) == felt < N

affinePointCoordinatesAreOnFieldOrder(p) == p[1] < P /\ p[2] < P

affinePointIsInfinity(p) == p[1] = 0 /\ p[2] = 0

affinePointIsOnCurve(x, y) ==
  pMul(y, y) = pAdd(pMul(x, pMul(x, x)),
                    pAdd(pMul(MONTGOMERY_A_P, x), MONTGOMERY_B_P))

projectiveFromAffine(p) == <<intoP[p[1]], intoP[p[2]], MONTGOMERY_ONE_P>>

projectivePointIsInfinity(p) == p[3] = 0

ZeroPoint == <<0, MONTGOMERY_ONE_P, 0>>

-----------------------------------------------------------------------------
\* secp256k1VERIFY leaves out the term with A, which is zero there.
projectiveDouble(p) ==
  LET xx  == pMul(p[1], p[1])
      t   == pAdd(pAdd(xx, pAdd(xx, xx)),
                  pMul(MONTGOMERY_A_P, pMul(p[3], p[3])))
      yz  == pMul(p[2], p[3])
      u   == pAdd(yz, yz)
      uxy == pMul(u, pMul(p[1], p[2]))
      v   == pAdd(uxy, uxy)
      w   == pSub(pMul(t, t), pAdd(v, v))
      uy  == pMul(u, p[2])
      uy2 == pMul(uy, uy)
  IN  << pMul(u, w),
         pSub(pMul(t, pSub(v, w)), pAdd(uy2, uy2)),
         pMul(u, pMul(u, u)) >>

\* The chord formula for a through b: z = 0 when b = -a.
chord(a, b) ==
  LET ta == pMul(a[2], b[3])
      t  == pSub(ta, pMul(b[2], a[3]))
      u0 == pMul(a[1], b[3])
      u1 == pMul(b[1], a[3])
      u  == pSub(u0, u1)
      u2 == pMul(u, u)
      u3 == pMul(u2, u)
      v  == pMul(a[3], b[3])
      w  == pSub(pMul(pMul(t, t), v), pMul(u2, pAdd(u0, u1)))
  IN  << pMul(u, w),
         pSub(pMul(t, pSub(pMul(u0, u2), w)), pMul(ta, u3)),
         pMul(u3, v) >>

sameX(p, q) == pMul(p[1], q[3]) = pMul(q[1], p[3])
sameY(p, q) == pMul(p[2], q[3]) = pMul(q[2], p[3])

\* Mutant: equal points are added by the chord.
projectiveAdd_r1_noDouble(p, q) ==
  IF projectivePointIsInfinity(p) THEN q
  ELSE IF projectivePointIsInfinity(q) THEN p
  ELSE chord(p, q)

\* P256VERIFY tells doubling from addition by t = u = 0 and leaves p = -q to
\* the chord formula.
projectiveAdd_r1(p, q) ==
  IF projectivePointIsInfinity(p) THEN q
  ELSE IF projectivePointIsInfinity(q) THEN p
  ELSE IF sameX(p, q) /\ sameY(p, q) THEN projectiveDouble(p)
  ELSE chord(p, q)

\* secp256k1VERIFY returns the zero point explicitly for p = -q and draws the
\* chord from q.
projectiveAdd_k1(p, q) ==
  IF projectivePointIsInfinity(p) /\ projectivePointIsInfinity(q)
    THEN ZeroPoint
  ELSE IF projectivePointIsInfinity(p) THEN q
  ELSE IF projectivePointIsInfinity(q) THEN p
  ELSE IF sameX(p, q)
    THEN IF sameY(p, q) THEN projectiveDouble(p) ELSE ZeroPoint
  ELSE chord(q, p)

projectiveAdd(p, q) ==
  IF Variant = "r1" THEN projectiveAdd_r1(p, q) ELSE projectiveAdd_k1(p, q)

-----------------------------------------------------------------------------
shr(i, u) == u \div PowerOfTwo[i]

\* 0, 1 (bit of u1 only), 2 (bit of u0 only) or 3.
compareBits(i, u0, u1) == 2 * (shr(i, u0) % 2) + (shr(i, u1) % 2)

Positions == 0 .. (Bits - 1)

\* The search goes down from the top bit and has no lower end.
findMostSignificantBitIndex(u0, u1) ==
  CHOOSE i \in Positions :
    /\ compareBits(i, u0, u1) # 0
    /\ \A j \in Positions : j > i => compareBits(j, u0, u1) = 0

Q == projectiveFromAffine(key)
PG == projectiveFromAffine(G)

\* What a pair of bits selects: Q, G or G + Q.
selected(bits, sum) == <<Q, PG, sum>>[bits]

-----------------------------------------------------------------------------
Init ==
  /\ hash \in Hashes /\ r \in Signatures /\ s \in Signatures /\ key \in Keys
  /\ t0 = 0 /\ t1 = 0 /\ h = ZeroPoint /\ acc = ZeroPoint /\ index = 0
  /\ pc = "entry" /\ result = <<>>

finish(res) ==
  /\ result' = res /\ pc' = "done"
  /\ UNCHANGED <<hash, r, s, key, t0, t1, h, acc, index>>

\* Mutant: r = 0 passes.
signatureInRange_zeroR ==
  /\ fieldElementIsOnSubgroupOrder(r)
  /\ s # 0 /\ fieldElementIsOnSubgroupOrder(s)

signatureInRange ==
  /\ r # 0 /\ fieldElementIsOnSubgroupOrder(r)
  /\ s # 0 /\ fieldElementIsOnSubgroupOrder(s)

RejectSignature == pc = "entry" /\ ~signatureInRange /\ finish(Burned)

keyInField ==
  ~affinePointIsInfinity(key) /\ affinePointCoordinatesAreOnFieldOrder(key)

RejectKey ==
  /\ pc = "entry" /\ signatureInRange
  /\ \/ ~keyInField
     \/ keyInField /\ ~affinePointIsOnCurve(intoP[key[1]], intoP[key[2]])
  /\ finish(Burned)

\* hash/s and r/s modulo N, out of Montgomery form.
ComputeScalars ==
  /\ pc = "entry" /\ signatureInRange /\ keyInField
  /\ affinePointIsOnCurve(intoP[key[1]], intoP[key[2]])
  /\ LET s1 == nInv[intoN[s]]
     IN  /\ t0' = outOfN[nMul(intoN[hash], s1)]
         /\ t1' = outOfN[nMul(intoN[r], s1)]
  /\ pc' = "combine"
  /\ UNCHANGED <<hash, r, s, key, h, acc, index, result>>

\* Loads G + Q and the accumulator for the top bit pair; with no bit set the
\* search for that pair would never stop.
loadTopBits(noBitSet) ==
  /\ pc = "combine"
  /\ h' = projectiveAdd(PG, Q)
  /\ IF noBitSet
       THEN result' = Diverged /\ pc' = "done" /\ UNCHANGED <<acc, index>>
       ELSE /\ index' = findMostSignificantBitIndex(t0, t1)
            /\ acc' = selected(compareBits(index', t0, t1), h')
            /\ pc' = "shamir" /\ UNCHANGED result
  /\ UNCHANGED <<hash, r, s, key, t0, t1>>

\* Mutant: one zero scalar is taken for two.
StartShamir_oneZero == loadTopBits(t0 = 0 \/ t1 = 0)

StartShamir == loadTopBits(t0 = 0 /\ t1 = 0)

ShamirPass ==
  /\ pc = "shamir" /\ index > 0
  /\ index' = index - 1
  /\ LET bits    == compareBits(index - 1, t0, t1)
         doubled == projectiveDouble(acc)
     IN  acc' = IF bits = 0 THEN doubled
                ELSE projectiveAdd(doubled, selected(bits, h))
  /\ UNCHANGED <<hash, r, s, key, t0, t1, h, pc, result>>

\* Mutant: the x-coordinate is not reduced modulo N.
compareX_notReduced ==
  Returned(IF outOfP[pMul(acc[1], pInv[acc[3]])] = r THEN 1 ELSE 0)

\* x-coordinate of the combination modulo N against r.
compareX ==
  Returned(IF outOfP[pMul(acc[1], pInv[acc[3]])] % N = r THEN 1 ELSE 0)

\* Mutant: no test for infinity in either text.
Compare_noInfinityTest ==
  /\ pc = "shamir" /\ index = 0
  /\ finish(IF acc[3] # 0 THEN compareX ELSE Diverged)

\* P256VERIFY answers 0 for the point at infinity; secp256k1VERIFY has no such
\* test and goes on to invert its z-coordinate, 0.
Compare ==
  /\ pc = "shamir" /\ index = 0
  /\ finish(IF acc[3] # 0 THEN compareX
            ELSE IF Variant = "r1" THEN Returned(0) ELSE Diverged)

\* After its return or revert the call takes no further step.
Terminated == pc = "done" /\ UNCHANGED vars

Next ==
  \/ RejectSignature \/ RejectKey
  \/ ComputeScalars \/ StartShamir \/ ShamirPass \/ Compare
  \/ Terminated

Spec == Init /\ [][Next]_vars

-----------------------------------------------------------------------------
Affine(p) ==
  IF p[3] = 0 THEN Infinity
  ELSE <<outOfP[pMul(p[1], pInv[p[3]])], outOfP[pMul(p[2], pInv[p[3]])]>>

Combination(u0, u1) == GroupAdd(GroupMul(u0, G), GroupMul(u1, key))

requestValid ==
  /\ r \in 1 .. (N - 1) /\ s \in 1 .. (N - 1)
  /\ key \in Points \ {Infinity}

\* ECDSA verification on plain integers.
EcdsaAccepts ==
  LET w == CHOOSE z \in 1 .. (N - 1) : (s * z) % N = 1
      X == Combination(hash * w, r * w)
  IN  X # Infinity /\ X[1] % N = r

\* Shamir's trick: after the passes for the bits above index the accumulator
\* is the combination of the scalars without their last index bits, although
\* it may pass through infinity, through G, Q, G+Q or their opposites.
AccumulatorTracksCombination ==
  pc = "shamir" =>
    Affine(acc) = Combination(shr(index, t0), shr(index, t1))

\* A signature is accepted exactly when ECDSA accepts it for a well-formed
\* request: hash not reduced, x-coordinate between N and P included.
AcceptsExactlyValid ==
  pc = "done" => (result = Returned(1) <=> requestValid /\ EcdsaAccepts)

\* A request whose r, s or key fails the checks that EIP-7212 requires is
\* burned, and no other is.
BurnsExactlyMalformed ==
  pc = "done" => (result = Burned <=> ~requestValid)

\* Every well-formed request is answered with 0 or 1.
AnswersWellFormed ==
  pc = "done" /\ requestValid => result \in {Returned(0), Returned(1)}

\* Without a test for infinity the only request left unanswered is the one
\* whose combination is the point at infinity.
DivergesOnlyAtInfinity ==
  result = Diverged => Combination(t0, t1) = Infinity /\ ~EcdsaAccepts
=============================================================================
