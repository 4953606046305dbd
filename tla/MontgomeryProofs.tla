-------------------------- MODULE MontgomeryProofs --------------------------
(***************************************************************************)
(* Lemmas about words and divisibility, and the correctness of the three   *)
(* texts of the Montgomery reduction for every word size and modulus; then *)
(* arithmetic modulo p and inverses modulo a prime, and with them what     *)
(* each function of the precompiles computes on words in Montgomery form.  *)
(***************************************************************************)
EXTENDS Montgomery, WellFoundedInduction, TLAPS

-----------------------------------------------------------------------------
(***************************************************************************)
(* Division with remainder, and divisibility through a cofactor.           *)
(***************************************************************************)

\* Quotient and remainder of a division by a positive number.
LEMMA DivMod ==
  ASSUME NEW d \in Nat, d > 0, NEW x \in Int
  PROVE  /\ x \div d \in Int
         /\ x % d \in 0 .. (d - 1)
         /\ x = d * (x \div d) + (x % d)
  BY SMT

\* A multiple of d plus something in 0..d-1 has that remainder and quotient.
LEMMA DivModUnique ==
  ASSUME NEW d \in Nat, d > 0, NEW q \in Int, NEW s \in 0 .. (d - 1)
  PROVE  (d * q + s) % d = s /\ (d * q + s) \div d = q
  BY SMT

\* d divides each of its multiples.
LEMMA MultipleDivides ==
  ASSUME NEW d \in Nat, d > 0, NEW k \in Int
  PROVE  Divides(d, d * k)
  BY SMT DEF Divides

\* A number that d divides is a multiple of d.
LEMMA DividesCofactor ==
  ASSUME NEW d \in Nat, d > 0, NEW x \in Int, Divides(d, x)
  PROVE  \E k \in Int : x = d * k
  BY DivMod, SMT DEF Divides

\* Divisibility is preserved by sums and differences.
LEMMA DividesSum ==
  ASSUME NEW d \in Nat, d > 0, NEW x \in Int, NEW y \in Int,
         Divides(d, x), Divides(d, y)
  PROVE  Divides(d, x + y) /\ Divides(d, x - y)
<1>1. PICK j \in Int : x = d * j  BY DividesCofactor
<1>2. PICK k \in Int : y = d * k  BY DividesCofactor
<1>3. x + y = d * (j + k) /\ x - y = d * (j - k)
  BY <1>1, <1>2, SMT
<1>4. j + k \in Int /\ j - k \in Int  OBVIOUS
<1> QED  BY <1>3, <1>4, MultipleDivides

\* An odd d that divides 2x divides x.
LEMMA OddDividesHalf ==
  ASSUME NEW d \in Nat, d > 0, d % 2 = 1, NEW x \in Int, Divides(d, 2 * x)
  PROVE  Divides(d, x)
<1>1. PICK k \in Int : 2 * x = d * k  BY DividesCofactor, SMT
<1>2. PICK h \in Int : d = 2 * h + 1  BY SMT
<1>3. 2 * x = 2 * (h * k) + k  BY <1>1, <1>2, SMT
<1>4. k = 2 * (x - h * k)  BY <1>3, SMT
<1>5. x - h * k \in Int  BY <1>2, SMT
<1>6. 2 * x = 2 * (d * (x - h * k))  BY <1>1, <1>4, <1>5, SMT
<1>7. x = d * (x - h * k)  BY <1>6, <1>5, SMT
<1> QED  BY <1>5, <1>7, MultipleDivides

\* overflowingAdd returns the sum modulo R and whether it left the word.
LEMMA OverflowingAdd ==
  ASSUME NEW x \in Word, NEW y \in Word
  PROVE  /\ overflowingAdd(x, y)[1] = IF x + y < R THEN x + y ELSE x + y - R
         /\ overflowingAdd(x, y)[2] = (x + y >= R)
         /\ overflowingAdd(x, y)[1] \in Word
<1>1. add(x, y) = IF x + y < R THEN x + y ELSE x + y - R
  BY WordAssumption, SMT DEF add, Word
<1>2. (add(x, y) < x) = (x + y >= R)
  BY <1>1, WordAssumption, SMT DEF Word
<1>3. add(x, y) \in Word
  BY <1>1, WordAssumption, SMT DEF Word
<1> QED  BY <1>1, <1>2, <1>3 DEF overflowingAdd

-----------------------------------------------------------------------------
(***************************************************************************)
(* The Montgomery reduction.  For T = THi*R + TLo < n*R let                *)
(*   m = TLo*nPrime mod R,   m*n = hi*R + lo,   t = (T + m*n) / R.         *)
(* ReductionSum shows t is THi + hi plus one carry that is due exactly     *)
(* when TLo is not zero, and t < 2n; the three texts then differ only in   *)
(* how they get t mod n out of words that may have wrapped.                *)
(***************************************************************************)
ReductionM(TLo, nPrime) == mul(TLo, nPrime)

ReductionHi(TLo, n, nPrime) ==
  getHighestHalfOfMultiplication(ReductionM(TLo, nPrime), n)

ReductionLo(TLo, n, nPrime) == mul(ReductionM(TLo, nPrime), n)

ReductionT(TLo, THi, n, nPrime) ==
  THi + ReductionHi(TLo, n, nPrime) + (IF TLo = 0 THEN 0 ELSE 1)

\* The low halves of T and m*n cancel modulo R: both are zero, or they add up
\* to exactly R and give one carry.  The high half of m*n is below n.
LEMMA ReductionSum ==
  ASSUME NEW n \in 1 .. (R - 1), NEW nPrime \in Word,
         (n * nPrime) % R = R - 1, NEW TLo \in Word
  PROVE  /\ ReductionM(TLo, nPrime) \in Word
         /\ ReductionHi(TLo, n, nPrime) \in 0 .. (n - 1)
         /\ ReductionLo(TLo, n, nPrime) \in Word
         /\ TLo = 0 => /\ ReductionLo(TLo, n, nPrime) = 0
                       /\ ReductionHi(TLo, n, nPrime) = 0
         /\ TLo # 0 => TLo + ReductionLo(TLo, n, nPrime) = R
         /\ ReductionM(TLo, nPrime) * n
              = ReductionHi(TLo, n, nPrime) * R + ReductionLo(TLo, n, nPrime)
<1> DEFINE m  == ReductionM(TLo, nPrime)
           hi == ReductionHi(TLo, n, nPrime)
           lo == ReductionLo(TLo, n, nPrime)
           q1 == (TLo * nPrime) \div R
           q2 == (n * nPrime) \div R
           k  == TLo * (q2 + 1) - q1 * n
<1>0. R \in Nat /\ R > 1 /\ n \in Nat /\ nPrime \in Nat /\ TLo \in Nat
      /\ n > 0 /\ n < R /\ nPrime < R /\ TLo < R
  BY WordAssumption DEF Word
<1>1. q1 \in Int /\ m \in 0 .. (R - 1) /\ TLo * nPrime = R * q1 + m
  BY <1>0, DivMod, SMT DEF ReductionM, mul
<1>2. q2 \in Int /\ n * nPrime = R * q2 + (R - 1)
  BY <1>0, DivMod, SMT
<1>3. m * n \in Nat
  BY <1>0, <1>1, SMT
<1>4. hi \in Int /\ lo \in 0 .. (R - 1) /\ m * n = R * hi + lo
  <2> HIDE DEF m
  <2>1. hi = (m * n) \div R /\ lo = (m * n) % R
    BY DEF ReductionHi, ReductionLo, getHighestHalfOfMultiplication, mul, m
  <2> QED  BY <1>0, <1>3, <2>1, DivMod, SMT
<1> HIDE DEF m, hi, lo, q1, q2
<1>5. hi \in 0 .. (n - 1)
  <2>1. R * hi <= m * n  BY <1>4, <1>3, <1>0, SMT
  <2>2. m * n < R * n  BY <1>0, <1>1, SMT
  <2>3. hi < n  BY <1>0, <1>4, <2>1, <2>2, <1>3, SMT
  <2>4. hi >= 0
    <3>1. R * hi + lo >= 0  BY <1>3, <1>4
    <3>2. R * hi > R * (-1)  BY <3>1, <1>4, <1>0, SMT
    <3> QED  BY <3>2, <1>4, <1>0, SMT
  <2> QED  BY <2>3, <2>4, <1>4, SMT
<1>6. k \in Int /\ m * n = R * k - TLo
  <2>1. m * n = (TLo * nPrime) * n - (R * q1) * n  BY <1>0, <1>1, SMT
  <2>2. (TLo * nPrime) * n = TLo * (n * nPrime)  BY <1>0, SMT
  <2>3. TLo * (n * nPrime) = TLo * (R * q2 + (R - 1))  BY <1>2
  <2>4. TLo * (R * q2 + (R - 1)) = R * (TLo * (q2 + 1)) - TLo
    BY <1>0, <1>2, SMT
  <2>5. (R * q1) * n = R * (q1 * n)  BY <1>0, <1>1, SMT
  <2>6. TLo * (q2 + 1) \in Int /\ q1 * n \in Int  BY <1>0, <1>1, <1>2, SMT
  <2>7. R * (TLo * (q2 + 1)) - R * (q1 * n) = R * k
    BY <2>6, <1>0, SMT
  <2> QED  BY <2>1, <2>2, <2>3, <2>4, <2>5, <2>6, <2>7, <1>0, SMT
<1> HIDE DEF k
<1>7. TLo + lo = R * (k - hi)
  BY <1>0, <1>4, <1>6, SMT
<1>8. TLo # 0 => TLo + lo = R
  <2> SUFFICES ASSUME TLo # 0 PROVE TLo + lo = R  OBVIOUS
  <2>1. R * (k - hi) > R * 0 /\ R * (k - hi) < R * 2
    BY <1>0, <1>4, <1>7, SMT
  <2>2. k - hi \in Int  BY <1>4, <1>6, SMT
  <2>3. k - hi > 0 /\ k - hi < 2  BY <2>1, <2>2, <1>0, SMT
  <2>4. k - hi = 1  BY <2>2, <2>3, SMT
  <2> QED  BY <2>4, <1>7, <1>0, SMT
<1>9. TLo = 0 => lo = 0 /\ hi = 0
  <2> SUFFICES ASSUME TLo = 0 PROVE lo = 0 /\ hi = 0  OBVIOUS
  <2>1. m = 0  BY <1>0, SMT DEF m, ReductionM, mul
  <2>2. R * hi + lo = 0  BY <2>1, <1>4, <1>0, SMT
  <2>3. hi = 0  BY <2>2, <1>4, <1>5, <1>0, SMT
  <2> QED  BY <2>2, <2>3, <1>4, <1>0, SMT
<1>10. m * n = hi * R + lo  BY <1>4, <1>0, SMT
<1> QED  BY <1>1, <1>4, <1>5, <1>8, <1>9, <1>10 DEF Word, m, hi, lo

\* t or t-n, whichever is below n, is the reduction of T.
LEMMA ReductionFromT ==
  ASSUME NEW n \in 1 .. (R - 1), NEW nPrime \in Word,
         (n * nPrime) % R = R - 1, NEW TLo \in Word, NEW THi \in 0 .. (n - 1)
  PROVE  LET t == ReductionT(TLo, THi, n, nPrime)
         IN  /\ t \in 0 .. (2 * n - 1)
             /\ IsReductionOf(IF t < n THEN t ELSE t - n, TLo, THi, n)
<1> DEFINE t  == ReductionT(TLo, THi, n, nPrime)
           m  == ReductionM(TLo, nPrime)
           hi == ReductionHi(TLo, n, nPrime)
           lo == ReductionLo(TLo, n, nPrime)
           cy == IF TLo = 0 THEN 0 ELSE 1
           T  == THi * R + TLo
<1>0. R \in Nat /\ R > 1 /\ n \in Nat /\ n > 0 /\ TLo \in Nat /\ THi \in Nat
  BY WordAssumption DEF Word
<1>1. /\ m \in Nat /\ hi \in 0 .. (n - 1) /\ lo \in Nat
      /\ TLo + lo = R * cy
      /\ m * n = hi * R + lo
  <2>1. /\ m \in Word /\ hi \in 0 .. (n - 1) /\ lo \in Word
        /\ TLo = 0 => lo = 0
        /\ TLo # 0 => TLo + lo = R
        /\ m * n = hi * R + lo
    BY ReductionSum
  <2> HIDE DEF m, hi, lo
  <2>2. m \in Nat /\ lo \in Nat  BY <2>1, <1>0, SMT DEF Word
  <2> QED  BY <2>1, <2>2, <1>0, SMT
<1>2. t = THi + hi + cy /\ cy \in 0 .. 1  BY DEF ReductionT
<1> HIDE DEF t, m, hi, lo, cy
<1>3. t \in 0 .. (2 * n - 1)  BY <1>0, <1>1, <1>2, SMT
<1>4. t * R - T = n * m
  <2>1. t * R = THi * R + hi * R + cy * R  BY <1>0, <1>1, <1>2, SMT
  <2>2. hi * R = m * n - lo  BY <1>0, <1>1, SMT
  <2> QED  BY <2>1, <2>2, <1>0, <1>1, <1>2, SMT
<1>5. (t - n) * R - T = n * (m - R)
  <2>1. (t - n) * R = t * R - n * R  BY <1>0, <1>3, SMT
  <2>2. n * (m - R) = m * n - n * R  BY <1>0, <1>1, SMT
  <2> QED  BY <2>1, <2>2, <1>4, <1>3, <1>0, <1>1, SMT
<1>6. m \in Int /\ m - R \in Int  BY <1>0, <1>1, SMT
<1>7. Divides(n, t * R - T) /\ Divides(n, (t - n) * R - T)
  BY <1>4, <1>5, <1>6, <1>0, MultipleDivides
<1>8. IsReductionOf(IF t < n THEN t ELSE t - n, TLo, THi, n)
  BY <1>3, <1>7, <1>0, SMT DEF IsReductionOf
<1> QED  BY <1>3, <1>8 DEF t

\* The alt_bn128 text of REDC looks at no carry out of the high half.  It is
\* right for every modulus that leaves a spare bit in the word.
THEOREM REDC_bn_Correct ==
  ASSUME NEW n \in 1 .. (R - 1), 2 * n <= R, NEW nPrime \in Word,
         (n * nPrime) % R = R - 1, NEW TLo \in Word, NEW THi \in 0 .. (n - 1)
  PROVE  IsReductionOf(REDC_bn(TLo, THi, n, nPrime), TLo, THi, n)
<1> DEFINE t  == ReductionT(TLo, THi, n, nPrime)
           hi == ReductionHi(TLo, n, nPrime)
           lo == ReductionLo(TLo, n, nPrime)
<1>0. R \in Nat /\ R > 1 /\ n \in Nat /\ n > 0 /\ TLo \in 0 .. (R - 1)
      /\ THi \in Nat
  BY WordAssumption DEF Word
<1>1. /\ hi \in 0 .. (n - 1) /\ lo \in 0 .. (R - 1)
      /\ TLo = 0 => lo = 0 /\ hi = 0
      /\ TLo # 0 => TLo + lo = R
  BY ReductionSum DEF Word
<1>2. t = THi + hi + (IF TLo = 0 THEN 0 ELSE 1) /\ t \in 0 .. (2 * n - 1)
  BY ReductionFromT DEF ReductionT
<1>3. overflowingAdd(TLo, lo)[2] = (TLo # 0)
  <2> HIDE DEF lo
  <2> QED  BY <1>0, <1>1, SMT DEF overflowingAdd, add
<1>4. REDC_bn(TLo, THi, n, nPrime) = IF t < n THEN t ELSE t - n
  <2> DEFINE s == add(THi, hi)
             h == IF overflowingAdd(TLo, lo)[2] THEN add(s, 1) ELSE s
  <2>1. REDC_bn(TLo, THi, n, nPrime) = IF h >= n THEN sub(h, n) ELSE h
    BY DEF REDC_bn, ReductionHi, ReductionLo, ReductionM
  <2> HIDE DEF t, hi, lo
  <2>2. s = THi + hi  BY <1>0, <1>1, SMT DEF add
  <2>3. h = t
    <3>1. h = IF TLo # 0 THEN add(s, 1) ELSE s  BY <1>3
    <3> HIDE DEF h
    <3> QED  BY <3>1, <2>2, <1>0, <1>1, <1>2, SMT DEF add
  <2>4. t >= n => sub(t, n) = t - n  BY <1>0, <1>2, SMT DEF sub
  <2> HIDE DEF h
  <2> QED  BY <2>1, <2>3, <2>4, <1>2, <1>0, SMT
<1> QED  BY <1>4, ReductionFromT

\* The P256VERIFY text of REDC remembers the carries of both additions to the
\* high half.  It is right for every odd modulus of the word.
THEOREM REDC_r1_Correct ==
  ASSUME NEW n \in 1 .. (R - 1), NEW nPrime \in Word,
         (n * nPrime) % R = R - 1, NEW TLo \in Word, NEW THi \in 0 .. (n - 1)
  PROVE  IsReductionOf(REDC_r1(TLo, THi, n, nPrime), TLo, THi, n)
<1> DEFINE t     == ReductionT(TLo, THi, n, nPrime)
           hi    == ReductionHi(TLo, n, nPrime)
           lo    == ReductionLo(TLo, n, nPrime)
           first == overflowingAdd(THi, hi)
           aLo   == overflowingAdd(TLo, lo)
           last  == IF aLo[2] THEN overflowingAdd(first[1], 1)
                              ELSE <<first[1], FALSE>>
<1>0. R \in Nat /\ R > 1 /\ n \in Nat /\ n > 0 /\ n < R
      /\ THi \in Nat /\ THi < n /\ THi \in Word /\ 1 \in Word
  BY WordAssumption, SMT DEF Word
<1>1. /\ hi \in 0 .. (n - 1) /\ lo \in Word
      /\ TLo = 0 => lo = 0 /\ hi = 0
      /\ TLo # 0 => TLo + lo = R
  BY ReductionSum
<1>2. t = THi + hi + (IF TLo = 0 THEN 0 ELSE 1) /\ t \in 0 .. (2 * n - 1)
  BY ReductionFromT DEF ReductionT
<1>3. REDC_r1(TLo, THi, n, nPrime)
        = IF first[2] \/ last[2] \/ last[1] >= n THEN sub(last[1], n)
                                                 ELSE last[1]
  BY DEF REDC_r1, ReductionHi, ReductionLo, ReductionM
<1> HIDE DEF t, hi, lo
<1>4. hi \in Word  BY <1>0, <1>1, SMT DEF Word
<1>5. aLo[2] = (TLo # 0)
  <2>1. aLo[2] = (TLo + lo >= R)  BY <1>1, OverflowingAdd
  <2>2. (TLo + lo >= R) = (TLo # 0)  BY <1>0, <1>1, SMT DEF Word
  <2> QED  BY <2>1, <2>2
<1>6. /\ first[1] = IF THi + hi < R THEN THi + hi ELSE THi + hi - R
      /\ first[2] = (THi + hi >= R)
      /\ first[1] \in Word
  BY <1>0, <1>4, OverflowingAdd
<1> HIDE DEF first, aLo
<1>7. /\ last[1] = IF t < R THEN t ELSE t - R
      /\ (first[2] \/ last[2]) = (t >= R)
  <2>1. CASE TLo = 0
    <3>1. last = <<first[1], FALSE>>  BY <1>5, <2>1
    <3> HIDE DEF last
    <3>2. last[1] = first[1] /\ last[2] = FALSE  BY <3>1
    <3>3. t = THi + hi /\ THi + hi < R /\ ~(THi + hi >= R)
      BY <1>0, <1>1, <1>2, <2>1, SMT
    <3>4a. first[1] = t  BY <3>3, <1>6
    <3>4b. first[2] = FALSE
      <4>1. (THi + hi >= R) = FALSE  BY <3>3
      <4> QED  BY <4>1, <1>6
    <3>5. t < R /\ ~(t >= R)  BY <3>3
    <3> QED  BY <3>2, <3>4a, <3>4b, <3>5
  <2>2. CASE TLo # 0
    <3>1. last = overflowingAdd(first[1], 1)  BY <1>5, <2>2
    <3> HIDE DEF last
    <3>2. /\ last[1] = IF first[1] + 1 < R THEN first[1] + 1
                                           ELSE first[1] + 1 - R
          /\ last[2] = (first[1] + 1 >= R)
      BY <3>1, <1>6, <1>0, OverflowingAdd
    <3>3. t = THi + hi + 1  BY <1>0, <1>1, <1>2, <2>2, SMT
    <3>4. last[1] = IF t < R THEN t ELSE t - R
      BY <3>2, <3>3, <1>0, <1>1, <1>2, <1>6, SMT
    <3>5. ((THi + hi >= R) \/ (first[1] + 1 >= R)) = (t >= R)
      BY <3>3, <1>0, <1>1, <1>2, <1>6, SMT
    <3> QED  BY <3>2, <3>4, <3>5, <1>6
  <2> QED  BY <2>1, <2>2
<1> HIDE DEF last
<1>8. REDC_r1(TLo, THi, n, nPrime)
        = IF t >= R \/ last[1] >= n THEN sub(last[1], n) ELSE last[1]
  BY <1>3, <1>7
<1>9. REDC_r1(TLo, THi, n, nPrime) = IF t < n THEN t ELSE t - n
  BY <1>8, <1>7, <1>2, <1>0, SMT DEF sub
<1> QED  BY <1>9, ReductionFromT DEF t

\* The secp256k1VERIFY text folds the first carry into the running sum by
\* adding 2^256 - n, and its comment asks whether that addition can overflow.
\* It cannot change the result: the text is right for every odd modulus.
THEOREM REDC_k1_Correct ==
  ASSUME NEW n \in 1 .. (R - 1), NEW nPrime \in Word,
         (n * nPrime) % R = R - 1, NEW TLo \in Word, NEW THi \in 0 .. (n - 1)
  PROVE  IsReductionOf(REDC_k1(TLo, THi, n, nPrime), TLo, THi, n)
<1> DEFINE t      == ReductionT(TLo, THi, n, nPrime)
           hi     == ReductionHi(TLo, n, nPrime)
           lo     == ReductionLo(TLo, n, nPrime)
           first  == overflowingAdd(THi, hi)
           aLo    == overflowingAdd(TLo, lo)
           folded == IF first[2] THEN add(first[1], sub(0, n)) ELSE first[1]
           second == IF aLo[2] THEN overflowingAdd(folded, 1)
                               ELSE <<folded, first[2]>>
           tHi    == IF second[2] THEN add(second[1], sub(0, n))
                                  ELSE second[1]
<1>0. R \in Nat /\ R > 1 /\ n \in Nat /\ n > 0 /\ n < R
      /\ THi \in Nat /\ THi < n /\ THi \in Word /\ 1 \in Word
  BY WordAssumption, SMT DEF Word
<1>1. /\ hi \in 0 .. (n - 1) /\ lo \in Word
      /\ TLo = 0 => lo = 0 /\ hi = 0
      /\ TLo # 0 => TLo + lo = R
  BY ReductionSum
<1>2. t = THi + hi + (IF TLo = 0 THEN 0 ELSE 1) /\ t \in 0 .. (2 * n - 1)
  BY ReductionFromT DEF ReductionT
<1>3. REDC_k1(TLo, THi, n, nPrime) = IF tHi >= n THEN sub(tHi, n) ELSE tHi
  BY DEF REDC_k1, ReductionHi, ReductionLo, ReductionM
<1> HIDE DEF t, hi, lo
<1>4. hi \in Word  BY <1>0, <1>1, SMT DEF Word
<1>5. aLo[2] = (TLo # 0)
  <2>1. aLo[2] = (TLo + lo >= R)  BY <1>1, OverflowingAdd
  <2>2. (TLo + lo >= R) = (TLo # 0)  BY <1>0, <1>1, SMT DEF Word
  <2> QED  BY <2>1, <2>2
<1>6. /\ first[1] = IF THi + hi < R THEN THi + hi ELSE THi + hi - R
      /\ first[2] = (THi + hi >= R)
      /\ first[1] \in Word
  BY <1>0, <1>4, OverflowingAdd
<1>7. sub(0, n) = R - n /\ R - n \in Word
  BY <1>0, SMT DEF sub, Word
<1> HIDE DEF first, aLo
\* A carry out of THi + hi leaves first[1] = THi + hi - R < n, so adding R - n
\* stays in the word.
<1>8. folded = IF THi + hi >= R THEN THi + hi - n ELSE THi + hi
  <2>1. folded = IF THi + hi >= R THEN add(first[1], R - n) ELSE first[1]
    BY <1>6, <1>7
  <2> HIDE DEF folded
  <2> QED  BY <2>1, <1>0, <1>1, <1>6, SMT DEF add
<1>9. folded \in Word
  <2> HIDE DEF folded
  <2> QED  BY <1>8, <1>0, <1>1, SMT DEF Word
<1> HIDE DEF folded
<1>10. tHi \in {t, t - n} /\ tHi \in Word
  <2>1. CASE TLo = 0
    <3>1. THi + hi = t /\ ~(THi + hi >= R)  BY <1>0, <1>1, <1>2, <2>1, SMT
    <3>2. second = <<folded, first[2]>>  BY <1>5, <2>1
    <3> HIDE DEF second
    <3>3. second[1] = folded /\ second[2] = first[2]  BY <3>2
    <3>4. tHi = folded  BY <3>1, <3>3, <1>6
    <3> QED  BY <3>1, <3>4, <1>8, <1>9
  <2>2. CASE TLo # 0
    <3>1. second = overflowingAdd(folded, 1)  BY <1>5, <2>2
    <3> HIDE DEF second
    <3>2. /\ second[1] = IF folded + 1 < R THEN folded + 1 ELSE folded + 1 - R
          /\ second[2] = (folded + 1 >= R)
      BY <3>1, <1>9, <1>0, OverflowingAdd
    <3>3. tHi = IF folded + 1 >= R THEN add(second[1], R - n) ELSE second[1]
      BY <3>2, <1>7
    <3> HIDE DEF tHi
    <3>4. tHi = IF folded + 1 >= R THEN folded + 1 - n ELSE folded + 1
      BY <3>2, <3>3, <1>9, <1>0, SMT DEF add, Word
    <3>5. t = THi + hi + 1  BY <1>0, <1>1, <1>2, <2>2, SMT
    <3> QED  BY <3>4, <3>5, <1>8, <1>9, <1>0, <1>1, <1>2, SMT DEF Word
  <2> QED  BY <2>1, <2>2
<1> HIDE DEF tHi
<1>11. (IF tHi >= n THEN sub(tHi, n) ELSE tHi) = IF t < n THEN t ELSE t - n
  BY <1>10, <1>2, <1>0, SMT DEF sub, Word
<1> QED  BY <1>3, <1>11, ReductionFromT DEF t

-----------------------------------------------------------------------------
(***************************************************************************)
(* Remainders.  Two numbers that differ by a multiple of p have the same   *)
(* remainder, and sums, differences and products respect that.             *)
(*                                                                         *)
(* Sums, differences and products modulo p are the operators PlusMod,      *)
(* MinusMod and TimesMod, which the proofs that cite the lemmas leave      *)
(* unexpanded.                                                             *)
(***************************************************************************)

\* Quotient and remainder.
LEMMA Remainder ==
  ASSUME NEW p \in Nat, p > 0, NEW x \in Int
  PROVE  /\ x % p \in 0 .. (p - 1)
         /\ \E k \in Int : x = (k * p) + (x % p)
<1>1. x % p \in 0 .. (p - 1) /\ x \div p \in Int /\ x = (p * (x \div p)) + (x % p)
  BY SMT
<1>2. p * (x \div p) = (x \div p) * p
  BY <1>1, SMT
<1>. QED BY <1>1, <1>2

\* A number is its own remainder below p, and multiples of p do not count.
LEMMA RemainderOfSum ==
  ASSUME NEW p \in Nat, p > 0, NEW k \in Int, NEW s \in 0 .. (p - 1)
  PROVE  (k * p + s) % p = s
<1>1. k * p + s = p * k + s
  BY SMT
<1>2. (p * k + s) % p = s
  BY SMT
<1>. QED BY <1>1, <1>2

\* Numbers with the same remainder differ by a multiple of p.
LEMMA SameRemainder ==
  ASSUME NEW p \in Nat, p > 0, NEW x \in Int, NEW y \in Int
  PROVE  x % p = y % p <=> \E k \in Int : x = y + k * p
<1>1. PICK i \in Int : x = (i * p) + (x % p)
  BY Remainder
<1>2. PICK j \in Int : y = (j * p) + (y % p)
  BY Remainder
<1>. DEFINE s == x % p  t == y % p
<1>3. s \in 0 .. (p - 1) /\ t \in 0 .. (p - 1)
  BY Remainder
<1>4. ASSUME s = t PROVE \E k \in Int : x = y + k * p
  <2>1. (i - j) * p = i * p - j * p /\ i - j \in Int
    BY SMT
  <2>. HIDE DEF s, t
  <2>2. x = i * p + s /\ y = j * p + t /\ i * p \in Int /\ j * p \in Int
    BY <1>1, <1>2 DEF s, t
  <2>3. x = y + (i - j) * p
    BY <2>1, <2>2, <1>3, <1>4
  <2>. QED BY <2>1, <2>3
<1>5. ASSUME NEW k \in Int, x = y + k * p PROVE s = t
  <2>1. (j + k) * p = j * p + k * p /\ j + k \in Int
    BY SMT
  <2>2. x = (j + k) * p + t
    <3>. HIDE DEF t
    <3>1. y = j * p + t /\ j * p \in Int /\ k * p \in Int
      BY <1>2 DEF t
    <3>. QED BY <2>1, <3>1, <1>3, <1>5
  <2>. HIDE DEF t
  <2>3. x % p = t
    BY <2>1, <2>2, <1>3, RemainderOfSum
  <2>. QED BY <2>3 DEF s
<1>. QED BY <1>4, <1>5

\* A remainder is its own remainder.
LEMMA RemainderTwice ==
  ASSUME NEW p \in Nat, p > 0, NEW x \in Int
  PROVE  x % p \in Int /\ (x % p) % p = x % p
<1>. DEFINE s == x % p
<1>1. s \in 0 .. (p - 1)
  BY Remainder
<1>. HIDE DEF s
<1>2. (0 * p) + s = s
  BY <1>1
<1>3. s % p = s /\ s \in Int
  BY <1>1, <1>2, RemainderOfSum
<1>. QED BY <1>3 DEF s

\* Sums, differences and products modulo p.
PlusMod(p, x, y) == (x + y) % p
MinusMod(p, x, y) == (x - y) % p
TimesMod(p, x, y) == (x * y) % p

LEMMA Closed ==
  ASSUME NEW p \in Nat, p > 0, NEW x \in Int, NEW y \in Int
  PROVE  {PlusMod(p, x, y), MinusMod(p, x, y), TimesMod(p, x, y)} \subseteq 0 .. (p - 1)
<1>1. x + y \in Int /\ x - y \in Int /\ x * y \in Int
  BY SMT
<1>2. PlusMod(p, x, y) \in 0 .. (p - 1)
  <2>. DEFINE z == x + y
  <2>1. z \in Int
    BY <1>1
  <2>. HIDE DEF z
  <2>2. z % p \in 0 .. (p - 1)
    BY <2>1, Remainder
  <2>. QED BY <2>2 DEF z, PlusMod
<1>3. MinusMod(p, x, y) \in 0 .. (p - 1)
  <2>. DEFINE z == x - y
  <2>1. z \in Int
    BY <1>1
  <2>. HIDE DEF z
  <2>2. z % p \in 0 .. (p - 1)
    BY <2>1, Remainder
  <2>. QED BY <2>2 DEF z, MinusMod
<1>4. TimesMod(p, x, y) \in 0 .. (p - 1)
  <2>. DEFINE z == x * y
  <2>1. z \in Int
    BY <1>1
  <2>. HIDE DEF z
  <2>2. z % p \in 0 .. (p - 1)
    BY <2>1, Remainder
  <2>. QED BY <2>2 DEF z, TimesMod
<1>. QED BY <1>2, <1>3, <1>4

\* Numbers with the same remainder can be exchanged in sums, differences and
\* products.
LEMMA Exchange ==
  ASSUME NEW p \in Nat, p > 0,
         NEW x \in Int, NEW x1 \in Int, x % p = x1 % p,
         NEW y \in Int, NEW y1 \in Int, y % p = y1 % p
  PROVE  /\ PlusMod(p, x, y) = PlusMod(p, x1, y1)
         /\ MinusMod(p, x, y) = MinusMod(p, x1, y1)
         /\ TimesMod(p, x, y) = TimesMod(p, x1, y1)
<1>1. PICK i \in Int : x = x1 + i * p
  BY SameRemainder
<1>2. PICK j \in Int : y = y1 + j * p
  BY SameRemainder
<1>3. x + y = (x1 + y1) + (i + j) * p /\ i + j \in Int
  BY <1>1, <1>2, SMT
<1>4. x - y = (x1 - y1) + (i - j) * p /\ i - j \in Int
  BY <1>1, <1>2, SMT
<1>5. x * y = x1 * y1 + (i * y1 + x1 * j + i * j * p) * p
  BY <1>1, <1>2, SMT
<1>6. i * y1 + x1 * j + i * j * p \in Int /\ x1 * y1 \in Int /\ x * y \in Int
  BY SMT
<1>7. (x + y) % p = (x1 + y1) % p
  <2>. DEFINE u == x + y  v == x1 + y1  k == i + j
  <2>1. u \in Int /\ v \in Int /\ k \in Int /\ u = v + k * p
    BY <1>3
  <2>. HIDE DEF u, v, k
  <2>2. u % p = v % p
    BY <2>1, SameRemainder
  <2>. QED BY <2>2 DEF u, v
<1>8. (x - y) % p = (x1 - y1) % p
  <2>. DEFINE u == x - y  v == x1 - y1  k == i - j
  <2>1. u \in Int /\ v \in Int /\ k \in Int /\ u = v + k * p
    BY <1>4
  <2>. HIDE DEF u, v, k
  <2>2. u % p = v % p
    BY <2>1, SameRemainder
  <2>. QED BY <2>2 DEF u, v
<1>9. (x * y) % p = (x1 * y1) % p
  <2>. DEFINE u == x * y  v == x1 * y1  k == i * y1 + x1 * j + i * j * p
  <2>1. u \in Int /\ v \in Int /\ k \in Int /\ u = v + k * p
    BY <1>5, <1>6
  <2>. HIDE DEF u, v, k
  <2>2. u % p = v % p
    BY <2>1, SameRemainder
  <2>. QED BY <2>2 DEF u, v
<1>. QED BY <1>7, <1>8, <1>9 DEF PlusMod, MinusMod, TimesMod

\* The same, of one operand.
LEMMA ExchangeOne ==
  ASSUME NEW p \in Nat, p > 0, NEW x \in Int, NEW x1 \in Int, x % p = x1 % p, NEW y \in Int
  PROVE  /\ PlusMod(p, x, y) = PlusMod(p, x1, y) /\ PlusMod(p, y, x) = PlusMod(p, y, x1)
         /\ MinusMod(p, x, y) = MinusMod(p, x1, y) /\ MinusMod(p, y, x) = MinusMod(p, y, x1)
         /\ TimesMod(p, x, y) = TimesMod(p, x1, y) /\ TimesMod(p, y, x) = TimesMod(p, y, x1)
BY Exchange

\* Taking the remainder of an operand first changes nothing.
LEMMA EarlyRemainder ==
  ASSUME NEW p \in Nat, p > 0, NEW x \in Int, NEW y \in Int
  PROVE  /\ PlusMod(p, x % p, y) = PlusMod(p, x, y) /\ PlusMod(p, y, x % p) = PlusMod(p, y, x)
         /\ MinusMod(p, x % p, y) = MinusMod(p, x, y) /\ MinusMod(p, y, x % p) = MinusMod(p, y, x)
         /\ TimesMod(p, x % p, y) = TimesMod(p, x, y) /\ TimesMod(p, y, x % p) = TimesMod(p, y, x)
<1>. DEFINE s == x % p
<1>1. s \in Int /\ s % p = x % p
  BY RemainderTwice
<1>. HIDE DEF s
<1>2. /\ PlusMod(p, s, y) = PlusMod(p, x, y) /\ PlusMod(p, y, s) = PlusMod(p, y, x)
      /\ MinusMod(p, s, y) = MinusMod(p, x, y) /\ MinusMod(p, y, s) = MinusMod(p, y, x)
      /\ TimesMod(p, s, y) = TimesMod(p, x, y) /\ TimesMod(p, y, s) = TimesMod(p, y, x)
  BY <1>1, ExchangeOne
<1>. QED BY <1>2 DEF s

\* The ring laws.
LEMMA TimesCommutes ==
  ASSUME NEW p, NEW x \in Int, NEW y \in Int
  PROVE  TimesMod(p, x, y) = TimesMod(p, y, x)
<1>1. x * y = y * x
  BY SMT
<1>. QED BY <1>1 DEF TimesMod

LEMMA TimesAssociates ==
  ASSUME NEW p \in Nat, p > 0, NEW x \in Int, NEW y \in Int, NEW z \in Int
  PROVE  TimesMod(p, TimesMod(p, x, y), z) = TimesMod(p, x, TimesMod(p, y, z))
<1>. DEFINE xy == x * y  yz == y * z
<1>1. xy \in Int /\ yz \in Int /\ xy * z = x * yz
  BY SMT
<1>2. /\ TimesMod(p, x, y) = xy % p /\ TimesMod(p, y, z) = yz % p
      /\ TimesMod(p, xy, z) = TimesMod(p, x, yz)
  BY <1>1 DEF TimesMod
<1>. HIDE DEF xy, yz
<1>3. TimesMod(p, xy % p, z) = TimesMod(p, xy, z) /\ TimesMod(p, x, yz % p) = TimesMod(p, x, yz)
  BY <1>1, EarlyRemainder
<1>. QED BY <1>2, <1>3

LEMMA TimesDistributes ==
  ASSUME NEW p \in Nat, p > 0, NEW x \in Int, NEW y \in Int, NEW z \in Int
  PROVE  /\ TimesMod(p, PlusMod(p, x, y), z) = PlusMod(p, TimesMod(p, x, z), TimesMod(p, y, z))
         /\ TimesMod(p, MinusMod(p, x, y), z) = MinusMod(p, TimesMod(p, x, z), TimesMod(p, y, z))
<1>. DEFINE yz == y * z  xz == x * z  sum == x + y  difference == x - y
<1>1. yz \in Int /\ xz \in Int /\ sum \in Int /\ difference \in Int
  BY SMT
<1>2. sum * z = xz + yz /\ difference * z = xz - yz
  BY SMT
<1>3. /\ TimesMod(p, y, z) = yz % p /\ TimesMod(p, x, z) = xz % p
      /\ PlusMod(p, x, y) = sum % p /\ MinusMod(p, x, y) = difference % p
      /\ TimesMod(p, sum, z) = PlusMod(p, xz, yz)
      /\ TimesMod(p, difference, z) = MinusMod(p, xz, yz)
  BY <1>2 DEF TimesMod, PlusMod, MinusMod
<1>. HIDE DEF yz, xz, sum, difference
<1>4. /\ TimesMod(p, sum % p, z) = TimesMod(p, sum, z)
      /\ TimesMod(p, difference % p, z) = TimesMod(p, difference, z)
  BY <1>1, EarlyRemainder
<1>5. /\ xz % p \in Int /\ (xz % p) % p = xz % p
      /\ yz % p \in Int /\ (yz % p) % p = yz % p
  BY <1>1, RemainderTwice
<1>6. /\ PlusMod(p, xz % p, yz % p) = PlusMod(p, xz, yz)
      /\ MinusMod(p, xz % p, yz % p) = MinusMod(p, xz, yz)
  BY <1>1, <1>5, Exchange
<1>. QED BY <1>3, <1>4, <1>6

-----------------------------------------------------------------------------
(***************************************************************************)
(* Inverses modulo a prime.                                                *)
(***************************************************************************)
IsPrime(p) == p \in Nat /\ p > 1 /\ \A d \in 2 .. (p - 1) : p % d # 0

(* A non-empty set of natural numbers has a least element.                 *)
LEMMA Least ==
  ASSUME NEW T, T \subseteq Nat, T # {}
  PROVE  \E m \in T : \A k \in T : m <= k
<1>. DEFINE smaller == {ss \in Nat \X Nat : ss[1] < ss[2]}
<1>1. IsWellFoundedOn(OpToRel(<, Nat), Nat)
  BY NatLessThanWellFounded
<1>2. OpToRel(<, Nat) = smaller
  BY DEF OpToRel
<1>3. IsWellFoundedOn(smaller, Nat)
  BY <1>1, <1>2
<1>4. \E x \in T : \A y \in T : ~(<<y, x>> \in smaller)
  <2>. HIDE DEF smaller
  <2>. QED BY <1>3, WFMin
<1>5. PICK m \in T : \A y \in T : ~(<<y, m>> \in smaller)
  BY <1>4
<1>6. ASSUME NEW k \in T PROVE m <= k
  <2>1. <<k, m>> \in Nat \X Nat /\ <<k, m>>[1] = k /\ <<k, m>>[2] = m
    OBVIOUS
  <2>2. ~(k < m)
    BY <2>1, <1>5
  <2>. QED BY <2>2
<1>. QED BY <1>6

(* The least positive multiple of a modulo p divides p, so it is 1.        *)
LEMMA InverseExists ==
  ASSUME NEW p, IsPrime(p), NEW a \in Int, a % p # 0
  PROVE  \E b \in 0 .. (p - 1) : TimesMod(p, a, b) = 1
<1>0. p \in Nat /\ p > 1 /\ p > 0 /\ \A d \in 2 .. (p - 1) : p % d # 0
  BY DEF IsPrime
<1>. DEFINE T == {c \in 1 .. (p - 1) : \E b \in Int : TimesMod(p, a, b) = c}
<1>1. a % p \in T
  <2>1. a % p \in 1 .. (p - 1)
    BY <1>0, Remainder
  <2>2. a * 1 = a
    OBVIOUS
  <2>3. TimesMod(p, a, 1) = a % p
    BY <2>2 DEF TimesMod
  <2>. QED BY <2>1, <2>3
<1>2. PICK m \in T : \A k \in T : m <= k
  <2>1. 1 .. (p - 1) \subseteq Nat
    BY <1>0
  <2>2. T \subseteq Nat /\ T # {}
    BY <1>1, <2>1, Zenon
  <2>. HIDE DEF T
  <2>. QED BY <2>2, Least
<1>3. PICK b \in Int : TimesMod(p, a, b) = m
  BY <1>2
<1>4. m \in 1 .. (p - 1)
  BY <1>2
<1>5. PICK k \in Int : p = (k * m) + (p % m)
  <2>1. m \in Nat /\ m > 0 /\ p \in Int
    BY <1>0, <1>4
  <2>. QED BY <2>1, Remainder
<1>6. p % m \in 0 .. (m - 1)
  <2>1. m \in Nat /\ m > 0 /\ p \in Int
    BY <1>0, <1>4
  <2>. QED BY <2>1, Remainder
<1>7. p % m = 0
  <2>. DEFINE s == p % m
  <2>. SUFFICES ASSUME s # 0 PROVE FALSE
    OBVIOUS
  <2>1. s \in 1 .. (p - 1) /\ s < m /\ p = (k * m) + s
    BY <1>4, <1>5, <1>6
  <2>. HIDE DEF s
  <2>. DEFINE c == 0 - k * b  ab == a * b
  <2>2. c \in Int /\ ab \in Int /\ a * c = 0 - k * ab
    BY SMT
  <2>3. PICK j \in Int : ab = j * p + m
    <3>1. ab % p = m
      BY <1>3 DEF TimesMod
    <3>. HIDE DEF ab
    <3>0. ab \in Int
      BY <2>2
    <3>2. PICK j \in Int : ab = (j * p) + (ab % p)
      BY <1>0, <3>0, Remainder
    <3>. QED BY <3>1, <3>2
  <2>4. a * c = (0 - 1 - k * j) * p + s /\ 0 - 1 - k * j \in Int
    <3>. HIDE DEF c, ab
    <3>1. k * ab = k * (j * p + m)
      BY <2>3
    <3>2. k * (j * p + m) = (k * j) * p + k * m
      BY <1>0, <1>4, SMT
    <3>3. (0 - 1 - k * j) * p = 0 - p - (k * j) * p /\ (k * j) * p \in Int /\ k * m \in Int
      BY <1>0, <1>4, SMT
    <3>4. k * j \in Int
      BY SMT
    <3>. QED BY <2>1, <2>2, <3>1, <3>2, <3>3, <3>4, <1>0
  <2>5. TimesMod(p, a, c) = s
    <3>. DEFINE q == 0 - 1 - k * j  ac == a * c
    <3>1. ac = (q * p) + s /\ q \in Int
      BY <2>4
    <3>. HIDE DEF q, ac
    <3>2. ac % p = s
      BY <1>0, <2>1, <3>1, RemainderOfSum
    <3>. QED BY <3>2 DEF ac, TimesMod
  <2>6. s \in T
    BY <2>1, <2>2, <2>5
  <2>. QED BY <1>2, <1>4, <2>1, <2>6
<1>8. m = 1
  BY <1>0, <1>4, <1>7
<1>9. b % p \in 0 .. (p - 1) /\ TimesMod(p, a, b % p) = 1
  <2>1. b % p \in 0 .. (p - 1)
    BY <1>0, Remainder
  <2>2. TimesMod(p, a, b % p) = TimesMod(p, a, b)
    BY <1>0, EarlyRemainder
  <2>. QED BY <1>3, <1>8, <2>1, <2>2
<1>. QED BY <1>9

(* A factor that has an inverse can be undone, so it can be cancelled.     *)
LEMMA Undo ==
  ASSUME NEW p \in Nat, p > 0, NEW a \in Int, NEW b \in Int, TimesMod(p, a, b) = 1 % p,
         NEW z \in Int
  PROVE  TimesMod(p, TimesMod(p, z, a), b) = z % p
<1>1. TimesMod(p, TimesMod(p, z, a), b) = TimesMod(p, z, TimesMod(p, a, b))
  BY TimesAssociates
<1>2. TimesMod(p, z, 1 % p) = TimesMod(p, z, 1)
  <2>1. PICK one \in Int : one = 1
    OBVIOUS
  <2>2. TimesMod(p, z, one % p) = TimesMod(p, z, one)
    BY EarlyRemainder
  <2>. QED BY <2>1, <2>2
<1>3. z * 1 = z
  OBVIOUS
<1>4. TimesMod(p, z, 1) = z % p
  BY <1>3 DEF TimesMod
<1>. QED BY <1>1, <1>2, <1>4

LEMMA Cancel ==
  ASSUME NEW p \in Nat, p > 0, NEW a \in Int, NEW b \in Int, TimesMod(p, a, b) = 1 % p,
         NEW x \in Int, NEW y \in Int, TimesMod(p, x, a) = TimesMod(p, y, a)
  PROVE  x % p = y % p
BY Undo

(* A product that is zero has a factor that is zero.                       *)
LEMMA NoZeroDivisors ==
  ASSUME NEW p, IsPrime(p), NEW x \in Int, NEW y \in Int, TimesMod(p, x, y) = 0
  PROVE  x % p = 0 \/ y % p = 0
<1>. SUFFICES ASSUME y % p # 0 PROVE x % p = 0
  OBVIOUS
<1>0. p \in Nat /\ p > 1
  BY DEF IsPrime
<1>1. PICK b \in 0 .. (p - 1) : TimesMod(p, y, b) = 1
  BY InverseExists
<1>2. 1 % p = 1 /\ 0 % p = 0
  <2>1. 0 * p = 0 /\ 0 + 1 = 1 /\ 0 + 0 = 0
    BY <1>0
  <2>2. ((0 * p) + 1) % p = 1 /\ ((0 * p) + 0) % p = 0
    BY <1>0, RemainderOfSum
  <2>. QED BY <2>1, <2>2
<1>3. TimesMod(p, 0, y) = 0
  <2>1. 0 * y = 0
    OBVIOUS
  <2>. QED BY <2>1, <1>2 DEF TimesMod
<1>4. x % p = 0 % p
  BY <1>0, <1>1, <1>2, <1>3, Cancel
<1>. QED BY <1>2, <1>4

(* Two products of two numbers each can be paired the other way.           *)
LEMMA TimesRegroups ==
  ASSUME NEW p \in Nat, p > 0, NEW a \in Int, NEW b \in Int, NEW c \in Int, NEW d \in Int
  PROVE  TimesMod(p, TimesMod(p, a, b), TimesMod(p, c, d)) = TimesMod(p, TimesMod(p, a, c), TimesMod(p, b, d))
<1>1. \A s, t, u, v \in Int :
        TimesMod(p, TimesMod(p, s, t), TimesMod(p, u, v)) = ((s * t) * (u * v)) % p
  <2>. TAKE s, t, u, v \in Int
  <2>. DEFINE st == s * t  uv == u * v
  <2>1. st \in Int /\ uv \in Int /\ TimesMod(p, s, t) = st % p /\ TimesMod(p, u, v) = uv % p
    BY SMT DEF TimesMod
  <2>. HIDE DEF st, uv
  <2>2. /\ st % p \in Int /\ (st % p) % p = st % p
        /\ uv % p \in Int /\ (uv % p) % p = uv % p
    BY <2>1, RemainderTwice
  <2>3. TimesMod(p, st % p, uv % p) = TimesMod(p, st, uv)
    <3>. DEFINE f == st % p  g == uv % p
    <3>1. f \in Int /\ f % p = st % p /\ g \in Int /\ g % p = uv % p
      BY <2>2
    <3>. HIDE DEF f, g
    <3>2. TimesMod(p, f, g) = TimesMod(p, st, uv)
      BY <2>1, <3>1, Exchange
    <3>. QED BY <3>2 DEF f, g
  <2>4. TimesMod(p, st, uv) = (st * uv) % p
    BY DEF TimesMod
  <2>. QED BY <2>1, <2>3, <2>4 DEF st, uv
<1>2. (a * b) * (c * d) = (a * c) * (b * d)
  BY SMT
<1>. QED BY <1>1, <1>2

\* Numbers below p are their own remainders.
LEMMA SmallRemainder ==
  ASSUME NEW p \in Nat, p > 0, NEW s \in 0 .. (p - 1)
  PROVE  s % p = s
<1>1. (0 * p) + s = s
  OBVIOUS
<1>. QED BY <1>1, RemainderOfSum

(* There is only one inverse below p.                                      *)
LEMMA InverseUnique ==
  ASSUME NEW p \in Nat, p > 1, NEW a \in Int,
         NEW b \in 0 .. (p - 1), TimesMod(p, a, b) = 1,
         NEW c \in 0 .. (p - 1), TimesMod(p, a, c) = 1
  PROVE  b = c
<1>1. 1 % p = 1 /\ b % p = b /\ c % p = c
  <2>1. 1 \in 0 .. (p - 1)
    OBVIOUS
  <2>. QED BY <2>1, SmallRemainder
<1>2. TimesMod(p, b, a) = TimesMod(p, c, a)
  BY TimesCommutes
<1>3. b % p = c % p
  <2>1. p > 0 /\ b \in Int /\ c \in Int /\ TimesMod(p, a, b) = 1 % p
    BY <1>1
  <2>. QED BY <1>2, <2>1, Cancel
<1>. QED BY <1>1, <1>3

\* Numbers whose difference is a multiple of p have the same remainder.
LEMMA ZeroDifference ==
  ASSUME NEW p \in Nat, p > 0, NEW u \in Int, NEW v \in Int
  PROVE  (u - v) % p = 0 <=> u % p = v % p
<1>. DEFINE d == u - v
<1>1. d \in Int /\ u = v + d
  OBVIOUS
<1>2. d % p = 0 <=> \E k \in Int : d = k * p
  <2>. HIDE DEF d
  <2>1. PICK zero \in Int : zero = 0
    OBVIOUS
  <2>2. zero % p = 0
    <3>1. 0 \in 0 .. (p - 1)
      OBVIOUS
    <3>. QED BY <2>1, <3>1, SmallRemainder
  <2>3. d % p = zero % p <=> \E k \in Int : d = zero + k * p
    BY <1>1, SameRemainder
  <2>4. \A k \in Int : zero + k * p = k * p
    <3>. TAKE k \in Int
    <3>1. k * p \in Int
      BY SMT
    <3>. QED BY <2>1, <3>1
  <2>. QED BY <2>2, <2>3, <2>4
<1>3. u % p = v % p <=> \E k \in Int : u = v + k * p
  BY SameRemainder
<1>4. \A k \in Int : u = v + k * p <=> d = k * p
  <2>. TAKE k \in Int
  <2>1. k * p \in Int
    BY SMT
  <2>. QED BY <2>1
<1>. QED BY <1>2, <1>3, <1>4

-----------------------------------------------------------------------------
(***************************************************************************)
(* What the functions of the precompiles compute, for every order n of a   *)
(* field or of a group with its precomputed constants, in each of the      *)
(* three texts.  A word w stands for the element decode(n, w) = w/R.       *)
(***************************************************************************)
IsOrder(n, nPrime, r2) ==
  /\ n < R /\ n > 2 /\ IsPrime(n)
  /\ Variant = "bn" => 2 * n <= R
  /\ nPrime \in Word /\ (n * nPrime) % R = R - 1
  /\ r2 = (R * R) % n

radixInverse(n) == CHOOSE z \in 0 .. (n - 1) : (R * z) % n = 1

encode(n, a) == TimesMod(n, a, R)
decode(n, w) == TimesMod(n, w, radixInverse(n))

LEMMA OrderFacts ==
  ASSUME NEW n, NEW nPrime, NEW r2, IsOrder(n, nPrime, r2)
  PROVE  /\ n \in Nat /\ n > 2 /\ n > 1 /\ n > 0 /\ n < R /\ n \in 1 .. (R - 1) /\ IsPrime(n)
         /\ R \in Nat /\ R > 1 /\ R > 0 /\ R \in Int
         /\ nPrime \in Word /\ nPrime \in Int /\ (n * nPrime) % R = R - 1
         /\ 0 % n = 0 /\ 1 % n = 1 /\ \A s \in 0 .. (n - 1) : s % n = s /\ s \in Int
         /\ 0 \in 0 .. (n - 1) /\ 1 \in 0 .. (n - 1)
<1>1. /\ n \in Nat /\ n > 2 /\ n < R /\ R \in Nat /\ nPrime \in Word /\ IsPrime(n)
      /\ (n * nPrime) % R = R - 1
  BY WordAssumption DEF IsOrder, IsPrime
<1>2. nPrime \in Int
  BY <1>1 DEF Word
<1>3. n > 1 /\ n > 0 /\ n \in 1 .. (R - 1) /\ R > 1 /\ R > 0 /\ R \in Int
  BY <1>1
<1>4. 0 \in 0 .. (n - 1) /\ 1 \in 0 .. (n - 1)
  BY <1>1
<1>5. \A s \in 0 .. (n - 1) : s % n = s /\ s \in Int
  BY <1>1, SmallRemainder
<1>. QED BY <1>1, <1>2, <1>3, <1>4, <1>5

\* The precomputed nPrime shows that R has an inverse modulo n.
LEMMA RadixInverts ==
  ASSUME NEW n, NEW nPrime, NEW r2, IsOrder(n, nPrime, r2)
  PROVE  /\ radixInverse(n) \in 0 .. (n - 1) /\ radixInverse(n) \in Int
         /\ TimesMod(n, R, radixInverse(n)) = 1 /\ TimesMod(n, radixInverse(n), R) = 1
<1>. DEFINE product == n * nPrime
<1>1. nPrime \in Int /\ product \in Int /\ product % R = R - 1
  <2>1. product \in Int
    BY OrderFacts, SMT
  <2>. QED BY <2>1, OrderFacts
<1>2. PICK c \in Int : product = (c * R) + (R - 1)
  <2>. HIDE DEF product
  <2>1. product \in Int /\ R \in Nat /\ R > 0
    BY <1>1, OrderFacts
  <2>2. PICK c \in Int : product = (c * R) + (product % R)
    BY <2>1, Remainder
  <2>. QED BY <1>1, <2>2
<1>. DEFINE z == c + 1
<1>3. z \in Int /\ R * z = (nPrime * n) + 1
  <2>0. n \in Int /\ R \in Int
    BY OrderFacts
  <2>1. R * (c + 1) = (c * R) + R /\ n * nPrime = nPrime * n /\ c * R \in Int
    BY <1>1, <2>0, SMT
  <2>. QED BY <1>2, <2>0, <2>1, <1>1
<1>. HIDE DEF z
<1>4. TimesMod(n, R, z) = 1
  <2>1. ((nPrime * n) + 1) % n = 1
    BY <1>1, OrderFacts, RemainderOfSum
  <2>. QED BY <1>3, <2>1 DEF TimesMod
<1>5. z % n \in 0 .. (n - 1) /\ TimesMod(n, R, z % n) = 1
  <2>1. z % n \in 0 .. (n - 1)
    BY <1>3, OrderFacts, Remainder
  <2>2. R \in Int
    BY OrderFacts
  <2>3. TimesMod(n, R, z % n) = TimesMod(n, R, z)
    BY <1>3, <2>2, OrderFacts, EarlyRemainder
  <2>. QED BY <1>4, <2>1, <2>3
<1>6. \E w \in 0 .. (n - 1) : (R * w) % n = 1
  BY <1>5 DEF TimesMod
<1>7. radixInverse(n) \in 0 .. (n - 1) /\ (R * radixInverse(n)) % n = 1
  BY <1>6 DEF radixInverse
<1>8. TimesMod(n, R, radixInverse(n)) = 1
  BY <1>7 DEF TimesMod
<1>. QED BY <1>7, <1>8, OrderFacts, TimesCommutes

\* Montgomery form is a bijection on the reduced words.
LEMMA EncodeDecode ==
  ASSUME NEW n, NEW nPrime, NEW r2, IsOrder(n, nPrime, r2), NEW a \in Int
  PROVE  /\ encode(n, a) \in 0 .. (n - 1) /\ decode(n, a) \in 0 .. (n - 1)
         /\ decode(n, encode(n, a)) = a % n /\ encode(n, decode(n, a)) = a % n
<1>1. encode(n, a) \in 0 .. (n - 1) /\ decode(n, a) \in 0 .. (n - 1)
  BY OrderFacts, RadixInverts, Closed DEF encode, decode
<1>2. TimesMod(n, R, radixInverse(n)) = 1 % n /\ TimesMod(n, radixInverse(n), R) = 1 % n
  BY OrderFacts, RadixInverts
<1>3. R \in Int /\ radixInverse(n) \in Int /\ n \in Nat /\ n > 0
  BY OrderFacts, RadixInverts
<1>4. /\ TimesMod(n, TimesMod(n, a, R), radixInverse(n)) = a % n
      /\ TimesMod(n, TimesMod(n, a, radixInverse(n)), R) = a % n
  BY <1>2, <1>3, Undo
<1>. QED BY <1>1, <1>4 DEF encode, decode

LEMMA DecodeInjective ==
  ASSUME NEW n, NEW nPrime, NEW r2, IsOrder(n, nPrime, r2)
  PROVE  /\ \A a, b \in 0 .. (n - 1) : decode(n, a) = decode(n, b) => a = b
         /\ decode(n, 0) = 0
<1>1. \A a \in 0 .. (n - 1) : encode(n, decode(n, a)) = a
  BY OrderFacts, EncodeDecode
<1>2. 0 * radixInverse(n) = 0
  BY RadixInverts
<1>. QED BY <1>1, <1>2, OrderFacts DEF decode, TimesMod

\* decode takes the operations on words to those on elements.
LEMMA DecodeOperations ==
  ASSUME NEW n, NEW nPrime, NEW r2, IsOrder(n, nPrime, r2), NEW a \in Int, NEW b \in Int
  PROVE  /\ decode(n, PlusMod(n, a, b)) = PlusMod(n, decode(n, a), decode(n, b))
         /\ decode(n, MinusMod(n, a, b)) = MinusMod(n, decode(n, a), decode(n, b))
         /\ decode(n, decode(n, TimesMod(n, a, b))) = TimesMod(n, decode(n, a), decode(n, b))
<1>. DEFINE i == radixInverse(n)
<1>1. i \in Int /\ n \in Nat /\ n > 0
  BY OrderFacts, RadixInverts
<1>. HIDE DEF i
<1>2. /\ TimesMod(n, PlusMod(n, a, b), i) = PlusMod(n, TimesMod(n, a, i), TimesMod(n, b, i))
      /\ TimesMod(n, MinusMod(n, a, b), i) = MinusMod(n, TimesMod(n, a, i), TimesMod(n, b, i))
  BY <1>1, TimesDistributes
<1>3. TimesMod(n, TimesMod(n, TimesMod(n, a, b), i), i) = TimesMod(n, TimesMod(n, a, i), TimesMod(n, b, i))
  <2>1. TimesMod(n, a, b) \in Int
    BY <1>1, Closed
  <2>2. TimesMod(n, TimesMod(n, TimesMod(n, a, b), i), i) = TimesMod(n, TimesMod(n, a, b), TimesMod(n, i, i))
    BY <1>1, <2>1, TimesAssociates
  <2>. QED BY <1>1, <2>2, TimesRegroups
<1>. QED BY <1>2, <1>3 DEF decode, i

\* A reduction divides by R modulo n, in each of the texts.
LEMMA ReductionValue ==
  ASSUME NEW n, NEW nPrime, NEW r2, IsOrder(n, nPrime, r2),
         NEW TLo \in Word, NEW THi \in 0 .. (n - 1)
  PROVE  REDC(TLo, THi, n, nPrime) = decode(n, THi * R + TLo)
<1>. DEFINE S == REDC(TLo, THi, n, nPrime)  T == THi * R + TLo
<1>2. IsReductionOf(S, TLo, THi, n)
  <2>1. nPrime \in Word /\ (n * nPrime) % R = R - 1 /\ n \in 1 .. (R - 1)
    BY OrderFacts
  <2>2. CASE Variant = "bn"
    <3>1. S = REDC_bn(TLo, THi, n, nPrime) /\ 2 * n <= R
      BY <2>2 DEF REDC, IsOrder
    <3>. QED BY <2>1, <3>1, REDC_bn_Correct
  <2>3. CASE Variant = "r1"
    <3>1. S = REDC_r1(TLo, THi, n, nPrime)
      BY <2>3 DEF REDC
    <3>. QED BY <2>1, <3>1, REDC_r1_Correct
  <2>4. CASE Variant = "k1"
    <3>1. S = REDC_k1(TLo, THi, n, nPrime)
      BY <2>4 DEF REDC
    <3>. QED BY <2>1, <3>1, REDC_k1_Correct
  <2>. QED BY <2>2, <2>3, <2>4, VariantAssumption
<1>3. S \in 0 .. (n - 1) /\ (S * R - T) % n = 0
  BY <1>2 DEF IsReductionOf, Divides
<1>4. T \in Int /\ S \in Int /\ R \in Int /\ n \in Nat /\ n > 0
  <2>1. TLo \in Int /\ THi \in Int /\ R \in Int
    BY OrderFacts DEF Word
  <2>2. T \in Int
    BY <2>1, SMT
  <2>. QED BY <1>3, <2>1, <2>2, OrderFacts
<1>. HIDE DEF S, T
<1>. DEFINE SR == S * R
<1>5. SR \in Int /\ SR % n = T % n
  <2>1. SR \in Int
    BY <1>4, SMT
  <2>. HIDE DEF SR
  <2>2. (SR - T) % n = 0 <=> SR % n = T % n
    BY <1>4, <2>1, ZeroDifference
  <2>. QED BY <1>3, <2>1, <2>2 DEF SR
<1>6. encode(n, S) = T % n
  BY <1>5 DEF TimesMod, encode
<1>7. decode(n, T % n) = decode(n, T)
  BY <1>4, RadixInverts, EarlyRemainder DEF decode
<1>8. decode(n, encode(n, S)) = S
  BY <1>3, <1>4, EncodeDecode, OrderFacts
<1>. QED BY <1>6, <1>7, <1>8 DEF S, T

\* The two halves of the product of a word and a reduced one.
LEMMA ProductHalves ==
  ASSUME NEW n, NEW nPrime, NEW r2, IsOrder(n, nPrime, r2),
         NEW a \in Word, NEW b \in 0 .. (n - 1)
  PROVE  /\ mul(a, b) \in Word
         /\ getHighestHalfOfMultiplication(a, b) \in 0 .. (n - 1)
         /\ getHighestHalfOfMultiplication(a, b) * R + mul(a, b) = a * b
<1>. DEFINE ab == a * b
<1>1. a \in 0 .. (R - 1) /\ b \in 0 .. (n - 1) /\ R > 0 /\ n < R /\ R \in Nat /\ n \in Nat
  BY OrderFacts DEF Word
<1>2. ab \in Nat /\ ab < n * R
  <2>1. ab \in Nat
    BY <1>1, SMT
  <2>2. ab <= R * b
    BY <1>1, SMT
  <2>3. R * b <= R * (n - 1)
    BY <1>1, SMT
  <2>4. R * (n - 1) < n * R
    BY <1>1, SMT
  <2>5. R * b \in Int /\ R * (n - 1) \in Int /\ n * R \in Int
    BY <1>1, SMT
  <2>. HIDE DEF ab
  <2>. QED BY <2>1, <2>2, <2>3, <2>4, <2>5
<1>. HIDE DEF ab
<1>3. /\ ab \div R \in Int /\ ab % R \in 0 .. (R - 1)
      /\ ab = R * (ab \div R) + (ab % R)
  BY <1>1, <1>2, DivMod
<1>4. PICK hi \in Int : hi = ab \div R
  BY <1>3
<1>5. PICK lo \in 0 .. (R - 1) : lo = ab % R
  BY <1>3
<1>6. hi \in 0 .. (n - 1)
  <2>1. ab = R * hi + lo /\ R * hi \in Int
    BY <1>1, <1>3, <1>4, <1>5, SMT
  <2>2. hi >= 0
    <3>. SUFFICES ASSUME hi <= -1
                  PROVE  FALSE
      OBVIOUS
    <3>1. R * hi <= R * (-1)
      BY <1>1, SMT
    <3>. QED BY <1>1, <1>2, <2>1, <3>1, SMT
  <2>3. hi < n
    <3>. SUFFICES ASSUME hi >= n
                  PROVE  FALSE
      BY <1>1
    <3>1. R * hi >= n * R
      BY <1>1, SMT
    <3>2. R * hi \in Int /\ n * R \in Int
      BY <1>1, SMT
    <3>. QED BY <1>1, <1>2, <2>1, <3>1, <3>2, SMT
  <2>. QED BY <1>1, <2>2, <2>3
<1>7. hi * R + lo = ab
  <2>1. hi * R = R * hi
    BY <1>1, SMT
  <2>. QED BY <1>3, <1>4, <1>5, <2>1
<1>. QED BY <1>4, <1>5, <1>6, <1>7
         DEF mul, getHighestHalfOfMultiplication, Word, ab

\* Products, and the ways into Montgomery form and out of it.
LEMMA ProductValue ==
  ASSUME NEW n, NEW nPrime, NEW r2, IsOrder(n, nPrime, r2),
         NEW a \in Word, NEW b \in 0 .. (n - 1)
  PROVE  /\ montgomeryMul(a, b, n, nPrime) = decode(n, a * b)
         /\ montgomeryMul(a, b, n, nPrime) = decode(n, TimesMod(n, a, b))
<1>. DEFINE lo == mul(a, b)  hi == getHighestHalfOfMultiplication(a, b)
<1>1. lo \in Word /\ hi \in 0 .. (n - 1) /\ hi * R + lo = a * b
  BY ProductHalves
<1>2. montgomeryMul(a, b, n, nPrime) = REDC(lo, hi, n, nPrime)
  BY DEF montgomeryMul
<1>3. montgomeryMul(a, b, n, nPrime) = decode(n, a * b)
  <2>. HIDE DEF lo, hi
  <2>. QED BY <1>1, <1>2, ReductionValue
<1>4. decode(n, a * b) = decode(n, TimesMod(n, a, b))
  <2>1. PICK ab \in Int : ab = a * b
    <3>1. a \in Int /\ b \in Int
      BY OrderFacts DEF Word
    <3>. QED BY <3>1, SMT
  <2>2. decode(n, ab) = decode(n, ab % n)
    BY OrderFacts, RadixInverts, EarlyRemainder DEF decode
  <2>. QED BY <2>1, <2>2 DEF TimesMod
<1>. QED BY <1>3, <1>4

LEMMA FormValue ==
  ASSUME NEW n, NEW nPrime, NEW r2, IsOrder(n, nPrime, r2), NEW a \in Word
  PROVE  /\ intoMontgomeryForm(a, n, nPrime, r2) = encode(n, a)
         /\ outOfMontgomeryForm(a, n, nPrime) = decode(n, a)
<1>0. a \in Int /\ n \in Nat /\ n > 0 /\ R \in Int /\ 0 \in 0 .. (n - 1)
  BY OrderFacts DEF Word
<1>1. PICK rr \in Int : rr = R * R
  BY <1>0, SMT
<1>2. r2 = rr % n /\ r2 \in 0 .. (n - 1) /\ r2 \in Int
  <2>1. r2 = rr % n
    BY <1>1 DEF IsOrder
  <2>. QED BY <1>0, <2>1, Remainder
<1>3. intoMontgomeryForm(a, n, nPrime, r2) = decode(n, TimesMod(n, a, r2))
  <2>1. intoMontgomeryForm(a, n, nPrime, r2) = montgomeryMul(a, r2, n, nPrime)
    BY DEF intoMontgomeryForm, montgomeryMul
  <2>. QED BY <1>2, <2>1, ProductValue
<1>4. TimesMod(n, a, r2) = encode(n, encode(n, a))
  <2>1. TimesMod(n, a, r2) = TimesMod(n, a, rr)
    BY <1>0, <1>2, EarlyRemainder
  <2>2. TimesMod(n, TimesMod(n, a, R), R) = TimesMod(n, a, TimesMod(n, R, R))
    BY <1>0, TimesAssociates
  <2>3. TimesMod(n, R, R) = r2
    BY <1>1, <1>2 DEF TimesMod
  <2>. QED BY <2>2, <2>3 DEF encode
<1>5. encode(n, a) \in 0 .. (n - 1) /\ encode(n, a) \in Int /\ encode(n, a) % n = encode(n, a)
  BY <1>0, EncodeDecode, OrderFacts
<1>6. decode(n, encode(n, encode(n, a))) = encode(n, a)
  BY <1>5, EncodeDecode
<1>7. outOfMontgomeryForm(a, n, nPrime) = decode(n, 0 * R + a)
  BY <1>0, ReductionValue DEF outOfMontgomeryForm
<1>8. 0 * R + a = a
  BY <1>0
<1>. QED BY <1>3, <1>4, <1>6, <1>7, <1>8

\* Sums and differences.
LEMMA SumValue ==
  ASSUME NEW n, NEW nPrime, NEW r2, IsOrder(n, nPrime, r2),
         NEW a \in 0 .. (n - 1), NEW b \in 0 .. (n - 1)
  PROVE  /\ montgomeryAdd(a, b, n) = PlusMod(n, a, b)
         /\ montgomerySub(a, b, n) = MinusMod(n, a, b)
<1>0. n \in Nat /\ n > 0 /\ R \in Nat /\ R > 0 /\ n < R
  BY OrderFacts
<1>1. \A s \in 0 .. (2 * n - 1) :
        (IF s >= n THEN sub(s, n) ELSE s) = s % n
  <2>. TAKE s \in 0 .. (2 * n - 1)
  <2>1. CASE s < n
    <3>1. s \in 0 .. (n - 1)
      BY <1>0, <2>1
    <3>. QED BY <1>0, <2>1, <3>1, SmallRemainder
  <2>2. CASE s >= n
    <3>1. s - n \in 0 .. (n - 1) /\ s - n \in 0 .. (R - 1)
      BY <1>0, <2>2
    <3>2. sub(s, n) = s - n
      BY <1>0, <3>1, SmallRemainder DEF sub
    <3>3. s = 1 * n + (s - n)
      BY <1>0
    <3>4. PICK e \in 0 .. (n - 1) : e = s - n
      BY <3>1
    <3>5. PICK one \in Int : one = 1
      OBVIOUS
    <3>6. (one * n + e) % n = e
      BY <1>0, RemainderOfSum
    <3>. QED BY <2>2, <3>2, <3>3, <3>4, <3>5, <3>6
  <2>. QED BY <1>0, <2>1, <2>2
<1>2. \A x \in 0 .. (n - 1), y \in 0 .. n : montgomeryAdd(x, y, n) = (x + y) % n
  <2>. TAKE x \in 0 .. (n - 1), y \in 0 .. n
  <2>1. CASE Variant = "bn"
    <3>1. 2 * n <= R
      BY <2>1 DEF IsOrder
    <3>2. x + y \in 0 .. (2 * n - 1) /\ x + y \in 0 .. (R - 1)
      BY <1>0, <3>1
    <3>3. add(x, y) = x + y
      BY <1>0, <3>2, SmallRemainder DEF add
    <3>. QED BY <1>1, <2>1, <3>2, <3>3 DEF montgomeryAdd
  <2>2. CASE Variant # "bn"
    BY <2>2 DEF montgomeryAdd, addmod
  <2>. QED BY <2>1, <2>2
<1>3. montgomeryAdd(a, b, n) = (a + b) % n
  <2>1. b \in 0 .. n
    BY <1>0
  <2>. QED BY <1>2, <2>1
<1>4. montgomerySub(a, b, n) = (a - b) % n
  <2>1. a \in Int /\ b \in Int /\ n - b \in 0 .. n /\ n - b \in 0 .. (R - 1)
    BY <1>0
  <2>2. sub(n, b) = n - b
    BY <1>0, <2>1, SmallRemainder DEF sub
  <2>3. montgomerySub(a, b, n) = (a + (n - b)) % n
    BY <1>2, <2>1, <2>2 DEF montgomerySub
  <2>4. PICK c \in Int : c = a + (n - b)
    BY <1>0, <2>1
  <2>5. PICK e \in Int : e = a - b
    BY <2>1
  <2>6. c = e + 1 * n
    BY <1>0, <2>1, <2>4, <2>5
  <2>7. c % n = e % n
    BY <1>0, <2>4, <2>5, <2>6, SameRemainder
  <2>. QED BY <2>3, <2>4, <2>5, <2>7
<1>. QED BY <1>3, <1>4 DEF PlusMod, MinusMod

\* What montgomeryModularInverse is to find: the one reduced i with a*i = R^2,
\* which stands for the inverse of the element that a stands for.
LEMMA InverseValue ==
  ASSUME NEW n, NEW nPrime, NEW r2, IsOrder(n, nPrime, r2), NEW a \in 1 .. (n - 1)
  PROVE  LET i == montgomeryModularInverse(a, n, r2)
         IN  /\ i \in 0 .. (n - 1)
             /\ i = CHOOSE j \in 0 .. (n - 1) : (a * j - R * R) % n = 0
             /\ TimesMod(n, decode(n, a), decode(n, i)) = 1
<1>1. a \in Int /\ a \in 0 .. (n - 1) /\ a % n # 0 /\ R \in Int /\ n \in Nat /\ n > 0
  BY OrderFacts
<1>2. PICK rr \in Int : rr = R * R
  BY <1>1, SMT
<1>3. r2 = rr % n /\ r2 \in Int
  <2>1. r2 = rr % n
    BY <1>2 DEF IsOrder
  <2>. QED BY <1>1, <1>2, <2>1, RemainderTwice
<1>. DEFINE solves(j) == (a * j - R * R) % n = 0
<1>4. \A j \in 0 .. (n - 1) : /\ solves(j) <=> Divides(n, a * j - r2)
                              /\ solves(j) <=> TimesMod(n, a, j) = rr % n
  <2>. TAKE j \in 0 .. (n - 1)
  <2>1. PICK aj \in Int : aj = a * j
    BY <1>1, SMT
  <2>2. MinusMod(n, aj, rr % n) = MinusMod(n, aj, rr)
    BY <1>1, <1>2, <2>1, EarlyRemainder
  <2>3. (aj - rr) % n = 0 <=> aj % n = rr % n
    BY <1>1, ZeroDifference
  <2>. QED BY <1>2, <1>3, <2>1, <2>2, <2>3 DEF MinusMod, Divides, TimesMod
<1>5. PICK b \in 0 .. (n - 1) : TimesMod(n, a, b) = 1
  BY <1>1, OrderFacts, InverseExists
<1>6. ASSUME NEW i \in 0 .. (n - 1), NEW j \in 0 .. (n - 1), solves(i), solves(j)
      PROVE  i = j
  <2>1. i \in Int /\ j \in Int /\ i % n = i /\ j % n = j /\ b \in Int
    BY OrderFacts
  <2>2. TimesMod(n, i, a) = TimesMod(n, j, a)
    BY <1>1, <1>4, <1>6, <2>1, TimesCommutes
  <2>3. TimesMod(n, a, b) = 1 % n
    BY <1>5, OrderFacts
  <2>4. i % n = j % n
    BY <1>1, <2>1, <2>2, <2>3, Cancel
  <2>. QED BY <2>1, <2>4
<1>7. PICK c \in 0 .. (n - 1) : solves(c)
  <2>1. PICK d \in Int : d = b * rr
    <3>1. b \in Int
      BY OrderFacts
    <3>. QED BY <1>2, <3>1, SMT
  <2>2. d % n \in 0 .. (n - 1)
    BY <1>1, <2>1, Remainder
  <2>3. TimesMod(n, a, d % n) = TimesMod(n, a, d)
    BY <1>1, <2>1, EarlyRemainder
  <2>4. b \in Int /\ rr \in Int /\ 1 * rr = rr
    BY <1>2, OrderFacts
  <2>5. TimesMod(n, TimesMod(n, a, b), rr) = TimesMod(n, a, TimesMod(n, b, rr))
    BY <1>1, <2>4, TimesAssociates
  <2>6. TimesMod(n, a, TimesMod(n, b, rr)) = TimesMod(n, a, d)
    BY <2>1, <2>3 DEF TimesMod
  <2>7. TimesMod(n, a, d % n) = rr % n
    BY <1>5, <2>3, <2>4, <2>5, <2>6 DEF TimesMod
  <2>. QED BY <1>4, <2>2, <2>7
<1>. HIDE DEF solves
<1>8. montgomeryModularInverse(a, n, r2) = c
  <2>. DEFINE chosen == montgomeryModularInverse(a, n, r2)
  <2>1. chosen = CHOOSE i \in 0 .. (n - 1) : Divides(n, a * i - r2)
    BY DEF montgomeryModularInverse
  <2>2. chosen \in 0 .. (n - 1) /\ Divides(n, a * chosen - r2)
    BY <1>4, <1>7, <2>1
  <2>. QED BY <1>4, <1>6, <1>7, <2>2
<1>9. c = CHOOSE j \in 0 .. (n - 1) : (a * j - R * R) % n = 0
  <2>. DEFINE chosen == CHOOSE j \in 0 .. (n - 1) : solves(j)
  <2>1. chosen \in 0 .. (n - 1) /\ solves(chosen)
    BY <1>7
  <2>2. chosen = c
    BY <1>6, <1>7, <2>1
  <2>. QED BY <2>2 DEF solves
<1>10. TimesMod(n, decode(n, a), decode(n, c)) = 1
  <2>0. c \in Int
    BY OrderFacts
  <2>1. TimesMod(n, decode(n, a), decode(n, c)) = decode(n, decode(n, TimesMod(n, a, c)))
    BY <1>1, <2>0, DecodeOperations
  <2>2. TimesMod(n, a, c) = encode(n, encode(n, 1))
    <3>1. TimesMod(n, a, c) = rr % n
      BY <1>4, <1>7
    <3>2. encode(n, 1) = R % n
      BY <1>1 DEF encode, TimesMod
    <3>3. TimesMod(n, R % n, R) = TimesMod(n, R, R)
      BY <1>1, EarlyRemainder
    <3>. QED BY <1>2, <3>1, <3>2, <3>3 DEF encode, TimesMod
  <2>3. encode(n, 1) \in 0 .. (n - 1) /\ encode(n, 1) \in Int /\ encode(n, 1) % n = encode(n, 1)
    BY EncodeDecode, OrderFacts
  <2>4. decode(n, encode(n, encode(n, 1))) = encode(n, 1) /\ decode(n, encode(n, 1)) = 1
    BY <2>3, EncodeDecode, OrderFacts
  <2>. QED BY <2>1, <2>2, <2>4
<1>. QED BY <1>8, <1>9, <1>10

\* The routines in any order, for a word w in Montgomery form and an operand x:
\* their results are reduced and, out of Montgomery form, those of the field.
LEMMA WordsImplementField ==
  ASSUME NEW n, NEW nPrime, NEW r2, IsOrder(n, nPrime, r2), NEW w \in 0 .. (n - 1)
  PROVE
    /\ outOfMontgomeryForm(w, n, nPrime) \in 0 .. (n - 1)
    /\ \A x \in Word :
         /\ intoMontgomeryForm(x, n, nPrime, r2) \in 0 .. (n - 1)
         /\ outOfMontgomeryForm(intoMontgomeryForm(x, n, nPrime, r2), n, nPrime) = x % n
    /\ \A x \in 0 .. (n - 1) :
         LET e          == intoMontgomeryForm(x, n, nPrime, r2)
             sum        == montgomeryAdd(w, e, n)
             difference == montgomerySub(w, e, n)
             product    == montgomeryMul(w, e, n, nPrime)
             quotient   == montgomeryDiv(w, e, n, nPrime, r2)
         IN  /\ w = e <=> outOfMontgomeryForm(w, n, nPrime) = x
             /\ sum \in 0 .. (n - 1)
             /\ outOfMontgomeryForm(sum, n, nPrime) = (outOfMontgomeryForm(w, n, nPrime) + x) % n
             /\ difference \in 0 .. (n - 1)
             /\ outOfMontgomeryForm(difference, n, nPrime)
                  = (outOfMontgomeryForm(w, n, nPrime) - x) % n
             /\ product \in 0 .. (n - 1)
             /\ outOfMontgomeryForm(product, n, nPrime)
                  = (outOfMontgomeryForm(w, n, nPrime) * x) % n
             /\ x # 0 =>
                  /\ quotient \in 0 .. (n - 1)
                  /\ (outOfMontgomeryForm(quotient, n, nPrime) * x) % n
                       = outOfMontgomeryForm(w, n, nPrime)
<1>0. n \in Nat /\ n > 0 /\ \A y \in 0 .. (n - 1) : y \in Word /\ y \in Int /\ y % n = y
  <2>1. n \in Nat /\ n > 0 /\ n < R /\ R \in Nat
    BY OrderFacts
  <2>2. \A y \in 0 .. (n - 1) : y \in Word /\ y \in Int
    BY <2>1 DEF Word
  <2>. QED BY <2>1, <2>2, OrderFacts
<1>1. \A x \in Word : /\ x \in Int /\ intoMontgomeryForm(x, n, nPrime, r2) = encode(n, x)
                      /\ encode(n, x) \in 0 .. (n - 1)
                      /\ decode(n, encode(n, x)) = x % n
  <2>. TAKE x \in Word
  <2>1. x \in Int
    BY OrderFacts DEF Word
  <2>. QED BY <2>1, FormValue, EncodeDecode
<1>2. \A y \in 0 .. (n - 1) : /\ outOfMontgomeryForm(y, n, nPrime) = decode(n, y)
                              /\ decode(n, y) \in 0 .. (n - 1) /\ decode(n, y) \in Int
  <2>. TAKE y \in 0 .. (n - 1)
  <2>1. outOfMontgomeryForm(y, n, nPrime) = decode(n, y)
    BY <1>0, FormValue
  <2>2. decode(n, y) \in 0 .. (n - 1)
    BY <1>0, EncodeDecode
  <2>. QED BY <1>0, <2>1, <2>2
<1>3. ASSUME NEW x \in 0 .. (n - 1)
      PROVE  LET e          == intoMontgomeryForm(x, n, nPrime, r2)
                 sum        == montgomeryAdd(w, e, n)
                 difference == montgomerySub(w, e, n)
                 product    == montgomeryMul(w, e, n, nPrime)
                 quotient   == montgomeryDiv(w, e, n, nPrime, r2)
             IN  /\ w = e <=> outOfMontgomeryForm(w, n, nPrime) = x
                 /\ sum \in 0 .. (n - 1)
                 /\ outOfMontgomeryForm(sum, n, nPrime) = (outOfMontgomeryForm(w, n, nPrime) + x) % n
                 /\ difference \in 0 .. (n - 1)
                 /\ outOfMontgomeryForm(difference, n, nPrime)
                      = (outOfMontgomeryForm(w, n, nPrime) - x) % n
                 /\ product \in 0 .. (n - 1)
                 /\ outOfMontgomeryForm(product, n, nPrime)
                      = (outOfMontgomeryForm(w, n, nPrime) * x) % n
                 /\ x # 0 =>
                      /\ quotient \in 0 .. (n - 1)
                      /\ (outOfMontgomeryForm(quotient, n, nPrime) * x) % n
                           = outOfMontgomeryForm(w, n, nPrime)
  <2>. DEFINE e        == intoMontgomeryForm(x, n, nPrime, r2)
              sum        == montgomeryAdd(w, e, n)
              difference == montgomerySub(w, e, n)
              product    == montgomeryMul(w, e, n, nPrime)
              quotient   == montgomeryDiv(w, e, n, nPrime, r2)
  <2>1. e \in 0 .. (n - 1) /\ e \in Int /\ decode(n, e) = x /\ x \in Int /\ w \in Int /\ w \in Word
    BY <1>0, <1>1
  <2>. HIDE DEF e
  <2>2. w = e <=> outOfMontgomeryForm(w, n, nPrime) = x
    BY <1>2, <2>1, DecodeInjective
  <2>3. /\ sum = PlusMod(n, w, e) /\ difference = MinusMod(n, w, e)
        /\ product = decode(n, TimesMod(n, w, e))
    BY <2>1, SumValue, ProductValue
  <2>4. /\ sum \in 0 .. (n - 1) /\ difference \in 0 .. (n - 1) /\ TimesMod(n, w, e) \in Int
    <3>1. {PlusMod(n, w, e), MinusMod(n, w, e), TimesMod(n, w, e)} \subseteq 0 .. (n - 1)
      BY <1>0, <2>1, Closed
    <3>. QED BY <1>0, <2>3, <3>1
  <2>5. product \in 0 .. (n - 1)
    BY <2>3, <2>4, EncodeDecode
  <2>6. /\ decode(n, sum) = PlusMod(n, decode(n, w), x)
        /\ decode(n, difference) = MinusMod(n, decode(n, w), x)
        /\ decode(n, product) = TimesMod(n, decode(n, w), x)
    BY <2>1, <2>3, DecodeOperations
  <2>7. ASSUME x # 0
        PROVE  quotient \in 0 .. (n - 1) /\ TimesMod(n, decode(n, quotient), x) = decode(n, w)
    <3>. DEFINE i == montgomeryModularInverse(e, n, r2)
    <3>1. e # 0
      BY <2>1, <2>7, DecodeInjective
    <3>2. e \in 1 .. (n - 1)
      BY <1>0, <2>1, <3>1
    <3>3. i \in 0 .. (n - 1) /\ TimesMod(n, x, decode(n, i)) = 1
      BY <2>1, <3>2, InverseValue
    <3>4. quotient = montgomeryMul(w, i, n, nPrime)
      BY DEF montgomeryDiv
    <3>. HIDE DEF i, quotient
    <3>5. i \in Int /\ decode(n, i) \in Int /\ decode(n, w) \in Int /\ decode(n, w) % n = decode(n, w)
      BY <1>0, <1>2, <3>3
    <3>6. quotient = decode(n, TimesMod(n, w, i)) /\ TimesMod(n, w, i) \in Int
      <4>1. TimesMod(n, w, i) \in 0 .. (n - 1)
        BY <1>0, <2>1, <3>5, Closed
      <4>. QED BY <1>0, <2>1, <3>3, <3>4, <4>1, ProductValue
    <3>7. quotient \in 0 .. (n - 1)
      BY <3>6, EncodeDecode
    <3>8. decode(n, quotient) = TimesMod(n, decode(n, w), decode(n, i))
      BY <2>1, <3>5, <3>6, DecodeOperations
    <3>9. TimesMod(n, decode(n, i), x) = 1 % n
      <4>1. TimesMod(n, decode(n, i), x) = 1
        BY <2>1, <3>3, <3>5, TimesCommutes
      <4>. QED BY <4>1, OrderFacts
    <3>10. TimesMod(n, TimesMod(n, decode(n, w), decode(n, i)), x) = decode(n, w) % n
      BY <1>0, <2>1, <3>5, <3>9, Undo
    <3>. QED BY <3>5, <3>7, <3>8, <3>10
  <2>. HIDE DEF sum, difference, product, quotient
  <2>8. /\ outOfMontgomeryForm(sum, n, nPrime) = (outOfMontgomeryForm(w, n, nPrime) + x) % n
        /\ outOfMontgomeryForm(difference, n, nPrime) = (outOfMontgomeryForm(w, n, nPrime) - x) % n
        /\ outOfMontgomeryForm(product, n, nPrime) = (outOfMontgomeryForm(w, n, nPrime) * x) % n
    BY <1>2, <2>4, <2>5, <2>6 DEF PlusMod, MinusMod, TimesMod
  <2>9. x # 0 =>
          /\ quotient \in 0 .. (n - 1)
          /\ (outOfMontgomeryForm(quotient, n, nPrime) * x) % n = outOfMontgomeryForm(w, n, nPrime)
    BY <1>2, <2>7 DEF TimesMod
  <2>. QED BY <2>2, <2>4, <2>5, <2>8, <2>9 DEF e, sum, difference, product, quotient
<1>4. \A x \in Word :
        /\ intoMontgomeryForm(x, n, nPrime, r2) \in 0 .. (n - 1)
        /\ outOfMontgomeryForm(intoMontgomeryForm(x, n, nPrime, r2), n, nPrime) = x % n
  BY <1>1, <1>2
<1>. QED BY <1>2, <1>3, <1>4
=============================================================================
