----------------------------- MODULE CurveProofs -----------------------------
(***************************************************************************)
(* The curve group that the precompiles are compared with: elements of the *)
(* field as numbers modulo P and as words in Montgomery form, the chord    *)
(* and the tangent, multiples of a point, and projective coordinates.      *)
(***************************************************************************)
EXTENDS WeierstrassGroup, MontgomeryProofs, FiniteSetTheorems

-----------------------------------------------------------------------------
(***************************************************************************)
(* Numbers modulo P.                                                       *)
(***************************************************************************)

\* P is an odd prime, and its residues are numbers.
LEMMA PrimeFacts ==
  /\ P \in Nat /\ P > 3 /\ P > 0 /\ P \in Int /\ IsPrime(P)
  /\ F = 0 .. (P - 1) /\ F \subseteq Int /\ A \in F /\ B \in F /\ 0 \in F
  /\ \A a \in F : a % P = a
  /\ \A e \in Int : e % P \in F
<1>1. /\ P \in Nat /\ P > 3 /\ P > 0 /\ P \in Int /\ IsPrime(P) /\ A \in F /\ B \in F
      /\ F = 0 .. (P - 1) /\ F \subseteq Int /\ 0 \in F
  BY CurveAssumption DEF IsPrime, F
<1>2. \A a \in F : a % P = a  BY <1>1, SmallRemainder
<1>3. \A e \in Int : e % P \in F  BY <1>1, Remainder
<1> QED  BY <1>1, <1>2, <1>3

(* Numbers that stand for the same element of the field. *)
Same(e, f) == e \in Int /\ f \in Int /\ e % P = f % P

\* Such numbers can be exchanged.
LEMMA SameLaws ==
  /\ \A e \in Int : Same(e, e)
  /\ \A e, f : Same(e, f) => Same(f, e)
  /\ \A e, f, g : Same(e, f) /\ Same(f, g) => Same(e, g)
  /\ \A e, f, g, h : Same(e, f) /\ Same(g, h) =>
       Same(e + g, f + h) /\ Same(e - g, f - h) /\ Same(e * g, f * h)
<1>1. ASSUME NEW e, NEW f, NEW g, NEW h, Same(e, f), Same(g, h)
      PROVE  Same(e + g, f + h) /\ Same(e - g, f - h) /\ Same(e * g, f * h)
  <2>1. /\ e \in Int /\ f \in Int /\ g \in Int /\ h \in Int
        /\ e % P = f % P /\ g % P = h % P
    BY <1>1 DEF Same
  <2>2. /\ PlusMod(P, e, g) = PlusMod(P, f, h) /\ MinusMod(P, e, g) = MinusMod(P, f, h)
        /\ TimesMod(P, e, g) = TimesMod(P, f, h)
    <3>1. P \in Nat /\ P > 0  BY PrimeFacts
    <3> QED  BY <2>1, <3>1, Exchange
  <2>3. e * g \in Int /\ f * h \in Int  BY <2>1
  <2> QED  BY <2>1, <2>2, <2>3 DEF Same, PlusMod, MinusMod, TimesMod
<1> QED  BY <1>1 DEF Same

\* A multiple of such numbers.
LEMMA SameTimes ==
  ASSUME NEW e, NEW f, NEW c \in Int, Same(e, f)
  PROVE  Same(c * e, c * f) /\ Same(e * c, f * c)
<1>1. Same(c, c)  BY SameLaws
<1>2. \A a, b, g, h : Same(a, b) /\ Same(g, h) => Same(a * g, b * h)  BY SameLaws
<1> QED  BY <1>1, <1>2

(* Numbers e and f that are c times the difference of a and b apart.       *)
Apart(e, f, c, a, b) == e = f + c * (a - b)

\* Numbers that differ by multiples of equal elements: how an equation follows
\* from others, given the multiples.
LEMMA Combine ==
  ASSUME NEW e \in Int, NEW f \in Int, NEW a, NEW b, NEW c \in Int, Same(a, b),
         Apart(e, f, c, a, b)
  PROVE  Same(e, f)
<1>1. a \in Int /\ b \in Int  BY DEF Same
<1>2. Same(c * a, c * b)  BY SameTimes
<1>3. c * a \in Int /\ c * b \in Int /\ f - c * b \in Int  BY <1>1
<1>4. Same(f - c * b, f - c * b)  BY <1>3, SameLaws
<1>5. Same((f - c * b) + c * a, (f - c * b) + c * b)
  <2>1. \A u, v, g, h : Same(u, v) /\ Same(g, h) => Same(u + g, v + h)  BY SameLaws
  <2> QED  BY <1>2, <1>4, <2>1
<1>6. (f - c * b) + c * b = f  BY <1>3
<1>7. (f - c * b) + c * a = e
  <2>1. c * (a - b) = c * a - c * b  BY <1>1, SMT
  <2> QED  BY <1>3, <2>1 DEF Apart
<1> QED  BY <1>5, <1>6, <1>7

\* A residue is the one number of F that stands for an element.
LEMMA SameResidue ==
  /\ \A a, b \in F : Same(a, b) => a = b
  /\ \A e \in Int : Same(e % P, e) /\ Same(e, e % P)
<1>1. \A e \in Int : (e % P) % P = e % P /\ e % P \in Int  BY PrimeFacts, RemainderTwice
<1> QED  BY <1>1, PrimeFacts DEF Same

\* A product is zero only if a factor is.
LEMMA SameZero ==
  ASSUME NEW e \in Int, NEW f \in Int, Same(e * f, 0)
  PROVE  Same(e, 0) \/ Same(f, 0)
<1>1. 0 % P = 0  BY PrimeFacts
<1>2. TimesMod(P, e, f) = 0  BY <1>1 DEF Same, TimesMod
<1>3. e % P = 0 \/ f % P = 0  BY <1>2, PrimeFacts, NoZeroDivisors
<1> QED  BY <1>1, <1>3 DEF Same

\* A factor that is not zero can be cancelled.
LEMMA SameCancels ==
  ASSUME NEW e \in Int, NEW f \in Int, NEW c \in Int, ~Same(c, 0), Same(e * c, f * c)
  PROVE  Same(e, f)
<1>1. e % P \in Int /\ f % P \in Int /\ e * c \in Int /\ f * c \in Int /\ e - f \in Int
      /\ (e - f) * c \in Int /\ 0 % P = 0
  BY PrimeFacts
<1>2. \A u, v \in Int : Same(u, v) => Same(u - v, v - v)  BY SameLaws
<1>3. e * c - f * c = (e - f) * c /\ f * c - f * c = 0  BY SMT
<1>4. Same((e - f) * c, 0)  BY <1>1, <1>2, <1>3
<1>5. Same(e - f, 0)  BY <1>1, <1>4, SameZero
<1>6. (e - f) % P = 0  BY <1>1, <1>5 DEF Same
<1>7. P \in Nat /\ P > 0  BY PrimeFacts
<1> QED  BY <1>6, <1>7, ZeroDifference DEF Same

\* Two and four are not zero.
LEMMA SmallNumbers ==
  /\ ~Same(2, 0)
  /\ \A e \in Int : Same(2 * e, 0) => Same(e, 0)
<1>1. 2 % P = 2 /\ 0 % P = 0  BY PrimeFacts
<1>2. ~Same(2, 0)  BY <1>1 DEF Same
<1>3. ASSUME NEW e \in Int, Same(2 * e, 0) PROVE Same(e, 0)  BY <1>2, <1>3, SameZero
<1> QED  BY <1>2, <1>3

\* A product of numbers that are not zero is not.
LEMMA NotZero ==
  /\ \A e, f \in Int : ~Same(e, 0) /\ ~Same(f, 0) => ~Same(e * f, 0)
  /\ ~Same(8, 0)
<1>1. \A e, f \in Int : ~Same(e, 0) /\ ~Same(f, 0) => ~Same(e * f, 0)
  BY SameZero
<1>2. ~Same(2 * (2 * 2), 0)  BY SmallNumbers
<1>3. 2 * (2 * 2) = 8  OBVIOUS
<1> QED  BY <1>1, <1>2, <1>3

(* What a word in Montgomery form stands for. *)
Means(w, e) == w \in F /\ e \in Int /\ decode(P, w) = e % P

(* Words have a Montgomery form. *)
HasForm == \E nPrime, r2 : IsOrder(P, nPrime, r2)

\* Every word stands for its element, and only zero for zero.
LEMMA WordMeans ==
  ASSUME HasForm, NEW w \in F
  PROVE  /\ decode(P, w) \in F /\ Means(w, decode(P, w))
         /\ \A e \in Int : Means(w, e) => (w = 0 <=> Same(e, 0))
         /\ \A e, f : Means(w, e) /\ Same(e, f) => Means(w, f)
<1>1. PICK nPrime, r2 : IsOrder(P, nPrime, r2)  BY DEF HasForm
<1>2. decode(P, w) \in F /\ w \in Int  BY <1>1, PrimeFacts, EncodeDecode
<1>3. decode(P, 0) = 0 /\ \A a, b \in F : decode(P, a) = decode(P, b) => a = b
  BY <1>1, DecodeInjective, PrimeFacts
<1>4. Means(w, decode(P, w))  BY <1>2, PrimeFacts DEF Means
<1>5. ASSUME NEW e \in Int, Means(w, e) PROVE w = 0 <=> Same(e, 0)
  <2>1. 0 % P = 0 /\ 0 \in F  BY PrimeFacts
  <2> QED  BY <1>3, <1>5, <2>1 DEF Means, Same
<1> QED  BY <1>2, <1>4, <1>5 DEF Means, Same

\* The operations on words stand for those on numbers.
LEMMA MeansOperations ==
  ASSUME HasForm, NEW a, NEW b, NEW e, NEW f, Means(a, e), Means(b, f)
  PROVE  /\ Means(PlusMod(P, a, b), e + f) /\ Means(MinusMod(P, a, b), e - f)
         /\ Means(decode(P, TimesMod(P, a, b)), e * f)
<1>1. PICK nPrime, r2 : IsOrder(P, nPrime, r2)  BY DEF HasForm
<1>2. /\ a \in F /\ b \in F /\ a \in Int /\ b \in Int /\ e \in Int /\ f \in Int
      /\ decode(P, a) = e % P /\ decode(P, b) = f % P
  BY PrimeFacts DEF Means
<1>3. e % P \in Int /\ f % P \in Int /\ e * f \in Int  BY <1>2, PrimeFacts
<1>4. /\ PlusMod(P, e % P, f % P) = PlusMod(P, e, f)
      /\ MinusMod(P, e % P, f % P) = MinusMod(P, e, f)
      /\ TimesMod(P, e % P, f % P) = TimesMod(P, e, f)
  <2>1. P \in Nat /\ P > 0  BY PrimeFacts
  <2>2. (e % P) % P = e % P /\ (f % P) % P = f % P  BY <1>2, <2>1, RemainderTwice
  <2> QED  BY <1>2, <1>3, <2>1, <2>2, Exchange
<1>5. /\ decode(P, PlusMod(P, a, b)) = PlusMod(P, e, f)
      /\ decode(P, MinusMod(P, a, b)) = MinusMod(P, e, f)
      /\ decode(P, decode(P, TimesMod(P, a, b))) = TimesMod(P, e, f)
  BY <1>1, <1>2, <1>4, DecodeOperations
<1>6. /\ PlusMod(P, a, b) \in F /\ MinusMod(P, a, b) \in F /\ TimesMod(P, a, b) \in F
  BY <1>2, PrimeFacts, Closed
<1>7. decode(P, TimesMod(P, a, b)) \in F  BY <1>1, <1>6, PrimeFacts, EncodeDecode
<1> QED  BY <1>2, <1>3, <1>5, <1>6, <1>7 DEF Means, PlusMod, MinusMod, TimesMod

-----------------------------------------------------------------------------
(***************************************************************************)
(* The chord and the tangent.                                              *)
(***************************************************************************)

\* A quotient.
LEMMA QuotientOf ==
  ASSUME NEW n \in Int, NEW d \in Int, ~Same(d, 0)
  PROVE  LET s == (n * InverseModP(d % P)) % P IN s \in F /\ Same(d * s, n)
<1> DEFINE i == InverseModP(d % P)
           s == (n * i) % P
<1>1. d % P \in Int /\ (d % P) % P # 0 /\ Same(d % P, d)
  BY PrimeFacts, SameResidue, RemainderTwice DEF Same
<1>2. \E z \in F : ((d % P) * z) % P = 1
  <2>1. \E z \in 0 .. (P - 1) : TimesMod(P, d % P, z) = 1
    BY <1>1, PrimeFacts, InverseExists
  <2> QED  BY <2>1, PrimeFacts DEF TimesMod
<1>3. i \in F /\ ((d % P) * i) % P = 1  BY <1>2 DEF InverseModP
<1> HIDE DEF i
<1>4. i \in Int /\ n * i \in Int /\ (d % P) * i \in Int /\ 1 % P = 1  BY <1>1, <1>3, PrimeFacts
<1>5. Same((d % P) * i, 1)  BY <1>3, <1>4 DEF Same
<1>6. s \in F /\ Same(s, n * i) /\ s \in Int
  <2>1. \A e \in Int : e % P \in F /\ Same(e % P, e) /\ e % P \in Int
    BY PrimeFacts, SameResidue
  <2> QED  BY <1>4, <2>1
<1> HIDE DEF s
<1>7. Same(d * s, d * (n * i))
  BY <1>6, SameTimes
<1>8. Same(d * i, 1)
  <2>1. Same((d % P) * i, d * i)  BY <1>1, <1>4, SameTimes
  <2> QED  BY <1>5, <2>1, SameLaws
<1>9. Same(n * (d * i), n * 1)  BY <1>8, SameTimes
<1>10. d * (n * i) = n * (d * i) /\ n * 1 = n  BY <1>4, SMT
<1>11. Same(d * s, n)  BY <1>7, <1>9, <1>10, SameLaws
<1> QED  BY <1>6, <1>11 DEF s, i

\* The third point of a line.
LEMMA LineMeans ==
  ASSUME NEW a \in F, NEW b \in F, NEW c \in F, NEW d \in F, NEW s \in F
  PROVE  \E x, y \in F : /\ OnLine(<<a, b>>, <<c, d>>, s) = <<x, y>>
                         /\ Same(x, (s * s - a) - c) /\ Same(y, s * (a - x) - b)
<1>1. a \in Int /\ b \in Int /\ c \in Int /\ s \in Int  BY PrimeFacts
<1> DEFINE e == (s * s - a) - c
           x == e % P
           f == s * (a - x) - b
           y == f % P
<1>2. e \in Int  BY <1>1
<1>3. x \in F /\ Same(x, e) /\ x \in Int
  <2> HIDE DEF e
  <2> QED  BY <1>2, PrimeFacts, SameResidue
<1>4. f \in Int
  <2> HIDE DEF x
  <2> QED  BY <1>1, <1>3
<1>5. y \in F /\ Same(y, f)
  <2> HIDE DEF f
  <2> QED  BY <1>4, PrimeFacts, SameResidue
<1>6. OnLine(<<a, b>>, <<c, d>>, s) = <<x, y>>  BY DEF OnLine
<1> QED  BY <1>3, <1>5, <1>6

\* The cases of the group law.
LEMMA GroupAddCases ==
  ASSUME NEW p, NEW q
  PROVE  /\ p = Infinity => GroupAdd(p, q) = q
         /\ q = Infinity => GroupAdd(p, q) = p
         /\ p # Infinity /\ q # Infinity =>
              /\ q = Negate(p) => GroupAdd(p, q) = Infinity
              /\ q # Negate(p) /\ q = p => GroupAdd(p, q) =
                   OnLine(p, p, ((3 * p[1] * p[1] + A) * InverseModP((2 * p[2]) % P)) % P)
              /\ q # Negate(p) /\ q # p => GroupAdd(p, q) =
                   OnLine(p, q, ((q[2] - p[2]) * InverseModP((q[1] - p[1]) % P)) % P)
<1>1. p = Infinity => GroupAdd(p, q) = q
  BY DEF GroupAdd
<1>2. p # Infinity /\ q = Infinity => GroupAdd(p, q) = p
  BY DEF GroupAdd
<1>3. ASSUME p # Infinity, q # Infinity
      PROVE  /\ q = Negate(p) => GroupAdd(p, q) = Infinity
             /\ q # Negate(p) /\ q = p => GroupAdd(p, q) =
                  OnLine(p, p, ((3 * p[1] * p[1] + A) * InverseModP((2 * p[2]) % P)) % P)
             /\ q # Negate(p) /\ q # p => GroupAdd(p, q) =
                  OnLine(p, q, ((q[2] - p[2]) * InverseModP((q[1] - p[1]) % P)) % P)
  BY <1>3 DEF GroupAdd
<1>. QED BY <1>1, <1>2, <1>3

\* A point is its own opposite only if its ordinate is zero.
LEMMA OppositeOf ==
  ASSUME NEW a \in F, NEW b \in F
  PROVE  /\ Negate(<<a, b>>) = <<a, (-b) % P>> /\ (-b) % P \in F
         /\ Same((-b) % P, -b) /\ ((-b) % P = b <=> b = 0)
<1>1. b \in Int /\ -b \in Int /\ 0 % P = 0 /\ 0 \in F  BY PrimeFacts
<1>2. PICK m \in Int : m = -b  BY <1>1
<1>3. m % P \in F /\ Same(m % P, m)  BY PrimeFacts, SameResidue
<1>4. m % P = b => b = 0
  <2> SUFFICES ASSUME m % P = b PROVE b = 0  OBVIOUS
  <2>1. Same(b, m) /\ Same(b, b)  BY <1>1, <1>3, SameLaws
  <2>2. Same(b + b, b + m)  BY <2>1, SameLaws
  <2>3. b + m = 0 /\ b + b = 2 * b  BY <1>1, <1>2
  <2>4. Same(b, 0)  BY <1>1, <2>2, <2>3, SmallNumbers
  <2> QED  BY <1>1, <2>4, SameResidue
<1>5. b = 0 => m % P = b  BY <1>1, <1>2
<1> QED  BY <1>2, <1>3, <1>4, <1>5 DEF Negate

\* Two points of the curve with the same x are equal or opposite.
LEMMA SameAbscissa ==
  ASSUME NEW a \in F, NEW b \in F, NEW d \in F, OnCurve(a, b), OnCurve(a, d)
  PROVE  b = d \/ d = (-b) % P
<1>1. b \in Int /\ d \in Int /\ b % P = b /\ d % P = d
  BY PrimeFacts
<1>. DEFINE bb == b * b  dd == d * d  less == d - b  more == b + d
<1>2. bb \in Int /\ dd \in Int /\ less \in Int /\ more \in Int /\ less * more = dd - bb
  BY <1>1, SMT
<1>3. dd % P = bb % P
  BY DEF OnCurve
<1>. HIDE DEF bb, dd
<1>4. TimesMod(P, less, more) = 0
  <2>1. (dd - bb) % P = 0
    BY <1>2, <1>3, PrimeFacts, ZeroDifference
  <2>. QED BY <1>2, <2>1 DEF TimesMod
<1>5. less % P = 0 \/ more % P = 0
  <2>. HIDE DEF less, more
  <2>. QED BY <1>2, <1>4, PrimeFacts, NoZeroDivisors
<1>6. less % P = 0 => b = d
  BY <1>1, PrimeFacts, ZeroDifference
<1>7. more % P = 0 => d = (-b) % P
  <2>1. PICK m \in Int : m = -b
    BY <1>1
  <2>2. (d - m) % P = 0 <=> d % P = m % P
    BY <1>1, <2>1, PrimeFacts, ZeroDifference
  <2>3. d - m = more
    BY <1>1, <2>1
  <2>. QED BY <1>1, <2>1, <2>2, <2>3
<1>. QED BY <1>5, <1>6, <1>7

\* A point and its mirror image are on the curve together.
LEMMA MirrorOnCurve ==
  ASSUME NEW a \in F, NEW b \in F
  PROVE  OnCurve(a, b) <=> OnCurve(a, (-b) % P)
<1>1. b \in Int
  BY PrimeFacts
<1>2. PICK m \in Int : m = -b
  BY <1>1
<1>3. m % P \in Int /\ (m % P) % P = m % P
  BY <1>2, PrimeFacts, RemainderTwice
<1>4. TimesMod(P, m % P, m % P) = TimesMod(P, b, b)
  <2>1. m * m = b * b
    BY <1>1, <1>2, SMT
  <2>2. TimesMod(P, m % P, m % P) = TimesMod(P, m, m)
    BY <1>3, PrimeFacts, Exchange
  <2>. QED BY <2>1, <2>2 DEF TimesMod
<1>. QED BY <1>2, <1>4 DEF OnCurve, TimesMod

\* Twice a point, by the tangent.
LEMMA Tangent ==
  ASSUME NEW a \in F, NEW b \in F, b # 0
  PROVE  \E x, y, s \in F :
           /\ GroupAdd(<<a, b>>, <<a, b>>) = <<x, y>>
           /\ Same((2 * b) * s, (3 * a) * a + A)
           /\ Same(x, (s * s - a) - a) /\ Same(y, s * (a - x) - b)
<1> DEFINE n == (3 * a) * a + A
           d == 2 * b
           s == (n * InverseModP(d % P)) % P
<1>1. a \in Int /\ b \in Int /\ A \in Int  BY PrimeFacts
<1>2. n \in Int /\ d \in Int  BY <1>1
<1>3. ~Same(d, 0)
  <2>1. ~Same(b, 0)  BY PrimeFacts, SameResidue
  <2> QED  BY <1>1, <2>1, SmallNumbers
<1>4. s \in F /\ Same(d * s, n)
  <2> HIDE DEF n, d
  <2> QED  BY <1>2, <1>3, QuotientOf
<1>5. <<a, b>> # Infinity /\ <<a, b>> # Negate(<<a, b>>)
  BY OppositeOf DEF Infinity
<1>6. GroupAdd(<<a, b>>, <<a, b>>) = OnLine(<<a, b>>, <<a, b>>, s)
  <2>1. 3 * a * a + A = n /\ 2 * b = d  OBVIOUS
  <2> HIDE DEF n, d
  <2> QED  BY <1>5, <2>1, GroupAddCases
<1> HIDE DEF s
<1> QED  BY <1>4, <1>6, LineMeans

\* The sum of points of different abscissa, by the chord.
LEMMA Chord ==
  ASSUME NEW a \in F, NEW b \in F, NEW c \in F, NEW d \in F, a # c,
         <<a, b>> # Infinity, <<c, d>> # Infinity
  PROVE  \E x, y, s \in F :
           /\ GroupAdd(<<a, b>>, <<c, d>>) = <<x, y>>
           /\ Same((c - a) * s, d - b)
           /\ Same(x, (s * s - a) - c) /\ Same(y, s * (a - x) - b)
<1> DEFINE n == d - b
           e == c - a
           s == (n * InverseModP(e % P)) % P
<1>1. a \in Int /\ b \in Int /\ c \in Int /\ d \in Int  BY PrimeFacts
<1>2. n \in Int /\ e \in Int  BY <1>1
<1>3. ~Same(e, 0)
  <2> SUFFICES ASSUME Same(e, 0) PROVE FALSE  OBVIOUS
  <2>0. Same(a, a)  BY <1>1, SameLaws
  <2>1. Same(e + a, 0 + a)  BY <2>0, SameLaws
  <2>2. e + a = c /\ 0 + a = a  BY <1>1
  <2> QED  BY <2>1, <2>2, SameResidue
<1>4. s \in F /\ Same(e * s, n)
  <2> HIDE DEF n, e
  <2> QED  BY <1>2, <1>3, QuotientOf
<1>5. <<c, d>> # <<a, b>> /\ <<c, d>> # Negate(<<a, b>>)  BY OppositeOf
<1>6. GroupAdd(<<a, b>>, <<c, d>>) = OnLine(<<a, b>>, <<c, d>>, s)
  BY <1>5, GroupAddCases
<1> HIDE DEF s
<1> QED  BY <1>4, <1>6, LineMeans

\* Induction over the natural numbers, with a set for the property.
LEMMA SetInduction ==
  ASSUME NEW S, 0 \in S, \A i \in S : i + 1 \in S
  PROVE  Nat \subseteq S
<1> DEFINE T == Nat \ S
<1> SUFFICES ASSUME T # {} PROVE FALSE
  OBVIOUS
<1>1. PICK m \in T : \A j \in T : m <= j
  <2>1. T \subseteq Nat  OBVIOUS
  <2> HIDE DEF T
  <2> QED  BY <2>1, Least
<1>2. m - 1 \in Nat /\ ~(m <= m - 1)  BY <1>1
<1>3. m - 1 \in S  BY <1>1, <1>2
<1> QED  BY <1>1, <1>2, <1>3

-----------------------------------------------------------------------------
(***************************************************************************)
(* Multiples of a point.                                                   *)
(***************************************************************************)

\* The group order is the number of points, so it is a number.
LEMMA OrderIsNatural == N \in Nat /\ N > 2 /\ N % 2 = 1
<1>1. P \in Nat /\ F = 0 .. (P - 1)
  BY CurveAssumption DEF F
<1>2. IsFiniteSet(F)
  BY <1>1, FS_Interval
<1>3. IsFiniteSet(F \X F)
  BY <1>2, FS_Product
<1>4. IsFiniteSet((F \X F) \cup {Infinity})
  BY <1>3, FS_AddElement
<1>5. Points \in SUBSET ((F \X F) \cup {Infinity})
  BY DEF Points
<1>6. IsFiniteSet(Points)
  BY <1>4, <1>5, FS_Subset
<1>7. N \in Nat /\ N > 2
  BY <1>6, OrderAssumption, FS_CardinalityType
<1>8. N % 2 # 0
  BY <1>7, OrderAssumption
<1> QED  BY <1>7, <1>8

\* The group law on points, with infinity as its unit.
LEMMA GroupLaw ==
  /\ Infinity \in Points
  /\ \A p, q \in Points :
       GroupAdd(p, q) \in Points /\ GroupAdd(p, q) = GroupAdd(q, p)
  /\ \A p, q, o \in Points :
       GroupAdd(GroupAdd(p, q), o) = GroupAdd(p, GroupAdd(q, o))
  /\ \A p : GroupAdd(Infinity, p) = p /\ GroupAdd(p, Infinity) = p
<1>1. \A p : GroupAdd(Infinity, p) = p /\ GroupAdd(p, Infinity) = p
  BY GroupAddCases
<1>2. Infinity \in Points  BY DEF Points
<1> QED  BY <1>1, <1>2, GroupAssumption

\* Sums of four points.
LEMMA Rearrange ==
  ASSUME NEW p \in Points, NEW q \in Points, NEW o \in Points, NEW u \in Points
  PROVE  /\ GroupAdd(GroupAdd(p, q), GroupAdd(o, u)) = GroupAdd(GroupAdd(p, o), GroupAdd(q, u))
         /\ GroupAdd(GroupAdd(GroupAdd(p, q), o), u) = GroupAdd(GroupAdd(p, o), GroupAdd(q, u))
<1>1. /\ GroupAdd(p, q) \in Points /\ GroupAdd(o, u) \in Points /\ GroupAdd(p, o) \in Points
      /\ GroupAdd(q, u) \in Points /\ GroupAdd(q, o) \in Points
  BY GroupLaw
<1>2. GroupAdd(GroupAdd(p, q), o) = GroupAdd(GroupAdd(p, o), q)
  <2>1. GroupAdd(GroupAdd(p, q), o) = GroupAdd(p, GroupAdd(q, o))  BY GroupLaw
  <2>2. GroupAdd(q, o) = GroupAdd(o, q)  BY GroupLaw
  <2>3. GroupAdd(GroupAdd(p, o), q) = GroupAdd(p, GroupAdd(o, q))  BY GroupLaw
  <2> QED  BY <2>1, <2>2, <2>3
<1>3. GroupAdd(GroupAdd(p, q), GroupAdd(o, u)) = GroupAdd(GroupAdd(GroupAdd(p, q), o), u)
  BY <1>1, GroupLaw
<1>4. GroupAdd(GroupAdd(p, o), GroupAdd(q, u)) = GroupAdd(GroupAdd(GroupAdd(p, o), q), u)
  BY <1>1, GroupLaw
<1> QED  BY <1>2, <1>3, <1>4

(* The multiples of p below n, one after the other.                        *)
IsMultiples(n, p, f) ==
  f = [k \in 0 .. n |-> IF k = 0 THEN Infinity ELSE GroupAdd(f[k - 1], p)]

\* There are such multiples.
LEMMA MultiplesExist ==
  ASSUME NEW n \in Nat, NEW p
  PROVE  \E f : IsMultiples(n, p, f)
<1> DEFINE S == {i \in Nat : \E f : IsMultiples(i, p, f)}
<1>1. 0 \in S
  <2>1. IsMultiples(0, p, [k \in 0 .. 0 |-> Infinity])
    <3>1. \A k \in 0 .. 0 : k = 0  OBVIOUS
    <3> QED  BY <3>1, Zenon DEF IsMultiples
  <2> QED  BY <2>1
<1>2. ASSUME NEW i \in S PROVE i + 1 \in S
  <2>1. PICK f : IsMultiples(i, p, f)  OBVIOUS
  <2> DEFINE value(k) == IF k = 0 THEN Infinity ELSE GroupAdd(f[k - 1], p)
             g == [k \in 0 .. (i + 1) |-> value(k)]
  <2>2. \A k \in 0 .. i : f[k] = value(k)
    BY <2>1 DEF IsMultiples
  <2>3. \A k \in 0 .. (i + 1) : k # 0 => g[k - 1] = f[k - 1]
    <3> SUFFICES ASSUME NEW k \in 0 .. (i + 1), k # 0 PROVE g[k - 1] = f[k - 1]
      OBVIOUS
    <3>1. k - 1 \in 0 .. i /\ k - 1 \in 0 .. (i + 1)  OBVIOUS
    <3>2. g[k - 1] = value(k - 1)  BY <3>1
    <3> QED  BY <2>2, <3>1, <3>2
  <2>4. g = [k \in 0 .. (i + 1) |-> IF k = 0 THEN Infinity ELSE GroupAdd(g[k - 1], p)]
    <3> DEFINE other(k) == IF k = 0 THEN Infinity ELSE GroupAdd(g[k - 1], p)
    <3>1. \A k \in 0 .. (i + 1) : value(k) = other(k)  BY <2>3
    <3> HIDE DEF value, other
    <3>2. [k \in 0 .. (i + 1) |-> value(k)] = [k \in 0 .. (i + 1) |-> other(k)]
      BY <3>1
    <3> QED  BY <3>2 DEF other
  <2> HIDE DEF g
  <2>5. IsMultiples(i + 1, p, g)  BY <2>4 DEF IsMultiples
  <2> QED  BY <2>5
<1> HIDE DEF S
<1>3. n \in S  BY <1>1, <1>2, SetInduction
<1> QED  BY <1>3 DEF S

\* The table of multiples: one more of the point each time.
LEMMA MultiplesTable ==
  ASSUME NEW p \in Points
  PROVE  /\ Multiples[p][0] = Infinity
         /\ \A k \in 1 .. (N - 1) : Multiples[p][k] = GroupAdd(Multiples[p][k - 1], p)
<1> DEFINE f == Multiples[p]
<1>1. N - 1 \in Nat  BY OrderIsNatural
<1>2. f = CHOOSE g : IsMultiples(N - 1, p, g)
  BY DEF Multiples, IsMultiples
<1>3. IsMultiples(N - 1, p, f)
  <2>1. \E g : IsMultiples(N - 1, p, g)  BY <1>1, MultiplesExist
  <2> HIDE DEF f
  <2> QED  BY <1>2, <2>1
<1>4. \A k \in 0 .. (N - 1) : f[k] = IF k = 0 THEN Infinity ELSE GroupAdd(f[k - 1], p)
  <2> HIDE DEF f
  <2> QED  BY <1>3 DEF IsMultiples
<1> HIDE DEF f
<1>5. 0 \in 0 .. (N - 1)  BY <1>1
<1>6. f[0] = Infinity  BY <1>4, <1>5
<1>7. ASSUME NEW k \in 1 .. (N - 1) PROVE f[k] = GroupAdd(f[k - 1], p)
  <2>1. k \in 0 .. (N - 1) /\ k # 0  BY <1>1
  <2> QED  BY <1>4, <2>1
<1> QED  BY <1>6, <1>7 DEF f

\* No multiple, and one more.
LEMMA MulSuccessor ==
  ASSUME NEW p \in Points
  PROVE  /\ GroupMul(0, p) = Infinity
         /\ \A k \in Nat : GroupMul(k + 1, p) = GroupAdd(GroupMul(k, p), p)
<1>0. N \in Nat /\ N > 2  BY OrderIsNatural
<1>1. GroupMul(0, p) = Infinity
  <2>1. 0 % N = 0  BY <1>0
  <2> QED  BY <2>1, MultiplesTable DEF GroupMul
<1>2. ASSUME NEW k \in Nat PROVE GroupMul(k + 1, p) = GroupAdd(GroupMul(k, p), p)
  <2>1. k % N \in 0 .. (N - 1)  BY <1>0
  <2>4. k \div N \in Int /\ k = N * (k \div N) + (k % N)  BY <1>0, DivMod
  <2>2. CASE k % N < N - 1
    <3>1. (k + 1) % N = (k % N) + 1
      <4>1. k + 1 = N * (k \div N) + ((k % N) + 1) /\ (k % N) + 1 \in 0 .. (N - 1)
        BY <1>0, <2>1, <2>2, <2>4
      <4> QED  BY <1>0, <2>4, <4>1, DivModUnique
    <3>2. (k % N) + 1 \in 1 .. (N - 1) /\ ((k % N) + 1) - 1 = k % N  BY <1>0, <2>1, <2>2
    <3> QED  BY <3>1, <3>2, MultiplesTable DEF GroupMul
  <2>3. CASE k % N = N - 1
    <3>1. (k + 1) % N = 0
      <4>1. PICK j \in Int : k = N * j + (N - 1)  BY <2>3, <2>4
      <4>2. PICK i \in Int : i = j + 1  OBVIOUS
      <4>3. N * i = N * j + N  BY <1>0, <4>2, SMT
      <4>4. k + 1 = N * i + 0 /\ 0 \in 0 .. (N - 1)  BY <1>0, <4>1, <4>3
      <4>5. (N * i + 0) % N = 0  BY <1>0, <4>4, DivModUnique
      <4> QED  BY <4>4, <4>5
    <3>4. (N - 1) % N = N - 1 /\ 0 % N = 0
      <4>1. \A i \in 0 .. (N - 1) : i % N = i  BY <1>0, SmallRemainder
      <4> QED  BY <1>0, <4>1
    <3>2. GroupMul(k + 1, p) = GroupMul(0, p) /\ GroupMul(k, p) = GroupMul(N - 1, p)
      BY <2>3, <3>1, <3>4 DEF GroupMul
    <3> QED  BY <1>1, <3>2, GroupAssumption
  <2> QED  BY <1>0, <2>1, <2>2, <2>3
<1> QED  BY <1>1, <1>2

\* Multiples are points, those of infinity are infinity, and an even number of
\* times a point is half as many times its double.
LEMMA MulDouble ==
  ASSUME NEW p \in Points
  PROVE  \A k \in Nat : /\ GroupMul(k, p) \in Points
                        /\ GroupMul(k, Infinity) = Infinity
                        /\ GroupMul(2 * k, p) = GroupMul(k, GroupAdd(p, p))
<1> DEFINE Good(k) == /\ GroupMul(k, p) \in Points
                      /\ GroupMul(k, Infinity) = Infinity
                      /\ GroupMul(2 * k, p) = GroupMul(k, GroupAdd(p, p))
           S == {k \in Nat : Good(k)}
           d == GroupAdd(p, p)
<1>1. d \in Points /\ Infinity \in Points  BY GroupLaw
<1>2. 0 \in S
  <2>1. 2 * 0 = 0  OBVIOUS
  <2> QED  BY <1>1, <2>1, MulSuccessor
<1>3. ASSUME NEW k \in S PROVE k + 1 \in S
  <2>1. k \in Nat /\ Good(k)  OBVIOUS
  <2>2. /\ GroupMul(k + 1, p) = GroupAdd(GroupMul(k, p), p)
        /\ GroupMul(k + 1, Infinity) = GroupAdd(GroupMul(k, Infinity), Infinity)
        /\ GroupMul(k + 1, d) = GroupAdd(GroupMul(k, d), d)
    <3> HIDE DEF d
    <3> QED  BY <1>1, <2>1, MulSuccessor
  <2>3. GroupMul(2 * (k + 1), p) = GroupAdd(GroupAdd(GroupMul(2 * k, p), p), p)
    <3>1. 2 * k \in Nat /\ 2 * k + 1 \in Nat /\ 2 * (k + 1) = (2 * k + 1) + 1  BY <2>1
    <3>2. GroupMul(2 * k + 1, p) = GroupAdd(GroupMul(2 * k, p), p)
      BY <3>1, MulSuccessor
    <3>3. GroupMul((2 * k + 1) + 1, p) = GroupAdd(GroupMul(2 * k + 1, p), p)
      BY <3>1, MulSuccessor
    <3> QED  BY <3>1, <3>2, <3>3
  <2>4. GroupMul(2 * k, p) \in Points
    <3> DEFINE T == {i \in Nat : GroupMul(i, p) \in Points}
    <3>1. 0 \in T  BY <1>1, MulSuccessor
    <3>2. \A i \in T : i + 1 \in T  BY GroupLaw, MulSuccessor
    <3> HIDE DEF T
    <3>3. 2 * k \in T  BY <2>1, <3>1, <3>2, SetInduction
    <3> QED  BY <3>3 DEF T
  <2>5. GroupAdd(GroupAdd(GroupMul(2 * k, p), p), p) = GroupAdd(GroupMul(2 * k, p), d)
    BY <2>4, GroupLaw
  <2>6. GroupMul(k, p) \in Points /\ GroupMul(2 * k, p) = GroupMul(k, d)
        /\ GroupMul(k, Infinity) = Infinity
    BY <2>1
  <2>7. Good(k + 1)
    <3> HIDE DEF d
    <3> QED  BY <2>2, <2>3, <2>5, <2>6, GroupLaw DEF d
  <2> QED  BY <2>1, <2>7
<1> HIDE DEF S
<1>4. Nat \subseteq S  BY <1>2, <1>3, SetInduction
<1> QED  BY <1>4 DEF S

\* Twice a number of times a point is that multiple added to itself.
LEMMA MulTwice ==
  ASSUME NEW p \in Points
  PROVE  \A k \in Nat : GroupMul(2 * k, p) = GroupAdd(GroupMul(k, p), GroupMul(k, p))
<1> DEFINE S == {k \in Nat : GroupMul(2 * k, p) = GroupAdd(GroupMul(k, p), GroupMul(k, p))}
<1>1. 0 \in S
  <2>1. 2 * 0 = 0  OBVIOUS
  <2> QED  BY <2>1, MulSuccessor, GroupLaw
<1>2. ASSUME NEW k \in S PROVE k + 1 \in S
  <2> DEFINE m == GroupMul(k, p)
  <2>1. k \in Nat /\ GroupMul(2 * k, p) = GroupAdd(m, m)  OBVIOUS
  <2>2. m \in Points  BY <2>1, MulDouble
  <2>3. GroupMul(k + 1, p) = GroupAdd(m, p)  BY <2>1, MulSuccessor
  <2>4. GroupMul(2 * (k + 1), p) = GroupAdd(GroupAdd(GroupAdd(m, m), p), p)
    <3>1. 2 * k \in Nat /\ 2 * k + 1 \in Nat /\ 2 * (k + 1) = (2 * k + 1) + 1  BY <2>1
    <3>2. GroupMul(2 * k + 1, p) = GroupAdd(GroupMul(2 * k, p), p)  BY <3>1, MulSuccessor
    <3>3. GroupMul((2 * k + 1) + 1, p) = GroupAdd(GroupMul(2 * k + 1, p), p)
      BY <3>1, MulSuccessor
    <3> QED  BY <2>1, <3>1, <3>2, <3>3
  <2> HIDE DEF m
  <2>5. GroupAdd(GroupAdd(GroupAdd(m, m), p), p) = GroupAdd(GroupAdd(m, p), GroupAdd(m, p))
    BY <2>2, Rearrange
  <2> QED  BY <2>1, <2>3, <2>4, <2>5
<1> HIDE DEF S
<1>3. Nat \subseteq S  BY <1>1, <1>2, SetInduction
<1> QED  BY <1>3 DEF S

\* Multiples only depend on the remainder of the number by the group order.
LEMMA MulRemainder ==
  ASSUME NEW i, NEW j, i % N = j % N, NEW p
  PROVE  GroupMul(i, p) = GroupMul(j, p)
BY DEF GroupMul

\* The order of the group is odd, so no point but infinity is its own opposite.
LEMMA NoTwoTorsion ==
  ASSUME NEW p \in Points, GroupAdd(p, p) = Infinity
  PROVE  p = Infinity
<1>1. PICK m \in Nat : N = 2 * m + 1
  <2>1. N = 2 * (N \div 2) + (N % 2) /\ N \div 2 \in Nat  BY OrderIsNatural
  <2> QED  BY <2>1, OrderIsNatural
<1>2. 2 * m \in Nat /\ N \in Nat /\ N > 2  BY <1>1, OrderIsNatural
<1>3. GroupMul(N, p) = GroupAdd(GroupMul(2 * m, p), p)  BY <1>1, <1>2, MulSuccessor
<1>4. GroupMul(2 * m, p) = Infinity  BY MulDouble
<1>5. GroupMul(N, p) = GroupMul(0, p)
  <2>1. N % N = 0 /\ 0 % N = 0  BY <1>2
  <2> QED  BY <2>1 DEF GroupMul
<1> QED  BY <1>3, <1>4, <1>5, MulSuccessor, GroupLaw

-----------------------------------------------------------------------------
(***************************************************************************)
(* Projective coordinates, as numbers.                                     *)
(***************************************************************************)

\* The chord in projective coordinates: numbers a*z, b*z, z and c*w, d*w, w for
\* two points, and x, y for the third point of their line, mirrored.
LEMMA ProjectiveChord ==
  ASSUME NEW a \in Int, NEW b \in Int, NEW c \in Int, NEW d \in Int,
         NEW z \in Int, NEW w \in Int, NEW s \in Int, NEW x \in Int, NEW y \in Int,
         Same((c - a) * s, d - b),
         Same(x, (s * s - a) - c), Same(y, s * (a - x) - b)
  PROVE  LET t == (b * z) * w - (d * w) * z
             u == (a * z) * w - (c * w) * z
             v == z * w
             o == (t * t) * v - (u * u) * ((a * z) * w + (c * w) * z)
             l == ((u * u) * u) * v
         IN  /\ Same(u * o, x * l)
             /\ Same(t * (((a * z) * w) * (u * u) - o) - ((b * z) * w) * ((u * u) * u), y * l)
             /\ u = (a - c) * v /\ t = (b - d) * v
<1> DEFINE t == (b * z) * w - (d * w) * z
           u == (a * z) * w - (c * w) * z
           v == z * w
           o == (t * t) * v - (u * u) * ((a * z) * w + (c * w) * z)
           l == ((u * u) * u) * v
           e == a - c
           f == b - d
<1>1. v \in Int /\ e \in Int /\ f \in Int /\ a = c + e /\ b = d + f  BY SMT
<1>2. u = e * v /\ t = f * v /\ (a * z) * w = a * v /\ (b * z) * w = b * v /\ (c * w) * z = c * v
  BY SMT
<1>3. o = ((f * v) * (f * v)) * v - ((e * v) * (e * v)) * (a * v + c * v)
      /\ l = (((e * v) * (e * v)) * (e * v)) * v
  BY <1>2
<1> HIDE DEF t, u, v, o, l, e, f
<1>4. e * s \in Int /\ Same(f, e * s)
  <2>1. (c - a) * s = -(e * s) /\ d - b = -f /\ e * s \in Int  BY <1>1, SMT DEF e
  <2>2. PICK g \in Int : g = e * s  BY <2>1
  <2>3. Same(-g, -f)  BY <2>1, <2>2
  <2>4. Apart(f, g, 1, -g, -f)  BY <1>1, <2>2 DEF Apart
  <2>5. Same(f, g)  BY <1>1, <2>3, <2>4, Combine
  <2> QED  BY <2>2, <2>5
<1>5. (v * v) * v \in Int /\ e * e \in Int /\ (e * e) * x \in Int  BY <1>1
\* o is (e*e)*x, up to the cube of v.
<1>6. Same(o, ((v * v) * v) * ((e * e) * x)) /\ o \in Int
  <2> DEFINE o1 == ((v * v) * v) * ((e * s) * (e * s) - (e * e) * (a + c))
             m1 == ((v * v) * v) * (f + e * s)
             o2 == ((v * v) * v) * ((e * e) * x)
             m2 == -(((v * v) * v) * (e * e))
             r  == (s * s - a) - c
  <2>1. o1 \in Int /\ m1 \in Int /\ o2 \in Int /\ m2 \in Int /\ r \in Int
    BY <1>1, <1>4
  <2>2. Apart(o, o1, m1, f, e * s)  BY <1>1, <1>3, SMT DEF Apart
  <2>3. Apart(o1, o2, m2, x, r)  BY <1>1, SMT DEF Apart
  <2>4. o \in Int  BY <1>1, <1>3
  <2> HIDE DEF o1, m1, o2, m2
  <2>5. Same(o, o1)  BY <1>4, <2>1, <2>2, <2>4, Combine
  <2>6. Same(o1, o2)  BY <2>1, <2>3, Combine
  <2> QED  BY <2>4, <2>5, <2>6, SameLaws DEF o2
<1> DEFINE k == ((v * v) * v) * ((e * e) * x)
<1>7. k \in Int /\ Same(o, k) /\ l \in Int  BY <1>1, <1>3, <1>6
<1>8. Same(u * o, x * l)
  <2>1. Same((e * v) * o, (e * v) * k)
    <3>1. e * v \in Int  BY <1>1
    <3> QED  BY <1>7, <3>1, SameTimes
  <2>2. (e * v) * k = x * l  BY <1>1, <1>3, SMT
  <2> QED  BY <1>2, <2>1, <2>2
<1>9. Same(t * ((a * v) * (u * u) - o) - (b * v) * ((u * u) * u), y * l)
  <2> DEFINE y0 == (f * v) * ((a * v) * ((e * v) * (e * v)) - o) - (b * v) * (((e * v) * (e * v)) * (e * v))
             y1 == (f * v) * ((a * v) * ((e * v) * (e * v)) - k) - (b * v) * (((e * v) * (e * v)) * (e * v))
             m0 == -(f * v)
             n1 == ((v * v) * (v * v)) * (e * e)
             m1 == n1 * (a - x)
             y2 == n1 * ((e * s) * (a - x) - b * e)
             r  == s * (a - x) - b
             m2 == -l
  <2>1. /\ y0 \in Int /\ y1 \in Int /\ m0 \in Int /\ m1 \in Int /\ y2 \in Int /\ m2 \in Int
        /\ y * l \in Int /\ n1 \in Int
    <3> HIDE DEF k
    <3>1. f * v \in Int /\ a * v \in Int /\ e * v \in Int /\ b * v \in Int /\ a - x \in Int
      BY <1>1
    <3>2. n1 \in Int /\ (e * s) * (a - x) - b * e \in Int
      BY <1>1, <1>4, <3>1
    <3>3. \A g \in Int : (f * v) * ((a * v) * ((e * v) * (e * v)) - g) \in Int
      <4> HIDE DEF n1
      <4>1. \A g1, g2, g3 \in Int : g1 * ((g2 * (g3 * g3))) \in Int  OBVIOUS
      <4>2. (a * v) * ((e * v) * (e * v)) \in Int  BY <3>1
      <4>3. \A g1, g2, g3 \in Int : g1 * (g2 - g3) \in Int  OBVIOUS
      <4> QED  BY <3>1, <4>2, <4>3
    <3>4. (b * v) * (((e * v) * (e * v)) * (e * v)) \in Int  BY <3>1
    <3>5. y0 \in Int /\ y1 \in Int
      <4>1. \A g1, g2 \in Int : g1 - g2 \in Int  OBVIOUS
      <4> QED  BY <1>6, <1>7, <3>3, <3>4, <4>1
    <3>6. y2 \in Int  BY <3>2
    <3>7. m0 \in Int /\ m1 \in Int /\ m2 \in Int /\ y * l \in Int  BY <1>7, <3>1, <3>2
    <3> QED  BY <3>2, <3>5, <3>6, <3>7
  <2>2. Apart(y0, y1, m0, o, k)
    <3> HIDE DEF k
    <3> QED  BY <1>1, <1>6, <1>7, SMT DEF Apart
  <2>3. Apart(y1, y2, m1, f, e * s)  BY <1>1, SMT DEF Apart
  <2>4. Apart(y2, y * l, m2, y, r)  BY <1>1, <1>3, SMT DEF Apart
  <2> HIDE DEF y0, y1, m0, m1, y2, m2, k, n1
  <2>5. Same(y0, y1)  BY <1>7, <2>1, <2>2, Combine
  <2>6. Same(y1, y2)  BY <1>4, <2>1, <2>3, Combine
  <2>7. Same(y2, y * l)  BY <2>1, <2>4, Combine
  <2>8. Same(y0, y * l)  BY <2>5, <2>6, <2>7, SameLaws
  <2> QED  BY <1>2, <2>8 DEF y0
<1> QED  BY <1>2, <1>8, <1>9 DEF t, u, v, o, l, e, f

\* The tangent in projective coordinates: numbers a*z, b*z, z for a point, and
\* x, y for its double, by the slope s.
LEMMA ProjectiveTangent ==
  ASSUME NEW a \in Int, NEW b \in Int, NEW z \in Int, NEW s \in Int, NEW x \in Int, NEW y \in Int,
         Same((2 * b) * s, (3 * a) * a + A),
         Same(x, (s * s - a) - a), Same(y, s * (a - x) - b)
  PROVE  LET xx  == (a * z) * (a * z)
             t   == (xx + (xx + xx)) + A * (z * z)
             yz  == (b * z) * z
             u   == yz + yz
             uxy == u * ((a * z) * (b * z))
             v   == uxy + uxy
             w   == t * t - (v + v)
             uy  == u * (b * z)
             uy2 == uy * uy
             l   == u * (u * u)
         IN  /\ Same(u * w, x * l) /\ Same(t * (v - w) - (uy2 + uy2), y * l)
             /\ ~Same(b, 0) /\ ~Same(z, 0) => ~Same(l, 0)
             /\ u * w \in Int /\ t * (v - w) - (uy2 + uy2) \in Int /\ l \in Int
<1> DEFINE xx  == (a * z) * (a * z)
           t   == (xx + (xx + xx)) + A * (z * z)
           yz  == (b * z) * z
           u   == yz + yz
           uxy == u * ((a * z) * (b * z))
           v   == uxy + uxy
           w   == t * t - (v + v)
           uy  == u * (b * z)
           uy2 == uy * uy
           l   == u * (u * u)
           n   == (3 * a) * a + A
           g   == (2 * b) * s
           z2  == z * z
           bb4 == 4 * (b * b)
           m   == (z2 * z2) * bb4
           p   == (s * s - a) - a
           o   == s * (a - x) - b
           bot == uy2 + uy2
           kw  == m * x
<1>1. A \in Int  BY PrimeFacts
<1>2. n \in Int /\ g \in Int /\ z2 \in Int /\ bb4 \in Int /\ p \in Int /\ o \in Int /\ bot \in Int
      /\ m \in Int /\ kw \in Int
  BY <1>1
<1>3. t = z2 * n  BY <1>1, SMT
<1>4. /\ u = 2 * (b * z2) /\ v = m * a /\ bot = (2 * (b * b)) * (m * z2)
      /\ l = (2 * (b * z2)) * m
  BY SMT
<1>5. t \in Int /\ u \in Int /\ v \in Int /\ l \in Int  BY <1>2, <1>3, <1>4
<1>6. w = t * t - (v + v) /\ w \in Int
  <2> HIDE DEF t, v
  <2> QED  BY <1>5
<1>7. g * g - (2 * a) * bb4 = bb4 * p  BY SMT
<1>8. bb4 * (b * s) = (2 * (b * b)) * g  BY SMT
<1>9. Same(g, n) /\ Same(n, g) /\ Same(x, p) /\ Same(y, o)  BY SameLaws
<1> HIDE DEF xx, t, yz, u, uxy, v, w, uy, uy2, l, n, g, bot
\* w is m*x.
<1>10. Same(w, kw)
  <2> DEFINE w1 == (z2 * z2) * (g * g - (2 * a) * bb4)
             c1 == -((z2 * z2) * (g + n))
  <2>1. w1 \in Int /\ c1 \in Int  BY <1>2
  <2>2. Apart(w, w1, c1, g, n)
    <3>1. t * t = (z2 * z2) * (n * n) /\ v + v = (z2 * z2) * ((2 * a) * bb4)
      <4> HIDE DEF z2, bb4
      <4> QED  BY <1>2, <1>3, <1>4, SMT
    <3> HIDE DEF z2, bb4
    <3>2. (z2 * z2) * (n * n) - (z2 * z2) * ((2 * a) * bb4) = w1 + c1 * (g - n)
      BY <1>2, SMT
    <3> QED  BY <1>6, <3>1, <3>2 DEF Apart
  <2>3. w1 = m * p
    <3> HIDE DEF z2, bb4, p
    <3> QED  BY <1>2, <1>7, SMT
  <2>4. Same(w, w1)  BY <1>6, <1>9, <2>1, <2>2, Combine
  <2>5. Same(kw, m * p)  BY <1>2, <1>9, SameTimes
  <2> HIDE DEF w1, kw
  <2> QED  BY <2>3, <2>4, <2>5, SameLaws
<1>11. Same(u * w, x * l)
  <2>1. Same(u * w, u * kw)  BY <1>5, <1>10, SameTimes
  <2>2. u * kw = x * l
    <3> HIDE DEF m, z2
    <3> QED  BY <1>2, <1>4, SMT
  <2> QED  BY <2>1, <2>2
<1>12. Same(t * (v - w) - bot, y * l)
  <2> DEFINE y0 == t * (v - w) - bot
             y1 == t * (v - kw) - bot
             c1 == (z2 * m) * (a - x)
             y2 == c1 * g - bot
  <2>1. y0 \in Int /\ y1 \in Int /\ c1 \in Int /\ y2 \in Int /\ -t \in Int /\ y * l \in Int
    <3> HIDE DEF m, kw, z2
    <3> QED  BY <1>2, <1>5, <1>6
  <2>2. Apart(y0, y1, -t, w, kw)
    <3> HIDE DEF kw
    <3> QED  BY <1>2, <1>5, <1>6, SMT DEF Apart
  <2>3. Apart(y1, y2, c1, n, g)
    <3>1. v - kw = m * (a - x)
      <4> HIDE DEF m
      <4> QED  BY <1>2, <1>4, SMT
    <3>2. t * (v - kw) = c1 * n
      <4> HIDE DEF m, z2, kw
      <4> QED  BY <1>2, <1>3, <3>1, SMT
    <3> HIDE DEF c1, kw
    <3> QED  BY <1>2, <2>1, <3>2, SMT DEF Apart
  <2>4. l * o = y2
    <3>1. l * (s * (a - x)) = c1 * g
      <4> HIDE DEF m, z2
      <4> QED  BY <1>2, <1>4, SMT DEF g
    <3>2. l * b = bot
      <4> HIDE DEF m, z2
      <4> QED  BY <1>2, <1>4, SMT
    <3>3. l * o = l * (s * (a - x)) - l * b  BY <1>5, SMT
    <3> QED  BY <3>1, <3>2, <3>3
  <2>5. Same(l * y, l * o)  BY <1>5, <1>9, SameTimes
  <2>6. l * y = y * l  BY <1>5, SMT
  <2>7. Same(y0, y1)  BY <1>10, <2>1, <2>2, Combine
  <2>8. Same(y1, y2)  BY <1>9, <2>1, <2>3, Combine
  <2> HIDE DEF y0, y1, y2
  <2>9. Same(y0, y * l)  BY <2>4, <2>5, <2>6, <2>7, <2>8, SameLaws
  <2> QED  BY <2>9 DEF y0
<1>13. ~Same(b, 0) /\ ~Same(z, 0) => ~Same(l, 0)
  <2>1. ~Same(z, 0) => ~Same(z2, 0)  BY NotZero
  <2> HIDE DEF z2
  <2>2. b * z2 \in Int  BY <1>2
  <2>3. ~Same(b, 0) /\ ~Same(z2, 0) => ~Same(u, 0)  BY <1>2, <1>4, <2>2, SmallNumbers, NotZero
  <2>4. u * u \in Int  BY <1>5
  <2>5. ~Same(u, 0) => ~Same(u * (u * u), 0)  BY <1>5, <2>4, NotZero
  <2> QED  BY <2>1, <2>3, <2>5 DEF l
<1>14. u * w \in Int /\ t * (v - w) - bot \in Int /\ l \in Int  BY <1>2, <1>5, <1>6
<1> QED  BY <1>11, <1>12, <1>13, <1>14 DEF xx, t, yz, u, uxy, v, w, uy, uy2, l, bot

\* Doubling on a curve y*y = x*x*x + 3, with the tangent's slope s.
LEMMA TangentNumbers ==
  ASSUME NEW a \in Int, NEW b \in Int, NEW s \in Int, NEW x \in Int, NEW y \in Int,
         Same(b * b, (a * a) * a + 3), Same((2 * b) * s, (3 * a) * a),
         Same(x, (s * s - a) - a), Same(y, s * (a - x) - b)
  PROVE  LET l == 8 * ((b * b) * b)
         IN  /\ Same((2 * (a * b)) * (b * b - 27), x * l)
             /\ Same((b * b) * (b * b) + 54 * (b * b) - 243, y * l)
<1> DEFINE l == 8 * ((b * b) * b)
           d == 2 * b
           n == (3 * a) * a
           h == (a * a) * a + 3
           r == (s * s - a) - a
           g == s * (a - x) - b
<1>0. /\ l \in Int /\ d * s \in Int /\ n \in Int /\ h \in Int /\ r \in Int /\ g \in Int /\ b * b \in Int
      /\ x * l \in Int /\ y * l \in Int
  BY SMT
<1>1. Same(x * l, (2 * (a * b)) * (b * b - 27))
  <2> DEFINE e1 == l * r
             e2 == d * (n * n - (8 * a) * (b * b))
             c2 == d * (d * s + n)
             e3 == (2 * (a * b)) * (b * b - 27)
             c3 == -(18 * (a * b))
  <2>1. e1 \in Int /\ e2 \in Int /\ c2 \in Int /\ e3 \in Int /\ c3 \in Int  BY SMT
  <2>2. Apart(x * l, e1, l, x, r)  BY SMT DEF Apart
  <2>3. Apart(e1, e2, c2, d * s, n)  BY SMT DEF Apart
  <2>4. Apart(e2, e3, c3, b * b, h)  BY SMT DEF Apart
  <2> HIDE DEF e1, e2, c2, e3, c3, l, d, n, h, r
  <2>5. Same(x * l, e1)  BY <1>0, <2>1, <2>2, Combine DEF r
  <2>6. Same(e1, e2)  BY <2>1, <2>3, Combine DEF d, n
  <2>7. Same(e2, e3)  BY <2>1, <2>4, Combine DEF h
  <2> QED  BY <2>5, <2>6, <2>7, SameLaws DEF e3
<1>2. Same(y * l, (b * b) * (b * b) + 54 * (b * b) - 243)
  <2> DEFINE e1 == l * g
             e2 == (4 * (b * b)) * ((a - x) * n) - 8 * ((b * b) * (b * b))
             c2 == (4 * (b * b)) * (a - x)
             q  == 12 * ((a * a) * (b * b))
             e3 == q * a - q * r - 8 * ((b * b) * (b * b))
             e4 == 3 * (q * a) - (3 * (a * a)) * (n * n) - 8 * ((b * b) * (b * b))
             c4 == -((3 * (a * a)) * (d * s + n))
             e5 == (b * b) * (b * b) + 54 * (b * b) - 243
             c5 == -(9 * (b * b - 3 * ((a * a) * a) + 9))
  <2>1. /\ e1 \in Int /\ e2 \in Int /\ c2 \in Int /\ e3 \in Int /\ e4 \in Int /\ c4 \in Int
        /\ e5 \in Int /\ c5 \in Int /\ q \in Int /\ -q \in Int
    BY SMT
  <2>2. Apart(y * l, e1, l, y, g)  BY SMT DEF Apart
  <2>3. Apart(e1, e2, c2, d * s, n)  BY SMT DEF Apart
  <2>4. Apart(e2, e3, -q, x, r)  BY SMT DEF Apart
  <2>5. Apart(e3, e4, c4, d * s, n)  BY SMT DEF Apart
  <2>6. Apart(e4, e5, c5, b * b, h)  BY SMT DEF Apart
  <2> HIDE DEF e1, e2, c2, e3, e4, c4, e5, c5, q, l, d, n, h, r, g
  <2>7. Same(y * l, e1)  BY <1>0, <2>1, <2>2, Combine DEF g
  <2>8. Same(e1, e2)  BY <2>1, <2>3, Combine DEF d, n
  <2>9. Same(e2, e3)  BY <2>1, <2>4, Combine DEF r
  <2>10. Same(e3, e4)  BY <2>1, <2>5, Combine DEF d, n
  <2>11. Same(e4, e5)  BY <2>1, <2>6, Combine DEF h
  <2>12. Same(y * l, e3)  BY <2>7, <2>8, <2>9, SameLaws
  <2>13. Same(e3, e5)  BY <2>10, <2>11, SameLaws
  <2> QED  BY <2>12, <2>13, SameLaws DEF e5
<1> QED  BY <1>1, <1>2, SameLaws DEF l

-----------------------------------------------------------------------------
(***************************************************************************)
(* Projective coordinates, as words.                                       *)
(***************************************************************************)

(* The words p stand for the point pt.                                     *)
Finite(p, pt) ==
  \E a, b \in F : \E z \in Int :
    /\ pt = <<a, b>> /\ OnCurve(a, b)
    /\ p[3] # 0 /\ Means(p[1], a * z) /\ Means(p[2], b * z) /\ Means(p[3], z)

Stands(p, pt) ==
  /\ p \in F \X F \X F
  /\ IF p[3] = 0 THEN pt = Infinity ELSE Finite(p, pt)

\* Infinity is not on the curve, and all other points are.
LEMMA FinitePoints ==
  ASSUME NEW a \in F, NEW b \in F
  PROVE  /\ OnCurve(a, b) <=> <<a, b>> \in Points /\ <<a, b>> # Infinity
         /\ OnCurve(a, b) => Negate(<<a, b>>) \in Points /\ Negate(<<a, b>>) # Infinity
<1>1. ~OnCurve(0, 0)
  <2>1. 0 * 0 = 0 /\ (0 * 0 * 0 + A * 0) + B = B  BY PrimeFacts
  <2>2. 0 % P = 0 /\ B % P = B /\ B # 0  BY PrimeFacts, CurveAssumption
  <2> QED  BY <2>1, <2>2 DEF OnCurve
<1>2. <<a, b>> = <<0, 0>> <=> a = 0 /\ b = 0  OBVIOUS
<1>3. <<a, b>>[1] = a /\ <<a, b>>[2] = b /\ <<a, b>> \in F \X F  OBVIOUS
<1>4. OnCurve(a, b) <=> <<a, b>> \in Points /\ <<a, b>> # Infinity
  BY <1>1, <1>2, <1>3 DEF Points, Infinity
<1>5. ASSUME OnCurve(a, b)
      PROVE  Negate(<<a, b>>) \in Points /\ Negate(<<a, b>>) # Infinity
  <2>1. PICK d \in F : Negate(<<a, b>>) = <<a, d>> /\ d = (-b) % P  BY OppositeOf
  <2>2. OnCurve(a, d)  BY <1>5, <2>1, MirrorOnCurve
  <2>3. <<a, d>> # <<0, 0>>
    <3>1. a = 0 /\ d = 0 => FALSE  BY <1>1, <2>2
    <3> QED  BY <3>1
  <2> QED  BY <2>1, <2>2, <2>3 DEF Points, Infinity
<1> QED  BY <1>4, <1>5

\* A point is the only one that adds up with another to infinity.
LEMMA OnlyOpposite ==
  ASSUME NEW a \in F, NEW b \in F, OnCurve(a, b), NEW q \in Points,
         GroupAdd(<<a, b>>, q) = Infinity
  PROVE  q = Negate(<<a, b>>)
<1> DEFINE p == <<a, b>>
           o == Negate(p)
<1>1. p \in Points /\ p # Infinity /\ o \in Points /\ o # Infinity  BY FinitePoints
<1> HIDE DEF p
<1>2. GroupAdd(p, o) = Infinity  BY <1>1, GroupAddCases
<1> HIDE DEF o
<1>3. GroupAdd(o, p) = Infinity  BY <1>1, <1>2, GroupLaw
<1>4. GroupAdd(GroupAdd(o, p), q) = GroupAdd(o, GroupAdd(p, q))  BY <1>1, GroupLaw
<1>5. q = o  BY <1>3, <1>4, GroupLaw DEF p
<1> QED  BY <1>5 DEF o, p

\* Words that stand for a point, read as numbers.
LEMMA StandsFinite ==
  ASSUME HasForm, NEW p, NEW pt, Stands(p, pt)
  PROVE  /\ pt \in Points
         /\ p[3] = 0 <=> pt = Infinity
         /\ pt # Infinity =>
              \E a, b \in F : \E z \in Int :
                /\ pt = <<a, b>> /\ OnCurve(a, b) /\ ~Same(z, 0)
                /\ Means(p[1], a * z) /\ Means(p[2], b * z) /\ Means(p[3], z)
<1>1. CASE p[3] = 0  BY <1>1, GroupLaw DEF Stands
<1>2. CASE p[3] # 0
  <2>1. PICK a, b \in F, z \in Int :
          /\ pt = <<a, b>> /\ OnCurve(a, b)
          /\ p[3] # 0 /\ Means(p[1], a * z) /\ Means(p[2], b * z) /\ Means(p[3], z)
    BY <1>2 DEF Stands, Finite
  <2>2. pt \in Points /\ pt # Infinity  BY <2>1, FinitePoints
  <2>3. p[3] \in F  BY <2>1 DEF Means
  <2>4. ~Same(z, 0)  BY <2>1, <2>3, WordMeans
  <2> QED  BY <1>2, <2>1, <2>2, <2>4
<1> QED  BY <1>1, <1>2

\* Numbers x*l, y*l and l, with l not zero, stand for the point <<x, y>>.
LEMMA StandsFor ==
  ASSUME HasForm, NEW u, NEW v, NEW w, NEW x \in F, NEW y \in F, NEW l \in Int,
         NEW e \in Int, NEW f \in Int,
         Means(u, e), Means(v, f), Means(w, l), ~Same(l, 0),
         Same(e, x * l), Same(f, y * l), OnCurve(x, y)
  PROVE  Stands(<<u, v, w>>, <<x, y>>)
<1>1. u \in F /\ v \in F /\ w \in F  BY DEF Means
<1>2. w # 0  BY <1>1, WordMeans
<1>3. Means(u, x * l) /\ Means(v, y * l)  BY <1>1, WordMeans
<1>4. Finite(<<u, v, w>>, <<x, y>>)  BY <1>2, <1>3 DEF Finite
<1> QED  BY <1>1, <1>2, <1>4 DEF Stands
=============================================================================
