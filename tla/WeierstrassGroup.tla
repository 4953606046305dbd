-------------------------- MODULE WeierstrassGroup --------------------------
(***************************************************************************)
(* Reference: the group of a short Weierstrass curve y^2 = x^3 + A*x + B   *)
(* over the field of P elements, by the chord and tangent rule on plain    *)
(* integers.  No Montgomery form, no projective coordinates: the           *)
(* precompiles are compared with this.  As in EIP-196, <<0, 0>> stands for *)
(* the point at infinity.                                                  *)
(***************************************************************************)
EXTENDS Integers, Sequences, FiniteSets

CONSTANTS
  P,   \* the field order, an odd prime
  A,   \* curve coefficients
  B,
  N    \* the number of points, a prime

F == 0 .. (P - 1)

OnCurve(x, y) == (y * y) % P = (x * x * x + A * x + B) % P

ASSUME CurveAssumption ==
  /\ P \in Nat /\ P > 3 /\ \A d \in 2 .. (P - 1) : P % d # 0
  /\ A \in F /\ B \in F
  /\ B # 0                                       \* (0, 0) is free to be used
  /\ (4 * A * A * A + 27 * B * B) % P # 0        \* the curve is not singular

Infinity == <<0, 0>>

Points == {p \in F \X F : OnCurve(p[1], p[2])} \cup {Infinity}

InverseModP(x) == CHOOSE z \in F : (x * z) % P = 1

Negate(p) == <<p[1], (-p[2]) % P>>

\* The third point of the line through p and q with the given slope, mirrored.
OnLine(p, q, slope) ==
  LET x == (slope * slope - p[1] - q[1]) % P
  IN  <<x, (slope * (p[1] - x) - p[2]) % P>>

GroupAdd(p, q) ==
  CASE p = Infinity -> q
    [] q = Infinity -> p
    [] p # Infinity /\ q # Infinity /\ q = Negate(p) -> Infinity
    [] p # Infinity /\ q = p /\ q # Negate(p) ->
         OnLine(p, p, ((3 * p[1] * p[1] + A) * InverseModP((2 * p[2]) % P)) % P)
    [] p # Infinity /\ q # Infinity /\ q # p /\ q # Negate(p) ->
         OnLine(p, q, ((q[2] - p[2]) * InverseModP((q[1] - p[1]) % P)) % P)

\* Multiples[p][k] = k*p for k below the group order.
Multiples ==
  [p \in Points |->
     LET multiple[k \in 0 .. (N - 1)] ==
           IF k = 0 THEN Infinity ELSE GroupAdd(multiple[k - 1], p)
     IN  multiple]

GroupMul(k, p) == Multiples[p][k % N]

\* The curves in use have prime order, so no point but infinity has y = 0.
ASSUME OrderAssumption ==
  /\ N = Cardinality(Points)
  /\ N > 2 /\ \A d \in 2 .. (N - 1) : N % d # 0

(***************************************************************************)
(* The classical theorem that the chord and tangent rule makes the points  *)
(* an abelian group, whose order annihilates every point.  It is a theorem *)
(* about every curve that the two assumptions above admit, not a condition *)
(* on the code; the inverse and the unit are left out, as they are evident *)
(* from the definitions.                                                   *)
(***************************************************************************)
ASSUME GroupAssumption ==
  /\ \A p, q \in Points :
       GroupAdd(p, q) \in Points /\ GroupAdd(p, q) = GroupAdd(q, p)
  /\ \A p, q, o \in Points :
       GroupAdd(GroupAdd(p, q), o) = GroupAdd(p, GroupAdd(q, o))
  /\ \A p \in Points : GroupAdd(GroupMul(N - 1, p), p) = Infinity
=============================================================================
