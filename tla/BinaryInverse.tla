--------------------------- MODULE BinaryInverse ----------------------------
(***************************************************************************)
(* binaryExtendedEuclideanAlgorithm: the modular inverse every precompile  *)
(* that divides relies on.  The variables are the locals of the function,  *)
(* one step is one loop test or one pass through a loop body.              *)
(*                                                                         *)
(* The call inverts `base` in Montgomery form: with base = a*R it is to    *)
(* return a^(-1)*R, which is the number inv with base*inv = R^2 (mod       *)
(* modulus).  The code never tests base for zero.                          *)
(***************************************************************************)
EXTENDS Montgomery

CONSTANTS
  modulus,   \* an odd prime: P() or N() of the precompile
  r2         \* R^2 modulo the modulus, a precomputed constant of the code

ASSUME ModulusAssumption ==
  /\ modulus \in Nat /\ modulus > 2 /\ modulus % 2 = 1 /\ modulus < R
  /\ r2 \in 0 .. (modulus - 1)
  /\ \A d \in 2 .. (modulus - 1) : ~Divides(d, modulus)

\* The text without carry handling is only used with alt_bn128's modulus.
ASSUME SpareBitsAssumption == Variant = "bn" => modulus < mask

VARIABLES base, u, v, b, c, inv, pc

vars == <<base, u, v, b, c, inv, pc>>

Init ==
  /\ base \in 0 .. (modulus - 1)
  /\ u = base /\ v = modulus
  /\ b = r2 /\ c = 0
  /\ inv = 0
  /\ pc = "outer"

-----------------------------------------------------------------------------
EnterLoop ==
  /\ pc = "outer" /\ u # 1 /\ v # 1
  /\ pc' = "halveU"
  /\ UNCHANGED <<base, u, v, b, c, inv>>

HalveU ==
  /\ pc = "halveU" /\ u % 2 = 0
  /\ u' = u \div 2
  /\ b' = halveCoefficient(b, modulus)
  /\ UNCHANGED <<base, v, c, inv, pc>>

UIsOdd ==
  /\ pc = "halveU" /\ u % 2 = 1
  /\ pc' = "halveV"
  /\ UNCHANGED <<base, u, v, b, c, inv>>

HalveV ==
  /\ pc = "halveV" /\ v % 2 = 0
  /\ v' = v \div 2
  /\ c' = halveCoefficient(c, modulus)
  /\ UNCHANGED <<base, u, b, inv, pc>>

VIsOdd ==
  /\ pc = "halveV" /\ v % 2 = 1
  /\ pc' = "subtract"
  /\ UNCHANGED <<base, u, v, b, c, inv>>

\* Mutant: the smaller remainder is not looked for.
SubtractFromU_always ==
  /\ pc = "subtract"
  /\ u' = sub(u, v)
  /\ b' = subtractCoefficient(b, c, modulus)
  /\ pc' = "outer"
  /\ UNCHANGED <<base, v, c, inv>>

SubtractFromU ==
  /\ pc = "subtract" /\ ~(v > u)
  /\ u' = sub(u, v)
  /\ b' = subtractCoefficient(b, c, modulus)
  /\ pc' = "outer"
  /\ UNCHANGED <<base, v, c, inv>>

SubtractFromV ==
  /\ pc = "subtract" /\ v > u
  /\ v' = sub(v, u)
  /\ c' = subtractCoefficient(c, b, modulus)
  /\ pc' = "outer"
  /\ UNCHANGED <<base, u, b, inv>>

\* Mutant: only u = 1 is taken for the end.
Return_onlyU ==
  /\ pc = "outer" /\ u = 1
  /\ inv' = b /\ pc' = "done"
  /\ UNCHANGED <<base, u, v, b, c>>

Return ==
  /\ pc = "outer" /\ (u = 1 \/ v = 1)
  /\ inv' = IF u = 1 THEN b ELSE c
  /\ pc' = "done"
  /\ UNCHANGED <<base, u, v, b, c>>

Next ==
  \/ EnterLoop
  \/ HalveU \/ UIsOdd
  \/ HalveV \/ VIsOdd
  \/ SubtractFromU \/ SubtractFromV
  \/ Return

\* The function runs on its own: nothing else can take its turn.
Spec == Init /\ [][Next]_vars /\ WF_vars(Next)

-----------------------------------------------------------------------------
\* Type invariant: every local is a word the algorithm can meaningfully hold
\* and the coefficients stay reduced, although x+modulus may leave the word.
TypeOK ==
  /\ base \in 0 .. (modulus - 1)
  /\ u \in 0 .. (modulus - 1) /\ v \in 1 .. modulus
  /\ b \in 0 .. (modulus - 1) /\ c \in 0 .. (modulus - 1)
  /\ inv \in 0 .. (modulus - 1)
  /\ pc \in {"outer", "halveU", "halveV", "subtract", "done"}

\* The loop invariant of binaryExtendedEuclideanAlgorithm: u*R^2 = base*b and
\* v*R^2 = base*c modulo the modulus, through every halving whose carry was
\* lost and put back and every subtraction that wraps.
CoefficientsTrackRemainders ==
  /\ Divides(modulus, u * r2 - base * b)
  /\ Divides(modulus, v * r2 - base * c)

\* u and v never get a common factor, so the loop cannot reach u = v before
\* one of them is 1.
RemainderGcdIsOne ==
  base # 0 => \A d \in 2 .. modulus : ~(Divides(d, u) /\ Divides(d, v))

\* The remainder u never becomes zero when base is not: a zero u would be
\* halved for ever.
NeverZeroRemainder == base # 0 => u # 0

\* What the callers of montgomeryModularInverse rely on: the value returned is
\* reduced and base*inv = R^2, that is, inv is the inverse in Montgomery form.
InverseIsCorrect ==
  pc = "done" => inv < modulus /\ Divides(modulus, base * inv - r2)

\* Each pass through a loop body strictly decreases u+v: the bound on the
\* number of iterations, hence on the gas, of a call with non-zero base.
RemaindersDecrease ==
  [][<<u, v>>' # <<u, v>> => u' + v' < u + v]_vars

\* A call with a non-zero base returns.
Terminates == (base # 0) ~> (pc = "done")

\* A call with base zero never does: it halves u = 0 until the gas is spent.
\* The callers have to exclude this case themselves.
ZeroDiverges == base = 0 => pc # "done"

-----------------------------------------------------------------------------
\* Where the loops are: inside the body v is not 1, and u and v are not both
\* 1; a zero base never gets past the first inner loop.
LoopPosition ==
  /\ pc = "halveU" => v # 1 /\ (u = 1 => v % 2 = 1)
  /\ pc = "halveV" => u % 2 = 1 /\ (u = 1 => v % 2 = 1 /\ v # 1)
  /\ pc = "subtract" => u % 2 = 1 /\ v % 2 = 1 /\ ~(u = 1 /\ v = 1)
  /\ base = 0 => u = 0 /\ v = modulus /\ pc \in {"outer", "halveU"}

\* The inductive invariant of the proofs.
IInv ==
  /\ TypeOK
  /\ LoopPosition
  /\ CoefficientsTrackRemainders
  /\ RemainderGcdIsOne
  /\ NeverZeroRemainder
  /\ InverseIsCorrect
=============================================================================
