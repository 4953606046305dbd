-------------------------------- MODULE EcMul -------------------------------
(***************************************************************************)
(* The EcMul precompile: one call on the calldata words x, y, k.  The      *)
(* prologue's early returns are actions, and so is each pass through the   *)
(* double-and-add loop, by the branch it takes.  r and q are the projective *)
(* points (xr, yr, zr) and (xq, yq, zq) in Montgomery form.                *)
(***************************************************************************)
EXTENDS AltBn128

CONSTANT Scalars   \* the scalars considered

ASSUME ScalarsAssumption == Scalars \subseteq Word

VARIABLES x, y, k, scalar, q, r, pc, result

vars == <<x, y, k, scalar, q, r, pc, result>>

\* The projective infinity the accumulator starts from.
ZeroPoint == <<0, MONTGOMERY_ONE, 0>>

Init ==
  /\ x \in Coordinates /\ y \in Coordinates /\ k \in Scalars
  /\ scalar = k
  /\ q = ZeroPoint /\ r = ZeroPoint
  /\ pc = "entry" /\ result = <<>>

finish(res) ==
  /\ result' = res /\ pc' = "done"
  /\ UNCHANGED <<x, y, k, scalar, q, r>>

OutsideField == pc = "entry" /\ ~inField(x, y) /\ finish(Burned)

TimesInfinity ==
  pc = "entry" /\ inField(x, y) /\ isInfinity(x, y) /\ finish(Returned(<<0, 0>>))

OffCurve ==
  /\ pc = "entry" /\ inField(x, y) /\ ~isInfinity(x, y)
  /\ ~pointIsInCurve(into[x], into[y])
  /\ finish(Burned)

accepted ==
  /\ pc = "entry" /\ inField(x, y) /\ ~isInfinity(x, y)
  /\ pointIsInCurve(into[x], into[y])

affineResult(p) ==
  LET a == projectiveIntoAffine(p) IN Returned(<<outOf[a[1]], outOf[a[2]]>>)

\* Scalars 0, 1 and 2 do not enter the loop.
SmallScalar ==
  /\ accepted /\ k \in 0 .. 2
  /\ finish(CASE k = 0 -> Returned(<<0, 0>>)
              [] k = 1 -> Returned(<<x, y>>)
              [] k = 2 -> affineResult(projectiveDouble(
                            projectiveFromAffine(into[x], into[y]))))

StartLoop ==
  /\ accepted /\ k > 2
  /\ q' = projectiveFromAffine(into[x], into[y])
  /\ r' = ZeroPoint
  /\ pc' = "loop"
  /\ UNCHANGED <<x, y, k, scalar, result>>

-----------------------------------------------------------------------------
lsbIsOne == scalar % 2 = 1

\* One pass that leaves the accumulator and the doubled point at these values.
pass(newR, newQ) ==
  /\ r' = newR /\ q' = newQ
  /\ scalar' = scalar \div 2
  /\ UNCHANGED <<x, y, k, pc, result>>

DoubleOnly ==
  pc = "loop" /\ scalar # 0 /\ ~lsbIsOne /\ pass(r, projectiveDouble(q))

adding == pc = "loop" /\ scalar # 0 /\ lsbIsOne

\* Mutant: the doubled point is not advanced.
AddToInfinity_noDouble ==
  adding /\ projectivePointIsInfinity(r) /\ pass(q, q)

AddToInfinity ==
  adding /\ projectivePointIsInfinity(r) /\ pass(q, projectiveDouble(q))

\* t = yq*zr - yr*zq and u = xq*zr - xr*zq.
tOf == mSub(mMul(q[2], r[3]), mMul(r[2], q[3]))
uOf == mSub(mMul(q[1], r[3]), mMul(r[1], q[3]))

\* Mutant: q keeps its value while r is doubled.
AddEqual_keepsQ ==
  /\ adding /\ ~projectivePointIsInfinity(r)
  /\ tOf = 0 /\ uOf = 0
  /\ pass(projectiveDouble(r), q)

AddEqual ==
  /\ adding /\ ~projectivePointIsInfinity(r)
  /\ tOf = 0 /\ uOf = 0
  /\ LET rr == projectiveDouble(r) IN pass(rr, rr)

\* The general formula; for r = -q it has u = 0 and yields z = 0.
addDistinct(t, u) ==
  LET t0 == mMul(q[2], r[3])
      u0 == mMul(q[1], r[3])
      u1 == mMul(r[1], q[3])
      u2 == mMul(u, u)
      u3 == mMul(u2, u)
      v  == mMul(q[3], r[3])
      w  == mSub(mMul(mMul(t, t), v), mMul(u2, mAdd(u0, u1)))
  IN  << mMul(u, w),
         mSub(mMul(t, mSub(mMul(u0, u2), w)), mMul(t0, u3)),
         mMul(u3, v) >>

AddDistinct ==
  /\ adding /\ ~projectivePointIsInfinity(r)
  /\ ~(tOf = 0 /\ uOf = 0)
  /\ pass(addDistinct(tOf, uOf), projectiveDouble(q))

LeaveLoop == pc = "loop" /\ scalar = 0 /\ finish(affineResult(r))

\* After its return or revert the call takes no further step.
Terminated == pc = "done" /\ UNCHANGED vars

Next ==
  \/ OutsideField \/ TimesInfinity \/ OffCurve \/ SmallScalar \/ StartLoop
  \/ DoubleOnly \/ AddToInfinity \/ AddEqual \/ AddDistinct
  \/ LeaveLoop
  \/ Terminated

Spec == Init /\ [][Next]_vars

-----------------------------------------------------------------------------
\* The affine point, out of Montgomery form, that a projective point stands for.
Affine(p) ==
  LET a == projectiveIntoAffine(p) IN <<outOf[a[1]], outOf[a[2]]>>

\* The double-and-add loop invariant: r + scalar*q is k*(x, y) in the group and
\* both points are on the curve, through every way two projective
\* representations can meet (r = q, r = -q, r at infinity again); the doubled
\* point is never infinity, which the addition formulas would take for finite.
AccumulatorTracksProduct ==
  pc = "loop" =>
    /\ ~projectivePointIsInfinity(q)
    /\ Affine(r) \in Points /\ Affine(q) \in Points
    /\ GroupAdd(Affine(r), GroupMul(scalar, Affine(q)))
         = GroupMul(k, <<x, y>>)

\* EIP-196: a valid point times any 256-bit scalar, reduced or not; a
\* coordinate outside the field or a point off the curve fails the call, also
\* for the scalars with a shortcut.
ReturnsGroupProduct ==
  pc = "done"
    => result = IF ValidPoint(x, y) THEN Returned(GroupMul(k, <<x, y>>)) ELSE Burned
=============================================================================
