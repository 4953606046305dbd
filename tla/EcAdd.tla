-------------------------------- MODULE EcAdd -------------------------------
(***************************************************************************)
(* The EcAdd precompile: one call on the calldata words x1, y1, x2, y2.    *)
(* Each branch of the fallback code is an action; a call ends by returning *)
(* a point, by burning all gas, or by never ending (an inverse of zero).   *)
(***************************************************************************)
EXTENDS AltBn128

VARIABLES x1, y1, x2, y2, sum   \* sum is the result

addVars == <<x1, y1, x2, y2, sum>>

Running == <<"running">>
Diverged == <<"diverged">>   \* binaryExtendedEuclideanAlgorithm(0)

AddInit ==
  /\ x1 \in Coordinates /\ y1 \in Coordinates
  /\ x2 \in Coordinates /\ y2 \in Coordinates
  /\ sum = Running

-----------------------------------------------------------------------------
p1IsInfinity == isInfinity(x1, y1)
p2IsInfinity == isInfinity(x2, y2)

answer(r) == sum = Running /\ sum' = r /\ UNCHANGED <<x1, y1, x2, y2>>

BothInfinity == p1IsInfinity /\ p2IsInfinity /\ answer(Returned(<<0, 0>>))

\* The other operand is validated before it is echoed, unconverted.
echo(x, y) ==
  answer(IF inField(x, y) /\ pointIsInCurve(into[x], into[y])
           THEN Returned(<<x, y>>) ELSE Burned)

FirstIsInfinity == p1IsInfinity /\ ~p2IsInfinity /\ echo(x2, y2)

SecondIsInfinity == ~p1IsInfinity /\ p2IsInfinity /\ echo(x1, y1)

bothFinite == ~p1IsInfinity /\ ~p2IsInfinity

EitherOutsideField ==
  /\ bothFinite
  /\ ~inField(x1, y1) \/ ~inField(x2, y2)
  /\ answer(Burned)

bothInField == bothFinite /\ inField(x1, y1) /\ inField(x2, y2)

\* submod(0, y1, P()) = y2, on words not in Montgomery form.
opposite == x1 = x2 /\ addmod(0, sub(P, y1), P) = y2

\* Only the first point is checked: the second is its mirror image.
AddOpposites ==
  /\ bothInField /\ opposite
  /\ answer(IF pointIsInCurve(into[x1], into[y1])
              THEN Returned(<<0, 0>>) ELSE Burned)

\* Mutant: the difference in y3 has its operands swapped.
lineThrough_swapped(mx1, my1, mx2, slope) ==
  LET x3 == mSub(mMul(slope, slope), mAdd(mx1, mx2))
      y3 == mSub(mMul(slope, mSub(x3, mx1)), my1)
  IN  <<outOf[x3], outOf[y3]>>

\* x3 and y3 from the slope, as the two last branches compute them.
lineThrough(mx1, my1, mx2, slope) ==
  LET x3 == mSub(mMul(slope, slope), mAdd(mx1, mx2))
      y3 == mSub(mMul(slope, mSub(mx1, x3)), my1)
  IN  <<outOf[x3], outOf[y3]>>

\* A division whose divisor is zero never returns.
divideThen(dividend, divisor, mx1, my1, mx2) ==
  IF divisor = 0
    THEN Diverged
    ELSE Returned(lineThrough(mx1, my1, mx2, montgomeryDivision(dividend, divisor)))

Double ==
  /\ bothInField /\ ~opposite
  /\ x1 = x2 /\ y1 = y2
  /\ LET x  == into[x1]
         y  == into[y1]
         xx == mMul(x, x)
     IN  answer(IF pointIsInCurve(x, y)
                  THEN divideThen(mAdd(xx, mAdd(xx, xx)), mAdd(y, y), x, y, x)
                  ELSE Burned)

\* Also taken for x1 = x2 with unrelated y1 and y2, where the slope would
\* divide by zero: the curve check has to exclude it.
AddDifferent ==
  /\ bothInField /\ ~opposite
  /\ ~(x1 = x2 /\ y1 = y2)
  /\ LET mx1 == into[x1]
         my1 == into[y1]
         mx2 == into[x2]
         my2 == into[y2]
     IN  answer(IF pointIsInCurve(mx1, my1) /\ pointIsInCurve(mx2, my2)
                  THEN divideThen(mSub(my2, my1), mSub(mx2, mx1),
                                  mx1, my1, mx2)
                  ELSE Burned)

\* After its return or revert the call takes no further step.
AddTerminated == sum # Running /\ UNCHANGED addVars

AddNext ==
  \/ BothInfinity \/ FirstIsInfinity \/ SecondIsInfinity
  \/ EitherOutsideField
  \/ AddOpposites \/ Double \/ AddDifferent
  \/ AddTerminated

AddSpec == AddInit /\ [][AddNext]_addVars

-----------------------------------------------------------------------------
inputsValid == ValidPoint(x1, y1) /\ ValidPoint(x2, y2)

\* EIP-196: on valid points the call returns their sum in the group, in every
\* branch of the fallback; with a coordinate outside the field or a point off
\* the curve it fails, although the branches check different points, and one
\* only the first.
ReturnsGroupSum ==
  sum # Running
    => sum = IF inputsValid THEN Returned(GroupAdd(<<x1, y1>>, <<x2, y2>>)) ELSE Burned
=============================================================================
