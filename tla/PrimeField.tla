----------------------------- MODULE PrimeField -----------------------------
(***************************************************************************)
(* What the Montgomery routines of the precompiles promise to their        *)
(* callers: a register holding an element of the field of n elements, n an *)
(* odd prime, that can be loaded with any word and combined with any field *)
(* element.  Montgomery form, word width and carries do not show.  `last`  *)
(* is the request answered last.                                           *)
(***************************************************************************)
EXTENDS Integers

CONSTANTS n, Words

VARIABLES value, last

Element == 0 .. (n - 1)

Init == value = 0 /\ last = <<"load", 0>>

Load == \E w \in Words : last' = <<"load", w>> /\ value' = w % n

Add == \E x \in Element : last' = <<"add", x>> /\ value' = (value + x) % n

Subtract ==
  \E x \in Element : last' = <<"sub", x>> /\ value' = (value - x) % n

Multiply ==
  \E x \in Element : last' = <<"mul", x>> /\ value' = (value * x) % n

\* The quotient is the element that multiplied by the divisor gives value.
Divide ==
  \E x \in Element \ {0} :
    /\ last' = <<"div", x>>
    /\ value' \in Element /\ (value' * x) % n = value

Next == Load \/ Add \/ Subtract \/ Multiply \/ Divide

Spec == Init /\ [][Next]_<<value, last>>
=============================================================================
