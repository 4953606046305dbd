------------------------------ MODULE MCEcdsa -------------------------------
(***************************************************************************)
(* Ecdsa with 5-bit words on two curves of prime order N < P, as in        *)
(* secp256r1 and secp256k1: 17 points over the field of 23 elements (P and *)
(* N without spare bits, A = -3), and 13 points over the field of 19       *)
(* elements (A = 0).  Every r and s of the scalar field and the first      *)
(* values outside it, every key of the curve and one key of each malformed *)
(* kind, hashes below, at and above N.                                     *)
(***************************************************************************)
EXTENDS Ecdsa

\* The tables hold what the routines of the two texts compute.
ASSUME TablesAssumption == FieldOperations /\ ScalarOperations

MCG_r1 == <<1, 6>>
MCG_k1 == <<4, 3>>

MCHashes == {0, 1, 5, N - 1, N, N + 1, R - 1}
MCSignatures == 0 .. N

\* All points, infinity included; off the curve; outside the field.
MCKeys == Points \cup {<<1, 1>>, <<P, 0>>, <<0, P>>, <<R - 1, R - 1>>}
=============================================================================
