---------------------------- MODULE MCMontgomery ----------------------------
(***************************************************************************)
(* The Montgomery arithmetic on 5-bit words: the binary extended Euclidean *)
(* inverse of every base, and the three texts of the field operations side *)
(* by side, with every operand and every word loaded.  P256VERIFY's and    *)
(* secp256k1VERIFY's texts get an order that fills the word, so that REDC  *)
(* and the halving carry; alt_bn128's, which looks at no carry, one that   *)
(* leaves a spare bit.                                                     *)
(***************************************************************************)
EXTENDS BinaryInverse

CONSTANTS
  nPrime,                   \* P_PRIME(), N_PRIME() for modulus
  bnOrder, bnPrime, bnR2    \* P(), N_PRIME(), R2_MOD_P() of the alt_bn128 text

VARIABLES
  text,        \* what is computed: "inverse", or the field in the text "r1", "k1" or "bn"
  reg, last    \* of MontgomeryField

R1 == INSTANCE MontgomeryField WITH Variant <- "r1", n <- modulus
K1 == INSTANCE MontgomeryField WITH Variant <- "k1", n <- modulus
BN == INSTANCE MontgomeryField
        WITH Variant <- "bn", n <- bnOrder, nPrime <- bnPrime, r2 <- bnR2

ASSUME FieldAssumptions ==
  /\ R1!FieldAssumption /\ R1!PrecomputedAssumption
  /\ BN!FieldAssumption /\ BN!PrecomputedAssumption

MCInit ==
  \/ text = "inverse" /\ Init /\ reg = 0 /\ last = <<"load", 0>>
  \/ /\ base = 0 /\ Init
     /\ \/ text = "r1" /\ R1!Init
        \/ text = "k1" /\ K1!Init
        \/ text = "bn" /\ BN!Init

Invert == text = "inverse" /\ Next /\ UNCHANGED <<text, reg, last>>

Compute ==
  /\ \/ text = "r1" /\ R1!Next
     \/ text = "k1" /\ K1!Next
     \/ text = "bn" /\ BN!Next
  /\ UNCHANGED <<text, vars>>

\* A call of the inverse runs on its own, the operations are called at will.
MCSpec == MCInit /\ [][Invert \/ Compute]_<<vars, text, reg, last>> /\ WF_vars(Invert)

-----------------------------------------------------------------------------
(* Montgomery form is faithful in every text: eq() on words in Montgomery  *)
(* form decides equality of field elements, whatever operation gave them.  *)
EncodingIsFaithfulInAll ==
  CASE text = "inverse" -> TRUE
    [] text = "r1" -> R1!EncodingIsFaithful
    [] text = "k1" -> K1!EncodingIsFaithful
    [] text = "bn" -> BN!EncodingIsFaithful

(* Each text implements the prime field: loading any word and every sum,   *)
(* difference, product and quotient of montgomeryAdd, montgomerySub,       *)
(* montgomeryMul and montgomeryDiv is the field's, read through            *)
(* outOfMontgomeryForm.                                                    *)
ImplementsField ==
  /\ CASE text = "r1" -> R1!Field!Init [] text = "k1" -> K1!Field!Init
       [] text = "bn" -> BN!Field!Init [] text = "inverse" -> TRUE
  /\ [][CASE text = "inverse" -> FALSE
          [] text = "r1" -> R1!Field!Next
          [] text = "k1" -> K1!Field!Next
          [] text = "bn" -> BN!Field!Next]_<<reg, last>>
=============================================================================
