------------------------------- MODULE MCGas --------------------------------
(***************************************************************************)
(* Gas, estimated and displayed.                                           *)
(*                                                                         *)
(* GasEstimate on 8-bit words: every need up to two above the largest gas  *)
(* limit, L1 prices that leave the pubdata limit alone and ones that do    *)
(* not, bytecodes whose gas fits the word, fills it, and leaves it.        *)
(*                                                                         *)
(* TxDisplay of transactions of up to eight gas, one more than is trusted, *)
(* with two selectors and two topics (one of each built in), a slot that   *)
(* is paid for and a free one.                                             *)
(***************************************************************************)
EXTENDS GasEstimate

CONSTANTS transfer, burn, approval, sync   \* signatures of functions and topics

CONSTANTS
  Selectors, Topics, KnownSignatures, Listed, Slots, FreeSlots, WriteCosts, GasRuns,
  TRUSTED_GAS_LIMIT, INTRINSIC_OVERHEAD, NEAR_CALL_COST, MaxItems, None

VARIABLES settings, phase, items, debug, cost_paid, payments, CACHE, answers, poisoned

D == INSTANCE TxDisplay

ASSUME DisplayAssumption == D!DisplayAssumption

MCListed == [signature \in {transfer, burn, approval, sync} |->
               CASE signature = sync -> "filtered" [] signature = burn -> "name" [] OTHER -> "missing"]
MCGasRuns ==
  [limit : 0 .. 8, operator : 1 .. 2, required : 1 .. 2,
   validation : 0 .. 1, deps : 0 .. 3, body : {0, 2, 3}]

MCNeeds == 0 .. (MAX_L2_TX_GAS_LIMIT + 2)
MCscale(gas) == (gas * 13) \div 10
MCoverhead(gas) == maximum(3, ceil_div(gas, 8))

-----------------------------------------------------------------------------
displayVars == <<settings, phase, items, debug, cost_paid, payments, CACHE, answers, poisoned>>

NoEstimate == /\ request = <<>> /\ prices = <<>> /\ lower_bound = 0 /\ upper_bound = 0
              /\ pc = "no call" /\ fee = 0
NoDisplay == /\ settings = <<>> /\ phase = "no request" /\ items = 0 /\ debug = None
             /\ cost_paid = <<>> /\ payments = <<>> /\ CACHE = <<>> /\ poisoned = None
             /\ answers = [signature \in Selectors \cup Topics |-> 0]

Estimate == pc # "no call" /\ Next /\ UNCHANGED displayVars

MCSpec ==
  /\ (Init /\ NoDisplay) \/ (NoEstimate /\ D!Init)
  /\ [][Estimate \/ (phase # "no request" /\ D!Next /\ UNCHANGED vars)]_<<vars, displayVars>>
  /\ WF_vars(Estimate)

-----------------------------------------------------------------------------
(* A displayed transaction's gas adds up, and stops the node only where    *)
(* the preparation of bytecodes took more than the validation left.        *)
GasDetailsAddUp == D!GasDetailsAddUp

(* The pubdata displayed for a slot covers the total displayed with it.    *)
PaymentsCoverTotal == D!PaymentsCoverTotal

(* What the signature directory has answered is not asked again.           *)
DirectoryAnswersOnce == D!DirectoryAnswersOnce

(* Displaying more does not stop the node.                                 *)
NodeSurvivesDisplay == D!NodeSurvivesDisplay
=============================================================================
