----------------------------- MODULE GasEstimate ----------------------------
(***************************************************************************)
(* eth_estimateGas and zks_estimateFee: one call of estimate_gas_impl.     *)
(* The prices are settled first, then a binary search looks for the least  *)
(* gas limit of the transaction's body that executes, and the scaled       *)
(* result is tried once more before it is answered.  All gas is u32: a sum *)
(* that leaves the word wraps in a release build and panics in a debug     *)
(* one.  The code looks for that only in its last sum.                     *)
(*                                                                         *)
(* The VM is external.  A transaction needs `need` gas for its body, and   *)
(* more gas never makes it fail.                                           *)
(***************************************************************************)
EXTENDS Integers

CONSTANTS
  U32,                        \* 2^32
  MAX_L2_TX_GAS_LIMIT,
  OVERESTIMATION,             \* ESTIMATE_GAS_ACCEPTABLE_OVERESTIMATION
  scale(_),                   \* times ESTIMATE_GAS_SCALE_FACTOR, in f32
  derive_overhead(_),         \* the bootloader's overhead for a gas limit
  PUBLISH_BYTE_OVERHEAD,      \* ESTIMATE_GAS_PUBLISH_BYTE_OVERHEAD
  MAX_PUBDATA_PER_BLOCK, MAX_GAS_PER_PUBDATA_BYTE,
  L2_GAS_PRICE, L1_GAS_PER_PUBDATA_BYTE,
  L1Prices, PubdataLimits, Lengths, Needs   \* the calls considered

ASSUME SearchAssumption ==
  /\ MAX_L2_TX_GAS_LIMIT \in Nat /\ OVERESTIMATION \in Nat \ {0}
  /\ U32 \in Nat /\ 2 * MAX_L2_TX_GAS_LIMIT < U32
  /\ \A gas \in 0 .. MAX_L2_TX_GAS_LIMIT : scale(gas) \in Nat /\ scale(gas) >= gas
  /\ \A gas \in 0 .. (U32 - 1) : derive_overhead(gas) \in Nat
  /\ \A less \in 0 .. (U32 - 1), gas \in 0 .. (U32 - 1) :
        less <= gas => less + derive_overhead(less) <= gas + derive_overhead(gas)

ASSUME PriceAssumption ==
  /\ {L2_GAS_PRICE, L1_GAS_PER_PUBDATA_BYTE, MAX_GAS_PER_PUBDATA_BYTE} \subseteq Nat \ {0}
  /\ {PUBLISH_BYTE_OVERHEAD, MAX_PUBDATA_PER_BLOCK} \subseteq Nat
  /\ L1Prices \subseteq Nat /\ Lengths \subseteq Nat /\ Needs \subseteq Nat
  /\ PubdataLimits \subseteq 0 .. MAX_GAS_PER_PUBDATA_BYTE
  /\ \A gas \in 0 .. (U32 - 1) :
        MAX_PUBDATA_PER_BLOCK * MAX_GAS_PER_PUBDATA_BYTE + derive_overhead(gas) < U32

VARIABLES
  request,   \* the call: need, L1 price, pubdata limit, length of new bytecode
  prices,    \* once settled: gas per pubdata byte, gas_for_bytecodes_pubdata
  lower_bound, upper_bound, pc, fee

vars == <<request, prices, lower_bound, upper_bound, pc, fee>>

Init ==
  /\ request \in [need : Needs, l1_gas_price : L1Prices,
                  gas_per_pubdata : PubdataLimits, length : Lengths]
  /\ prices = <<>>
  /\ lower_bound = 0 /\ upper_bound = MAX_L2_TX_GAS_LIMIT
  /\ pc = "pricing" /\ fee = 0

-----------------------------------------------------------------------------
(***************************************************************************)
(* Prices.                                                                 *)
(***************************************************************************)
ceil_div(a, b) == (a + b - 1) \div b
maximum(a, b) == IF a > b THEN a ELSE b
minimum(a, b) == IF a < b THEN a ELSE b

(* derive_base_fee_and_gas_per_pubdata, of the VM *)
base_fee(l1_gas_price) ==
  maximum(L2_GAS_PRICE,
          ceil_div(l1_gas_price * L1_GAS_PER_PUBDATA_BYTE, MAX_GAS_PER_PUBDATA_BYTE))

derive_gas_per_pubdata(l1_gas_price) ==
  ceil_div(l1_gas_price * L1_GAS_PER_PUBDATA_BYTE, base_fee(l1_gas_price))

\* Mutant: the price is not lowered by one unit of pubdata.
adjust_l1_gas_price_for_tx_tooHigh(l1_gas_price, tx_gas_per_pubdata_limit) ==
  IF derive_gas_per_pubdata(l1_gas_price) <= tx_gas_per_pubdata_limit
    THEN l1_gas_price
    ELSE (L2_GAS_PRICE * (tx_gas_per_pubdata_limit + 1)) \div L1_GAS_PER_PUBDATA_BYTE

adjust_l1_gas_price_for_tx(l1_gas_price, tx_gas_per_pubdata_limit) ==
  IF derive_gas_per_pubdata(l1_gas_price) <= tx_gas_per_pubdata_limit
    THEN l1_gas_price
    ELSE (L2_GAS_PRICE * (tx_gas_per_pubdata_limit - 1)) \div L1_GAS_PER_PUBDATA_BYTE

(* A limit of zero in the request stands for the largest one. *)
pubdataLimit ==
  IF request.gas_per_pubdata = 0 THEN MAX_GAS_PER_PUBDATA_BYTE ELSE request.gas_per_pubdata

(* ESTIMATE_GAS_L1_GAS_PRICE_SCALE_FACTOR is 1.2 *)
scaledL1Price == (request.l1_gas_price * 12) \div 10

gasPerPubdata ==
  derive_gas_per_pubdata(adjust_l1_gas_price_for_tx(scaledL1Price, pubdataLimit))

(* A bytecode the storage knows, here of length 0, is not published again. *)
pubdata_for_factory_deps ==
  IF request.length = 0 THEN 0 ELSE request.length + PUBLISH_BYTE_OVERHEAD

bytecodesCost == pubdata_for_factory_deps * gasPerPubdata

Reject ==
  /\ pc = "pricing" /\ pubdata_for_factory_deps > MAX_PUBDATA_PER_BLOCK
  /\ pc' = "rejected"
  /\ UNCHANGED <<request, prices, lower_bound, upper_bound, fee>>

SettlePrices ==
  /\ pc = "pricing" /\ pubdata_for_factory_deps <= MAX_PUBDATA_PER_BLOCK
  /\ prices' = [gas_per_pubdata |-> gasPerPubdata, bytecodes |-> bytecodesCost]
  /\ pc' = "search"
  /\ UNCHANGED <<request, lower_bound, upper_bound, fee>>

-----------------------------------------------------------------------------
(***************************************************************************)
(* The search.                                                             *)
(***************************************************************************)

fits(gas) == gas + derive_overhead(gas) < U32

(* estimate_gas_step, by whether the transaction may succeed: the VM is    *)
(* given the limit and the overhead that goes with it, on a copy of the    *)
(* storage with the nonce and a balance that cover the transaction.  Where *)
(* the sum leaves u32 it is given a limit of no meaning.                   *)
estimate_gas_step(tx_gas_limit) ==
  IF fits(tx_gas_limit) THEN {tx_gas_limit >= prices.bytecodes + request.need} ELSE BOOLEAN

searching == pc = "search" /\ lower_bound + OVERESTIMATION < upper_bound

mid == (lower_bound + upper_bound) \div 2

try_gas_limit == (prices.bytecodes + mid) % U32

\* Mutant: a limit above the one that failed is not tried again.
AttemptFails_skipsOne ==
  /\ searching /\ FALSE \in estimate_gas_step(try_gas_limit)
  /\ lower_bound' = mid + 2
  /\ UNCHANGED <<request, prices, upper_bound, pc, fee>>

\* Mutant: a limit that failed takes the lower bound back.
AttemptFails_stays ==
  /\ searching /\ FALSE \in estimate_gas_step(try_gas_limit)
  /\ lower_bound' = IF mid > OVERESTIMATION THEN mid - OVERESTIMATION ELSE 0
  /\ UNCHANGED <<request, prices, upper_bound, pc, fee>>

AttemptFails ==
  /\ searching /\ FALSE \in estimate_gas_step(try_gas_limit)
  /\ lower_bound' = mid + 1
  /\ UNCHANGED <<request, prices, upper_bound, pc, fee>>

\* Mutant: the limit that succeeded is taken for one too many.
AttemptSucceeds_tooLow ==
  /\ searching /\ TRUE \in estimate_gas_step(try_gas_limit)
  /\ upper_bound' = mid - 1
  /\ UNCHANGED <<request, prices, lower_bound, pc, fee>>

AttemptSucceeds ==
  /\ searching /\ TRUE \in estimate_gas_step(try_gas_limit)
  /\ upper_bound' = mid
  /\ UNCHANGED <<request, prices, lower_bound, pc, fee>>

-----------------------------------------------------------------------------
(***************************************************************************)
(* The answer.                                                             *)
(***************************************************************************)
found == pc = "search" /\ ~searching

tx_body_gas_limit == minimum(MAX_L2_TX_GAS_LIMIT, scale(upper_bound))

suggested_gas_limit == (tx_body_gas_limit + prices.bytecodes) % U32

extra == prices.bytecodes + derive_overhead(suggested_gas_limit)

Unexecutable ==
  /\ found /\ FALSE \in estimate_gas_step(suggested_gas_limit)
  /\ pc' = "unexecutable"
  /\ UNCHANGED <<request, prices, lower_bound, upper_bound, fee>>

ExceedsBlock ==
  /\ found /\ TRUE \in estimate_gas_step(suggested_gas_limit)
  /\ tx_body_gas_limit + extra >= U32
  /\ pc' = "exceeds"
  /\ UNCHANGED <<request, prices, lower_bound, upper_bound, fee>>

Answer ==
  /\ found /\ TRUE \in estimate_gas_step(suggested_gas_limit)
  /\ tx_body_gas_limit + extra < U32
  /\ fee' = tx_body_gas_limit + extra
  /\ pc' = "answered"
  /\ UNCHANGED <<request, prices, lower_bound, upper_bound>>

(* A debug build checks every sum. *)
PanicOnOverflow ==
  /\ \/ searching /\ (prices.bytecodes + mid >= U32 \/ ~fits(try_gas_limit))
     \/ found /\ (prices.bytecodes + tx_body_gas_limit >= U32 \/ ~fits(suggested_gas_limit))
  /\ pc' = "panicked"
  /\ UNCHANGED <<request, prices, lower_bound, upper_bound, fee>>

ended == pc \notin {"pricing", "search"}

Ended == ended /\ UNCHANGED vars

Next ==
  \/ Reject \/ SettlePrices
  \/ AttemptFails \/ AttemptSucceeds
  \/ Unexecutable \/ ExceedsBlock \/ Answer \/ PanicOnOverflow
  \/ Ended

\* The handler runs to its end: nothing else takes its turn.
Spec == Init /\ [][Next]_vars /\ WF_vars(Next)

-----------------------------------------------------------------------------
(* In order for execution to pass, the block's gas per pubdata byte must   *)
(* not exceed the transaction's limit: what adjust_l1_gas_price_for_tx is  *)
(* for, with two roundings up and one down on the way.                     *)
PubdataWithinLimit == prices # <<>> => prices.gas_per_pubdata <= pubdataLimit

(* An answer is enough for the transaction, its bytecodes and the overhead *)
(* the bootloader charges, and no more than the scaled search result: it   *)
(* exceeds the least sufficient body by at most the accepted               *)
(* overestimation and the scale factor.                                    *)
EstimateIsTight ==
  pc = "answered" =>
    /\ fee >= prices.bytecodes + request.need + derive_overhead(suggested_gas_limit)
    /\ \E least \in request.need .. (request.need + OVERESTIMATION) :
          fee <= minimum(MAX_L2_TX_GAS_LIMIT, scale(least))
                   + prices.bytecodes + derive_overhead(suggested_gas_limit)

(* A transaction whose body fits the limit is refused, or the estimate     *)
(* abandoned, only where the gas for its bytecodes and the overhead leave  *)
(* u32: the search never leaves the interval that holds its need.          *)
RefusesOnlyUnexecutable ==
  pc \in {"unexecutable", "exceeds", "panicked"} =>
    \/ request.need > MAX_L2_TX_GAS_LIMIT
    \/ \E body \in 0 .. MAX_L2_TX_GAS_LIMIT :
          LET gas == prices.bytecodes + body IN gas >= U32 \/ ~fits(gas)

(* The search ends. *)
Terminates == <>ended
=============================================================================
