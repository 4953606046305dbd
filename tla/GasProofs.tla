------------------------------ MODULE GasProofs ------------------------------
(***************************************************************************)
(* The binary search of estimate_gas_impl, proved for every word, every    *)
(* gas limit, every overhead that grows with the limit, every transaction; *)
(* and the display of what a transaction spends.                           *)
(*                                                                         *)
(* The search's invariant is that of a binary search, weakened by what     *)
(* overflow does to it: the attempt at the upper bound succeeded or its    *)
(* sum left the word, and the attempt below the lower bound failed or its  *)
(* sum left the word.                                                      *)
(***************************************************************************)
EXTENDS MCGas, TLAPS

Phases == {"pricing", "search", "rejected", "panicked", "unexecutable", "exceeds", "answered"}

\* What the search and the answer read once the prices are settled.
Settled ==
  prices.bytecodes \in 0 .. (MAX_PUBDATA_PER_BLOCK * MAX_GAS_PER_PUBDATA_BYTE)

Tried(mayBe, gas) == mayBe \in estimate_gas_step((prices.bytecodes + gas) % U32)

Bracket ==
  /\ lower_bound \in 0 .. MAX_L2_TX_GAS_LIMIT /\ upper_bound \in 0 .. MAX_L2_TX_GAS_LIMIT
  /\ lower_bound <= upper_bound
  /\ upper_bound = MAX_L2_TX_GAS_LIMIT \/ Tried(TRUE, upper_bound)
  /\ lower_bound = 0 \/ Tried(FALSE, lower_bound - 1)

(* The answer is what the action Answer computed. *)
Answered ==
  pc = "answered" =>
    /\ ~(lower_bound + OVERESTIMATION < upper_bound)
    /\ TRUE \in estimate_gas_step(suggested_gas_limit)
    /\ tx_body_gas_limit + extra < U32
    /\ fee = tx_body_gas_limit + extra

SearchInv ==
  /\ pc \in Phases
  /\ request \in [need : Needs, l1_gas_price : L1Prices,
                  gas_per_pubdata : PubdataLimits, length : Lengths]
  /\ pc = "pricing" => lower_bound = 0 /\ upper_bound = MAX_L2_TX_GAS_LIMIT
  /\ pc \in {"search", "answered", "unexecutable", "exceeds"} => Settled /\ Bracket
  /\ Answered
  /\ PubdataWithinLimit
-----------------------------------------------------------------------------
(***************************************************************************)
(* Arithmetic.                                                             *)
(***************************************************************************)

\* The constants of the search are numbers and its limits fit the word.
LEMMA Sizes ==
  /\ MAX_L2_TX_GAS_LIMIT \in Nat /\ U32 \in Nat /\ 2 * MAX_L2_TX_GAS_LIMIT < U32
  /\ OVERESTIMATION \in Nat /\ OVERESTIMATION > 0
  BY SearchAssumption

\* The constants of the prices are numbers.
LEMMA PriceSizes ==
  /\ L2_GAS_PRICE \in Nat /\ L2_GAS_PRICE > 0
  /\ L1_GAS_PER_PUBDATA_BYTE \in Nat /\ L1_GAS_PER_PUBDATA_BYTE > 0
  /\ MAX_GAS_PER_PUBDATA_BYTE \in Nat /\ MAX_GAS_PER_PUBDATA_BYTE > 0
  /\ PUBLISH_BYTE_OVERHEAD \in Nat /\ MAX_PUBDATA_PER_BLOCK \in Nat
  BY PriceAssumption

\* Multiplying by a natural number keeps the order.
LEMMA TimesMonotone ==
  ASSUME NEW b \in Nat, NEW x \in Int, NEW y \in Int, x <= y
  PROVE  b * x <= b * y
<1>1. b * (y - x) >= 0  BY SMT
<1>2. b * (y - x) = b * y - b * x  BY SMT
<1>3. b * x \in Int /\ b * y \in Int  BY SMT
<1> QED  BY <1>1, <1>2, <1>3, SMT

\* A quotient times its divisor is the dividend but for less than the divisor.
LEMMA QuotientBounds ==
  ASSUME NEW a \in Nat, NEW b \in Nat \ {0}
  PROVE  a \div b \in Nat /\ b * (a \div b) <= a /\ a < b * (a \div b) + b
  BY SMT

\* The sum of two words wraps at most once.
LEMMA SumWraps ==
  ASSUME NEW x \in 0 .. (U32 - 1), NEW y \in 0 .. (U32 - 1)
  PROVE  /\ (x + y) % U32 = IF x + y < U32 THEN x + y ELSE x + y - U32
         /\ (x + y) % U32 \in 0 .. (U32 - 1)
  BY SearchAssumption, SMT

\* Rounding up divides a product of the divisor, or less, within its cofactor.
LEMMA CeilDivBound ==
  ASSUME NEW a \in Nat, NEW b \in Nat \ {0}, NEW k \in Nat, a <= b * k
  PROVE  ceil_div(a, b) <= k
<1> DEFINE q == ceil_div(a, b)
<1>1. q \in Nat /\ b * q <= a + b - 1
  <2>1. a + b - 1 \in Nat  OBVIOUS
  <2> QED  BY <2>1, QuotientBounds DEF ceil_div
<1>2. SUFFICES ASSUME q >= k + 1 PROVE FALSE  BY <1>1
<1>3. b * (k + 1) <= b * q  BY <1>1, <1>2, TimesMonotone
<1>4. b * (k + 1) = b * k + b  BY SMT
<1>5. b * k \in Int /\ b * q \in Int  BY <1>1, SMT
<1> QED  BY <1>1, <1>3, <1>4, <1>5, SMT

\* A quotient rounded up is a natural number.
LEMMA CeilDivNat ==
  ASSUME NEW a \in Nat, NEW b \in Nat \ {0}
  PROVE  ceil_div(a, b) \in Nat
<1>1. a + b - 1 \in Nat  OBVIOUS
<1> QED  BY <1>1, QuotientBounds DEF ceil_div

-----------------------------------------------------------------------------
(***************************************************************************)
(* Prices.                                                                 *)
(***************************************************************************)

\* The base fee covers the fair price of L2 gas; pubdata has a natural price.
LEMMA BaseFee ==
  ASSUME NEW price \in Nat
  PROVE  /\ base_fee(price) \in Nat \ {0} /\ base_fee(price) >= L2_GAS_PRICE
         /\ derive_gas_per_pubdata(price) \in Nat
<1>1. price * L1_GAS_PER_PUBDATA_BYTE \in Nat  BY PriceAssumption, SMT
<1>2. ceil_div(price * L1_GAS_PER_PUBDATA_BYTE, MAX_GAS_PER_PUBDATA_BYTE) \in Nat
  BY <1>1, PriceAssumption, CeilDivNat
<1>3. base_fee(price) \in Nat \ {0} /\ base_fee(price) >= L2_GAS_PRICE
  BY <1>2, PriceAssumption DEF base_fee, maximum
<1> QED  BY <1>1, <1>3, CeilDivNat DEF derive_gas_per_pubdata

\* What adjust_l1_gas_price_for_tx is for: at the adjusted price a byte of
\* pubdata costs no more gas than the transaction's limit.
LEMMA AdjustedPrice ==
  ASSUME NEW price \in Nat, NEW limit \in Nat \ {0}
  PROVE  /\ adjust_l1_gas_price_for_tx(price, limit) \in Nat
         /\ derive_gas_per_pubdata(adjust_l1_gas_price_for_tx(price, limit)) <= limit
<1> DEFINE lowered == (L2_GAS_PRICE * (limit - 1)) \div L1_GAS_PER_PUBDATA_BYTE
<1>1. CASE derive_gas_per_pubdata(price) <= limit
  BY <1>1 DEF adjust_l1_gas_price_for_tx
<1>2. CASE ~(derive_gas_per_pubdata(price) <= limit)
  <2>1. adjust_l1_gas_price_for_tx(price, limit) = lowered
    BY <1>2 DEF adjust_l1_gas_price_for_tx
  <2>2. limit - 1 \in Nat /\ L2_GAS_PRICE * (limit - 1) \in Nat
    BY PriceAssumption, SMT
  <2>3. lowered \in Nat /\ L1_GAS_PER_PUBDATA_BYTE * lowered <= L2_GAS_PRICE * (limit - 1)
    BY <2>2, PriceAssumption, QuotientBounds
  <2>4. base_fee(lowered) \in Nat \ {0} /\ base_fee(lowered) >= L2_GAS_PRICE
    BY <2>3, BaseFee
  <2>5. L2_GAS_PRICE * (limit - 1) <= base_fee(lowered) * (limit - 1)
    <3>1. (limit - 1) * L2_GAS_PRICE <= (limit - 1) * base_fee(lowered)
      BY <2>2, <2>4, PriceAssumption, TimesMonotone
    <3> QED  BY <3>1, <2>2, <2>4, PriceAssumption, SMT
  <2>6. /\ lowered * L1_GAS_PER_PUBDATA_BYTE \in Nat
        /\ lowered * L1_GAS_PER_PUBDATA_BYTE = L1_GAS_PER_PUBDATA_BYTE * lowered
        /\ base_fee(lowered) * (limit - 1) \in Nat
    BY <2>2, <2>3, <2>4, PriceAssumption, SMT
  <2>7. lowered * L1_GAS_PER_PUBDATA_BYTE <= base_fee(lowered) * (limit - 1)
    BY <2>2, <2>3, <2>5, <2>6, SMT
  <2>8. derive_gas_per_pubdata(lowered) <= limit - 1
    BY <2>2, <2>4, <2>6, <2>7, CeilDivBound DEF derive_gas_per_pubdata
  <2> QED  BY <2>1, <2>2, <2>3, <2>8, BaseFee
<1> QED  BY <1>1, <1>2

\* The pubdata limit of a call is positive and its prices are natural numbers.
LEMMA PriceTypes ==
  ASSUME request \in [need : Needs, l1_gas_price : L1Prices,
                      gas_per_pubdata : PubdataLimits, length : Lengths]
  PROVE  /\ pubdataLimit \in 1 .. MAX_GAS_PER_PUBDATA_BYTE
         /\ pubdata_for_factory_deps \in Nat
         /\ gasPerPubdata \in Nat /\ gasPerPubdata <= pubdataLimit
         /\ bytecodesCost \in Nat
<1>1. /\ request.gas_per_pubdata \in 0 .. MAX_GAS_PER_PUBDATA_BYTE
      /\ request.l1_gas_price \in Nat /\ request.length \in Nat
  <2>1. /\ request.gas_per_pubdata \in PubdataLimits
        /\ request.l1_gas_price \in L1Prices /\ request.length \in Lengths
    OBVIOUS
  <2>2. /\ PubdataLimits \subseteq 0 .. MAX_GAS_PER_PUBDATA_BYTE
        /\ L1Prices \subseteq Nat /\ Lengths \subseteq Nat
    BY PriceAssumption
  <2> QED  BY <2>1, <2>2
<1>2. pubdataLimit \in 1 .. MAX_GAS_PER_PUBDATA_BYTE
  BY <1>1, PriceAssumption DEF pubdataLimit
<1>3. scaledL1Price \in Nat  BY <1>1, SMT DEF scaledL1Price
<1>4. gasPerPubdata \in Nat /\ gasPerPubdata <= pubdataLimit
  BY <1>2, <1>3, PriceAssumption, AdjustedPrice, BaseFee DEF gasPerPubdata
<1>5. pubdata_for_factory_deps \in Nat
  BY <1>1, PriceAssumption DEF pubdata_for_factory_deps
<1>6. bytecodesCost \in Nat  BY <1>4, <1>5, SMT DEF bytecodesCost
<1> QED  BY <1>2, <1>4, <1>5, <1>6
-----------------------------------------------------------------------------
(***************************************************************************)
(* The search.                                                             *)
(***************************************************************************)

\* The invariant holds when the call starts.
LEMMA InitEstablishes == Init => SearchInv
  BY SearchAssumption DEF Init, SearchInv, Phases, Answered, PubdataWithinLimit

\* The settled prices are words.
LEMMA SettlesPrices == SearchInv /\ SettlePrices => SearchInv'
<1> SUFFICES ASSUME SearchInv, SettlePrices PROVE SearchInv'  OBVIOUS
<1>1. /\ gasPerPubdata \in Nat /\ gasPerPubdata <= pubdataLimit
      /\ pubdataLimit \in 1 .. MAX_GAS_PER_PUBDATA_BYTE
      /\ pubdata_for_factory_deps \in Nat /\ bytecodesCost \in Nat
  BY PriceTypes, PriceAssumption DEF SearchInv
<1>2. prices'.gas_per_pubdata = gasPerPubdata /\ prices'.bytecodes = bytecodesCost
  BY DEF SettlePrices
<1>3. bytecodesCost <= MAX_PUBDATA_PER_BLOCK * MAX_GAS_PER_PUBDATA_BYTE
  <2>1. pubdata_for_factory_deps <= MAX_PUBDATA_PER_BLOCK  BY DEF SettlePrices
  <2>2. pubdata_for_factory_deps * gasPerPubdata
          <= pubdata_for_factory_deps * MAX_GAS_PER_PUBDATA_BYTE
    <3>1. gasPerPubdata <= MAX_GAS_PER_PUBDATA_BYTE  BY <1>1, PriceSizes
    <3> QED  BY <3>1, <1>1, PriceSizes, TimesMonotone
  <2>3. MAX_GAS_PER_PUBDATA_BYTE * pubdata_for_factory_deps
          <= MAX_GAS_PER_PUBDATA_BYTE * MAX_PUBDATA_PER_BLOCK
    BY <1>1, <2>1, PriceSizes, TimesMonotone
  <2> QED  BY <1>1, <2>2, <2>3, PriceSizes, SMT DEF bytecodesCost
<1>4. Settled'  BY <1>1, <1>2, <1>3, PriceAssumption DEF Settled
<1>5. pubdataLimit' = pubdataLimit  BY DEF SettlePrices, pubdataLimit
<1>6. lower_bound' = 0 /\ upper_bound' = MAX_L2_TX_GAS_LIMIT
  BY DEF SearchInv, SettlePrices
<1>7. Bracket'  BY <1>6, SearchAssumption DEF Bracket
<1> QED  BY <1>1, <1>2, <1>4, <1>5, <1>7
         DEF SearchInv, SettlePrices, Phases, Answered, PubdataWithinLimit

\* The middle of the interval lies strictly below its upper end.
LEMMA MidInside ==
  ASSUME Bracket, searching
  PROVE  mid \in 0 .. MAX_L2_TX_GAS_LIMIT /\ lower_bound <= mid /\ mid < upper_bound
  BY Sizes, SMT DEF Bracket, searching, mid

\* A failed attempt moves the lower bound just past it.
LEMMA FailedAttempt == SearchInv /\ AttemptFails => SearchInv'
<1> SUFFICES ASSUME SearchInv, AttemptFails PROVE SearchInv'  OBVIOUS
<1>1. Settled /\ Bracket /\ pc = "search"  BY DEF SearchInv, AttemptFails, searching
<1>2. mid \in 0 .. MAX_L2_TX_GAS_LIMIT /\ mid < upper_bound
  BY <1>1, MidInside DEF AttemptFails
<1>3. /\ lower_bound' = mid + 1 /\ upper_bound' = upper_bound
      /\ prices' = prices /\ request' = request /\ pc' = pc
  BY DEF AttemptFails
<1>4. Tried(FALSE, mid)  BY DEF AttemptFails, Tried, try_gas_limit
<1>5. lower_bound' - 1 = mid  BY <1>2, <1>3
<1>6. Tried(FALSE, lower_bound - 1)'
  BY <1>3, <1>4, <1>5 DEF Tried, estimate_gas_step, fits
<1>7. upper_bound' = MAX_L2_TX_GAS_LIMIT \/ Tried(TRUE, upper_bound)'
  BY <1>1, <1>3 DEF Bracket, Tried, estimate_gas_step, fits
<1>8. upper_bound \in 0 .. MAX_L2_TX_GAS_LIMIT  BY <1>1 DEF Bracket
<1>9. /\ lower_bound' \in 0 .. MAX_L2_TX_GAS_LIMIT /\ upper_bound' \in 0 .. MAX_L2_TX_GAS_LIMIT
      /\ lower_bound' <= upper_bound'
  BY <1>2, <1>3, <1>8, Sizes
<1>10. Bracket'  BY <1>6, <1>7, <1>9, Zenon DEF Bracket
<1> QED  BY <1>1, <1>3, <1>10 DEF SearchInv, Settled, Answered, PubdataWithinLimit, pubdataLimit

\* A successful attempt becomes the upper bound.
LEMMA SuccessfulAttempt == SearchInv /\ AttemptSucceeds => SearchInv'
<1> SUFFICES ASSUME SearchInv, AttemptSucceeds PROVE SearchInv'  OBVIOUS
<1>1. Settled /\ Bracket /\ pc = "search"  BY DEF SearchInv, AttemptSucceeds, searching
<1>2. mid \in 0 .. MAX_L2_TX_GAS_LIMIT /\ lower_bound <= mid
  BY <1>1, MidInside DEF AttemptSucceeds
<1>3. /\ upper_bound' = mid /\ lower_bound' = lower_bound
      /\ prices' = prices /\ request' = request /\ pc' = pc
  BY DEF AttemptSucceeds
<1>4. Tried(TRUE, mid)  BY DEF AttemptSucceeds, Tried, try_gas_limit
<1>5. Tried(TRUE, upper_bound)'
  BY <1>3, <1>4 DEF Tried, estimate_gas_step, fits
<1>6. lower_bound' = 0 \/ Tried(FALSE, lower_bound - 1)'
  BY <1>1, <1>3 DEF Bracket, Tried, estimate_gas_step, fits
<1>7. Bracket'  BY <1>1, <1>2, <1>3, <1>5, <1>6 DEF Bracket
<1> QED  BY <1>1, <1>3, <1>7 DEF SearchInv, Settled, Answered, PubdataWithinLimit, pubdataLimit

\* An answer records what it was computed from.
LEMMA Answers == SearchInv /\ Answer => SearchInv'
<1> SUFFICES ASSUME SearchInv, Answer PROVE SearchInv'  OBVIOUS
<1>1. /\ lower_bound' = lower_bound /\ upper_bound' = upper_bound
      /\ prices' = prices /\ request' = request /\ pc' = "answered"
  BY DEF Answer
<1>2. Settled /\ Bracket /\ pc = "search" /\ ~searching  BY DEF SearchInv, Answer, found
<1>3. Settled' /\ Bracket'
  BY <1>1, <1>2 DEF Settled, Bracket, Tried, estimate_gas_step, fits
<1>4. Answered'
  <2>1. ~(lower_bound' + OVERESTIMATION < upper_bound')  BY <1>1, <1>2 DEF searching
  <2>2. /\ tx_body_gas_limit' = tx_body_gas_limit /\ extra' = extra
        /\ suggested_gas_limit' = suggested_gas_limit
    BY <1>1 DEF tx_body_gas_limit, extra, suggested_gas_limit
  <2>3. TRUE \in estimate_gas_step(suggested_gas_limit)'
    BY <1>1, <2>2 DEF Answer, estimate_gas_step, fits
  <2> QED  BY <1>1, <2>1, <2>2, <2>3 DEF Answered, Answer
<1> QED  BY <1>1, <1>3, <1>4 DEF SearchInv, Phases, PubdataWithinLimit, pubdataLimit

\* Every other ending leaves the search where it was.
LEMMA OtherEndings ==
  SearchInv /\ (Reject \/ PanicOnOverflow \/ Unexecutable \/ ExceedsBlock \/ UNCHANGED vars)
    => SearchInv'
  BY DEF SearchInv, Reject, PanicOnOverflow, Unexecutable, ExceedsBlock, vars, found, Phases,
         Settled, Bracket, Tried, estimate_gas_step, fits, Answered, PubdataWithinLimit,
         pubdataLimit, searching, tx_body_gas_limit, extra, suggested_gas_limit

\* The invariant of the search holds throughout a call.
THEOREM SearchInvariant == Spec => []SearchInv
<1>1. SearchInv /\ [Next]_vars => SearchInv'
  BY SettlesPrices, FailedAttempt, SuccessfulAttempt, Answers, OtherEndings
  DEF Next, Ended
<1> QED  BY InitEstablishes, <1>1, PTL DEF Spec

-----------------------------------------------------------------------------
(***************************************************************************)
(* What the answer is worth.                                               *)
(***************************************************************************)

\* The gas for the bytecodes fits the word, with the overhead of any limit.
LEMMA BytecodesFit ==
  ASSUME Settled
  PROVE  /\ prices.bytecodes \in 0 .. (U32 - 1)
         /\ \A gas \in 0 .. (U32 - 1) : prices.bytecodes + derive_overhead(gas) < U32
<1> DEFINE most == MAX_PUBDATA_PER_BLOCK * MAX_GAS_PER_PUBDATA_BYTE
<1>1. most \in Nat /\ prices.bytecodes \in 0 .. most  BY PriceSizes, SMT DEF Settled
<1>2. \A gas \in 0 .. (U32 - 1) : derive_overhead(gas) \in Nat  BY SearchAssumption
<1>3. \A gas \in 0 .. (U32 - 1) : most + derive_overhead(gas) < U32  BY PriceAssumption
<1> HIDE DEF most
<1>4. \A gas \in 0 .. (U32 - 1) : prices.bytecodes + derive_overhead(gas) < U32
  BY <1>1, <1>2, <1>3, Sizes
<1>5. 0 \in 0 .. (U32 - 1)  BY Sizes
<1>6. prices.bytecodes < U32  BY <1>1, <1>2, <1>4, <1>5, Sizes
<1> QED  BY <1>1, <1>4, <1>6, Sizes

\* An attempt at a body that did not leave the word and may succeed covers
\* the need; one that did not leave the word and may fail lies below it.
LEMMA AttemptTells ==
  ASSUME Settled, request.need \in Nat, NEW body \in 0 .. MAX_L2_TX_GAS_LIMIT,
         prices.bytecodes + body < U32, fits(prices.bytecodes + body)
  PROVE  /\ Tried(TRUE, body) => request.need <= body
         /\ Tried(FALSE, body) => body < request.need
<1>1. prices.bytecodes \in 0 .. (U32 - 1)  BY BytecodesFit
<1>2. body \in 0 .. (U32 - 1)  BY Sizes
<1>3. (prices.bytecodes + body) % U32 = prices.bytecodes + body
  BY <1>1, <1>2, SumWraps
<1>4. Tried(TRUE, body) => prices.bytecodes + body >= prices.bytecodes + request.need
  BY <1>3, Zenon DEF Tried, estimate_gas_step
<1>5. Tried(FALSE, body) => ~(prices.bytecodes + body >= prices.bytecodes + request.need)
  BY <1>3, Zenon DEF Tried, estimate_gas_step
<1>6. (prices.bytecodes + body >= prices.bytecodes + request.need) <=> (request.need <= body)
  BY <1>1, Sizes
<1>7. Tried(TRUE, body) => request.need <= body  BY <1>4, <1>6
<1>8. Tried(FALSE, body) => ~(request.need <= body)  BY <1>5, <1>6
<1>9. ~(request.need <= body) => body < request.need  BY Sizes
<1> QED  BY <1>7, <1>8, <1>9

\* The search invariant bounds the answer from both sides.
LEMMA SearchIsTight == SearchInv => EstimateIsTight
<1> SUFFICES ASSUME SearchInv, pc = "answered" PROVE EstimateIsTight
  BY DEF EstimateIsTight
<1> DEFINE body == tx_body_gas_limit
           gas  == suggested_gas_limit
<1>1. Settled /\ Bracket /\ ~(lower_bound + OVERESTIMATION < upper_bound)
      /\ TRUE \in estimate_gas_step(gas)
      /\ body + extra < U32 /\ fee = body + extra
  BY DEF SearchInv, Answered
<1>2. request.need \in Nat
  <2>1. request.need \in Needs  BY DEF SearchInv
  <2>2. Needs \subseteq Nat  BY PriceAssumption
  <2> QED  BY <2>1, <2>2
<1>3. prices.bytecodes \in 0 .. (U32 - 1)  BY <1>1, BytecodesFit
<1>4. /\ upper_bound \in 0 .. MAX_L2_TX_GAS_LIMIT /\ lower_bound \in 0 .. MAX_L2_TX_GAS_LIMIT
      /\ lower_bound <= upper_bound /\ upper_bound <= lower_bound + OVERESTIMATION
  <2>1. /\ upper_bound \in 0 .. MAX_L2_TX_GAS_LIMIT /\ lower_bound \in 0 .. MAX_L2_TX_GAS_LIMIT
        /\ lower_bound <= upper_bound
    BY <1>1 DEF Bracket
  <2> QED  BY <2>1, <1>1, Sizes
<1>5. /\ body \in 0 .. MAX_L2_TX_GAS_LIMIT /\ upper_bound <= body
      /\ body = minimum(MAX_L2_TX_GAS_LIMIT, scale(upper_bound))
  BY <1>4, Sizes, SearchAssumption DEF tx_body_gas_limit, minimum
<1>6. gas = (prices.bytecodes + body) % U32
  BY <1>3, <1>5, Sizes DEF suggested_gas_limit
<1>7. gas \in 0 .. (U32 - 1) /\ derive_overhead(gas) \in Nat
  <2>1. body \in 0 .. (U32 - 1)  BY <1>5, Sizes
  <2>2. gas \in 0 .. (U32 - 1)  BY <1>3, <1>6, <2>1, SumWraps
  <2> QED  BY <2>2, SearchAssumption
<1>8. prices.bytecodes + body < U32 /\ gas = prices.bytecodes + body
  <2>1. prices.bytecodes + body < U32
    BY <1>1, <1>3, <1>5, <1>7, Sizes DEF extra
  <2>2. body \in 0 .. (U32 - 1)  BY <1>5, Sizes
  <2> QED  BY <1>3, <1>6, <2>1, <2>2, SumWraps
<1>9. fits(gas)  BY <1>1, <1>3, <1>5, <1>7, <1>8, Sizes DEF extra, fits
<1>10. \A b \in 0 .. body : prices.bytecodes + b < U32 /\ fits(prices.bytecodes + b)
  <2> SUFFICES ASSUME NEW b \in 0 .. body
               PROVE  prices.bytecodes + b < U32 /\ fits(prices.bytecodes + b)
    OBVIOUS
  <2>1. /\ prices.bytecodes + b \in 0 .. (U32 - 1)
        /\ prices.bytecodes + b <= gas
    BY <1>3, <1>5, <1>8, Sizes
  <2>2. prices.bytecodes + b + derive_overhead(prices.bytecodes + b) <= gas + derive_overhead(gas)
    BY <2>1, <1>7, Sizes, SearchAssumption
  <2>3. derive_overhead(prices.bytecodes + b) \in Nat  BY <2>1, Sizes, SearchAssumption
  <2> QED  BY <2>1, <2>2, <2>3, <1>7, <1>9, Sizes DEF fits
<1>11. \A b \in 0 .. MAX_L2_TX_GAS_LIMIT : b <= body =>
          /\ Tried(TRUE, b) => request.need <= b
          /\ Tried(FALSE, b) => b < request.need
  <2> SUFFICES ASSUME NEW b \in 0 .. MAX_L2_TX_GAS_LIMIT, b <= body
               PROVE  /\ Tried(TRUE, b) => request.need <= b
                      /\ Tried(FALSE, b) => b < request.need
    OBVIOUS
  <2>1. b \in 0 .. body  BY <1>5, Sizes
  <2>2. prices.bytecodes + b < U32 /\ fits(prices.bytecodes + b)  BY <2>1, <1>10
  <2> QED  BY <2>2, <1>1, <1>2, AttemptTells
<1>12. request.need <= body
  <2>1. Tried(TRUE, body)  BY <1>1, <1>6 DEF Tried
  <2>2. body \in 0 .. MAX_L2_TX_GAS_LIMIT /\ body <= body  BY <1>5, Sizes
  <2> QED  BY <2>1, <2>2, <1>11, Zenon
<1>13. request.need <= upper_bound
  <2>1. CASE upper_bound = MAX_L2_TX_GAS_LIMIT  BY <2>1, <1>5, <1>12, <1>2, Sizes
  <2>2. CASE Tried(TRUE, upper_bound)  BY <2>2, <1>4, <1>5, <1>11
  <2>3. upper_bound = MAX_L2_TX_GAS_LIMIT \/ Tried(TRUE, upper_bound)
    BY <1>1, Zenon DEF Bracket
  <2> QED  BY <2>1, <2>2, <2>3
<1>14. lower_bound <= request.need
  <2>1. CASE lower_bound = 0  BY <2>1, <1>2
  <2>2. CASE lower_bound # 0 /\ Tried(FALSE, lower_bound - 1)
    <3>1. lower_bound - 1 \in 0 .. MAX_L2_TX_GAS_LIMIT /\ lower_bound - 1 <= body
      BY <2>2, <1>4, <1>5, Sizes
    <3>2. lower_bound - 1 < request.need  BY <3>1, <2>2, <1>11
    <3> QED  BY <3>2, <1>2, <1>4, Sizes
  <2>3. lower_bound = 0 \/ Tried(FALSE, lower_bound - 1)
    BY <1>1, Zenon DEF Bracket
  <2> QED  BY <2>1, <2>2, <2>3
<1>15. fee = body + prices.bytecodes + derive_overhead(gas)
  BY <1>1, <1>3, <1>5, <1>7, Sizes DEF extra
<1>16. upper_bound \in request.need .. (request.need + OVERESTIMATION)
  BY <1>2, <1>4, <1>13, <1>14, Sizes
<1>17. fee >= prices.bytecodes + request.need + derive_overhead(gas)
  BY <1>2, <1>3, <1>5, <1>7, <1>12, <1>15, Sizes
<1>18. fee <= minimum(MAX_L2_TX_GAS_LIMIT, scale(upper_bound)) + prices.bytecodes + derive_overhead(gas)
  BY <1>3, <1>5, <1>7, <1>15, Sizes
<1> QED  BY <1>16, <1>17, <1>18 DEF EstimateIsTight

\* An answer is sufficient, and tight up to the accepted overestimation and
\* the scale factor, for every word, limit and transaction.
THEOREM EstimateTight == Spec => []EstimateIsTight
  BY SearchInvariant, SearchIsTight, PTL

\* At the price a call settles on, a byte of pubdata costs no more gas than
\* the transaction allows.
THEOREM PubdataPriced == Spec => []PubdataWithinLimit
<1>1. SearchInv => PubdataWithinLimit  BY DEF SearchInv
<1> QED  BY <1>1, SearchInvariant, PTL

-----------------------------------------------------------------------------
(***************************************************************************)
(* What a refusal says.                                                    *)
(***************************************************************************)

\* No body up to the largest limit makes a sum leave the word.
Roomy ==
  \A body \in 0 .. MAX_L2_TX_GAS_LIMIT :
    LET gas == prices.bytecodes + body IN ~(gas >= U32) /\ fits(gas)

\* With room every attempt is at a limit within the word.
LEMMA RoomyFits ==
  ASSUME Settled, Roomy, NEW body \in 0 .. MAX_L2_TX_GAS_LIMIT
  PROVE  prices.bytecodes + body < U32 /\ fits(prices.bytecodes + body)
<1>1. ~(prices.bytecodes + body >= U32) /\ fits(prices.bytecodes + body)  BY DEF Roomy
<1>2. prices.bytecodes + body < U32 <=> ~(prices.bytecodes + body >= U32)
  BY BytecodesFit, Sizes
<1> QED  BY <1>1, <1>2

\* When the search is over the answer's body is in the range of the limits, and
\* is not below the upper bound.
LEMMA BodyInRange ==
  ASSUME Settled, Bracket
  PROVE  /\ tx_body_gas_limit \in 0 .. MAX_L2_TX_GAS_LIMIT
         /\ upper_bound \in 0 .. MAX_L2_TX_GAS_LIMIT /\ upper_bound <= tx_body_gas_limit
         /\ upper_bound = MAX_L2_TX_GAS_LIMIT => tx_body_gas_limit = MAX_L2_TX_GAS_LIMIT
<1>1. upper_bound \in 0 .. MAX_L2_TX_GAS_LIMIT  BY DEF Bracket
<1> QED  BY <1>1, Sizes, SearchAssumption DEF tx_body_gas_limit, minimum

\* A limit within the word is what it is.
LEMMA NoWrap ==
  ASSUME Settled, NEW body \in 0 .. MAX_L2_TX_GAS_LIMIT, prices.bytecodes + body < U32
  PROVE  /\ (prices.bytecodes + body) % U32 = prices.bytecodes + body
         /\ (body + prices.bytecodes) % U32 = prices.bytecodes + body
<1>1. prices.bytecodes \in 0 .. (U32 - 1) /\ body \in 0 .. (U32 - 1)
  BY BytecodesFit, Sizes
<1>2. prices.bytecodes + body = body + prices.bytecodes  BY <1>1
<1> QED  BY <1>1, <1>2, SumWraps

\* With room, the search refuses no body within the limit.
LEMMA RoomyIsExecuted ==
  ASSUME SearchInv, found, Roomy, request.need <= MAX_L2_TX_GAS_LIMIT
  PROVE  FALSE \notin estimate_gas_step(suggested_gas_limit)
<1> DEFINE body == tx_body_gas_limit
<1>1. Settled /\ Bracket  BY DEF SearchInv, found
<1>2. request.need \in Nat
  <2>1. request.need \in Needs  BY DEF SearchInv
  <2> QED  BY <2>1, PriceAssumption
<1>3. /\ body \in 0 .. MAX_L2_TX_GAS_LIMIT
      /\ upper_bound \in 0 .. MAX_L2_TX_GAS_LIMIT /\ upper_bound <= body
      /\ upper_bound = MAX_L2_TX_GAS_LIMIT => body = MAX_L2_TX_GAS_LIMIT
  BY <1>1, BodyInRange
<1>4. prices.bytecodes + body < U32 /\ fits(prices.bytecodes + body)
  BY <1>1, <1>3, RoomyFits
<1>5. suggested_gas_limit = (prices.bytecodes + body) % U32
  BY <1>1, <1>3, <1>4, NoWrap DEF suggested_gas_limit
<1>6. request.need <= body
  <2>1. CASE upper_bound = MAX_L2_TX_GAS_LIMIT  BY <2>1, <1>3
  <2>2. CASE Tried(TRUE, upper_bound)
    <3>1. prices.bytecodes + upper_bound < U32 /\ fits(prices.bytecodes + upper_bound)
      BY <1>1, <1>3, RoomyFits
    <3>2. request.need <= upper_bound  BY <3>1, <2>2, <1>1, <1>2, <1>3, AttemptTells
    <3> QED  BY <3>2, <1>2, <1>3, Sizes
  <2> QED  BY <2>1, <2>2, <1>1, Zenon DEF Bracket
<1>7. ~Tried(FALSE, body)
  <2>1. Tried(FALSE, body) => body < request.need
    BY <1>1, <1>2, <1>3, <1>4, AttemptTells
  <2>2. ~(body < request.need)  BY <1>2, <1>3, <1>6, Sizes
  <2> QED  BY <2>1, <2>2
<1> QED  BY <1>5, <1>7 DEF Tried

\* Refusing for lack of room in the block needs a sum that leaves the word.
LEMMA RoomyNeverExceeds ==
  ASSUME SearchInv, found, Roomy
  PROVE  ~(tx_body_gas_limit + extra >= U32)
<1> DEFINE body == tx_body_gas_limit
<1>1. Settled /\ Bracket  BY DEF SearchInv, found
<1>2. body \in 0 .. MAX_L2_TX_GAS_LIMIT  BY <1>1, BodyInRange
<1>3. prices.bytecodes + body < U32 /\ fits(prices.bytecodes + body)
  BY <1>1, <1>2, RoomyFits
<1>4. suggested_gas_limit = prices.bytecodes + body
  BY <1>1, <1>2, <1>3, NoWrap DEF suggested_gas_limit
<1>5. prices.bytecodes \in 0 .. (U32 - 1)  BY <1>1, BytecodesFit
<1>6. derive_overhead(prices.bytecodes + body) \in Nat
  <2>1. prices.bytecodes + body \in 0 .. (U32 - 1)  BY <1>2, <1>3, <1>5, Sizes
  <2> QED  BY <2>1, SearchAssumption
<1> QED  BY <1>2, <1>3, <1>4, <1>5, <1>6, Sizes DEF extra, fits

\* With room no sum of an attempt or of the answer overflows.
LEMMA RoomyNeverPanics ==
  ASSUME SearchInv, Roomy
  PROVE  ~PanicOnOverflow
<1>1. ASSUME searching PROVE prices.bytecodes + mid < U32 /\ fits(try_gas_limit)
  <2>1. Settled /\ Bracket  BY <1>1 DEF SearchInv, searching
  <2>2. mid \in 0 .. MAX_L2_TX_GAS_LIMIT  BY <1>1, <2>1, MidInside
  <2>3. prices.bytecodes + mid < U32 /\ fits(prices.bytecodes + mid)  BY <2>1, <2>2, RoomyFits
  <2> QED  BY <2>1, <2>2, <2>3, NoWrap DEF try_gas_limit
<1>2. ASSUME found
      PROVE  prices.bytecodes + tx_body_gas_limit < U32 /\ fits(suggested_gas_limit)
  <2>1. Settled /\ Bracket  BY <1>2 DEF SearchInv, found
  <2>2. tx_body_gas_limit \in 0 .. MAX_L2_TX_GAS_LIMIT  BY <2>1, BodyInRange
  <2>3. prices.bytecodes + tx_body_gas_limit < U32 /\ fits(prices.bytecodes + tx_body_gas_limit)
    BY <2>1, <2>2, RoomyFits
  <2> QED  BY <2>1, <2>2, <2>3, NoWrap DEF suggested_gas_limit
<1>3. ASSUME Settled, NEW body \in 0 .. MAX_L2_TX_GAS_LIMIT, prices.bytecodes + body < U32
      PROVE  ~(prices.bytecodes + body >= U32)
  BY <1>3, BytecodesFit, Sizes
<1>4. searching => ~(prices.bytecodes + mid >= U32)
  BY <1>1, <1>3, MidInside DEF SearchInv, searching
<1>5. found => ~(prices.bytecodes + tx_body_gas_limit >= U32)
  BY <1>2, <1>3, BodyInRange DEF SearchInv, found
<1> QED  BY <1>1, <1>2, <1>4, <1>5 DEF PanicOnOverflow

\* A need that is too large, or a sum without room, is what a refusal asks for.
LEMMA NeedOrRoom ==
  ASSUME SearchInv, UNCHANGED <<request, prices>>,
         ~Roomy \/ ~(request.need <= MAX_L2_TX_GAS_LIMIT)
  PROVE  RefusesOnlyUnexecutable'
<1>1. request.need \in Nat
  <2>1. request.need \in Needs  BY DEF SearchInv
  <2> QED  BY <2>1, PriceAssumption
<1>2. request'.need > MAX_L2_TX_GAS_LIMIT \/ ~Roomy  BY <1>1, Sizes
<1>3. Roomy' <=> Roomy  BY DEF Roomy, fits
<1> QED  BY <1>2, <1>3 DEF RefusesOnlyUnexecutable, Roomy

\* A refusal of a transaction whose body fits the limit needs a sum that leaves
\* the word, for every word, limit and transaction.
THEOREM RefusalsAreDue == Spec => []RefusesOnlyUnexecutable
<1>1. Init => RefusesOnlyUnexecutable  BY DEF Init, RefusesOnlyUnexecutable
<1>2. SearchInv /\ RefusesOnlyUnexecutable /\ [Next]_vars => RefusesOnlyUnexecutable'
  <2> SUFFICES ASSUME SearchInv, RefusesOnlyUnexecutable, [Next]_vars
               PROVE  RefusesOnlyUnexecutable'
    OBVIOUS
  <2>1. CASE Unexecutable
    <3>1. ~Roomy \/ ~(request.need <= MAX_L2_TX_GAS_LIMIT)
      BY <2>1, RoomyIsExecuted DEF Unexecutable
    <3> QED  BY <2>1, <3>1, NeedOrRoom DEF Unexecutable
  <2>2. CASE ExceedsBlock
    <3>1. ~Roomy  BY <2>2, RoomyNeverExceeds DEF ExceedsBlock
    <3> QED  BY <2>2, <3>1, NeedOrRoom DEF ExceedsBlock
  <2>3. CASE PanicOnOverflow
    <3>1. ~Roomy  BY <2>3, RoomyNeverPanics
    <3> QED  BY <2>3, <3>1, NeedOrRoom DEF PanicOnOverflow
  <2>4. CASE Ended \/ UNCHANGED vars
    BY <2>4 DEF Ended, vars, RefusesOnlyUnexecutable, fits
  <2>5. CASE Reject \/ SettlePrices \/ AttemptFails \/ AttemptSucceeds \/ Answer
    <3>1. pc' \in {"rejected", "search", "answered"}
      BY <2>5 DEF Reject, SettlePrices, AttemptFails, AttemptSucceeds, Answer, searching
    <3> QED  BY <3>1 DEF RefusesOnlyUnexecutable
  <2> QED  BY <2>1, <2>2, <2>3, <2>4, <2>5 DEF Next
<1> QED  BY <1>1, <1>2, SearchInvariant, PTL DEF Spec

-----------------------------------------------------------------------------
(***************************************************************************)
(* The display of a transaction, for every directory, every price of a     *)
(* write and every run of the bootloader.                                  *)
(*                                                                         *)
(* The invariant relates what each kind of item leaves for the next: the   *)
(* cache holds every signature the directory answered for; as much was     *)
(* paid for a slot as it costs, and not more before it shrinks; what is    *)
(* displayed of the gas was written by one run.                            *)
(***************************************************************************)
Signatures == Selectors \cup Topics

(* The directory is asked for what is not cached, and its answer is.       *)
DirectoryInv ==
  /\ answers \in [Signatures -> {0, 1}]
  /\ \A signature \in Signatures :
       answers[signature] = 1 => signature \in DOMAIN CACHE /\ poisoned # signature

(* A slot that has cost as much as was paid in all has never shrunk.       *)
PaidFor(slot) ==
  LET paid == payments[slot]
  IN  /\ payments[slot] \in [bytes : Nat, total : Nat, shrank : BOOLEAN, regrew : BOOLEAN]
      /\ paid.bytes >= cost_paid[slot] /\ paid.bytes >= paid.total
      /\ ~paid.shrank => paid.bytes = cost_paid[slot] /\ ~paid.regrew
      /\ ~paid.regrew => paid.bytes = paid.total

PaymentsInv ==
  /\ phase # "logs" => cost_paid = <<>> /\ payments = <<>>
  /\ \A slot \in DOMAIN cost_paid : cost_paid[slot] \in Nat
  /\ DOMAIN payments = IF D!displaysPayments THEN DOMAIN cost_paid ELSE {}
  /\ \A slot \in DOMAIN payments : PaidFor(slot)

(* What is displayed of the gas is what the bootloader wrote of some run.  *)
DebugInv ==
  debug # None =>
    /\ phase = "gas"
    /\ \E run \in GasRuns : debug = D!load_from_memory(D!debugSlots(run))
    /\ poisoned = IF D!displayPanics(debug) THEN "gas_details" ELSE None

Phase == phase \in {"idle", "gas", "logs", "calls", "events", "eth_call"}

DisplayInv ==
  /\ Phase /\ DirectoryInv /\ PaymentsInv /\ DebugInv

-----------------------------------------------------------------------------
\* What a bootloader that passes the check of its operator's overhead writes.
LEMMA LoadedRun ==
  ASSUME D!DisplayAssumption, NEW run \in GasRuns,
         NEW d, d = D!load_from_memory(D!debugSlots(run)), d # None
  PROVE  /\ D!overheadIsVerified(run)
         /\ d.total_gas_limit_from_user = run.limit
         /\ d.reserved_gas = run.limit - D!total(run)
         /\ d.gas_limit_after_intrinsic = D!gasLimitForTx(run)
         /\ d.intrinsic_overhead = INTRINSIC_OVERHEAD
         /\ d.operator_overhead = run.operator /\ d.required_overhead = run.required
         /\ IF D!isValid(run)
              THEN /\ d.gas_after_validation = D!gasLeft(run)
                   /\ d.gas_spent_on_execution = D!gasSpentOnExecute(run)
                   /\ d.gas_spent_on_bytecode_preparation = D!gasSpentOnFactoryDeps(run)
                   /\ d.refund_computed = D!larger(0, D!gasLeft(run) - D!gasSpentOnExecute(run))
              ELSE /\ d.gas_after_validation = 0 /\ d.gas_spent_on_execution = 0
                   /\ d.gas_spent_on_bytecode_preparation = 0 /\ d.refund_computed = 0
<1> DEFINE slots == D!debugSlots(run)
           slot(n) == IF n \in DOMAIN slots THEN slots[n] ELSE 0
<1>1. DOMAIN slots = D!slotsWritten(run)  BY DEF D!debugSlots
<1>2. slot(0) = 1337
  BY DEF D!load_from_memory
<1>3. D!overheadIsVerified(run)  BY <1>1, <1>2 DEF D!slotsWritten
<1>4. /\ slot(1) = run.limit /\ slot(2) = run.limit - D!total(run)
      /\ slot(4) = D!gasLimitForTx(run) /\ slot(10) = INTRINSIC_OVERHEAD
      /\ slot(11) = run.operator /\ slot(12) = run.required
  BY <1>3 DEF D!debugSlots, D!slotsWritten
<1>5. CASE D!isValid(run)
  <2>1. /\ slot(5) = D!gasLeft(run) /\ slot(6) = D!gasSpentOnExecute(run)
        /\ slot(7) = D!gasSpentOnFactoryDeps(run)
        /\ slot(8) = D!larger(0, D!gasLeft(run) - D!gasSpentOnExecute(run))
    BY <1>3, <1>5 DEF D!debugSlots, D!slotsWritten
  <2> HIDE DEF slot
  <2> QED  BY <1>2, <1>3, <1>4, <1>5, <2>1 DEF D!load_from_memory, slot
<1>6. CASE ~D!isValid(run)
  <2>1. slot(5) = 0 /\ slot(6) = 0 /\ slot(7) = 0 /\ slot(8) = 0
    BY <1>1, <1>3, <1>6 DEF D!slotsWritten
  <2> HIDE DEF slot
  <2> QED  BY <1>2, <1>3, <1>4, <1>6, <2>1 DEF D!load_from_memory, slot
<1> QED  BY <1>5, <1>6

\* The gas of a run whose operator is paid.
LEMMA RunSizes ==
  ASSUME D!DisplayAssumption, NEW run \in GasRuns, D!overheadIsVerified(run)
  PROVE  /\ run.limit \in Nat /\ run.operator \in Nat \ {0} /\ run.required \in Nat
         /\ run.operator <= run.required /\ run.operator <= D!total(run)
         /\ D!total(run) \in Nat /\ D!total(run) <= run.limit
         /\ run.validation \in Nat /\ run.deps \in Nat /\ run.body \in Nat
         /\ INTRINSIC_OVERHEAD \in Nat /\ NEAR_CALL_COST \in Nat
         /\ D!gasLimitForTx(run)
              = D!larger(0, D!total(run) - run.operator - INTRINSIC_OVERHEAD)
<1>1. run \in [limit : Nat, operator : Nat \ {0}, required : Nat,
               validation : Nat, deps : Nat, body : Nat]
  BY DEF D!DisplayAssumption
<1> QED  BY <1>1 DEF D!DisplayAssumption, D!overheadIsVerified, D!total, D!smaller, D!gasLimitForTx

\* What a valid run spends: more than is left on the preparation, or at most
\* what is spent around one near call more than is left on all.
LEMMA Spent ==
  ASSUME D!DisplayAssumption, NEW run \in GasRuns, D!overheadIsVerified(run), D!isValid(run)
  PROVE  LET left == D!gasLeft(run)
             deps == D!gasSpentOnFactoryDeps(run)
             all == D!gasSpentOnExecute(run)
         IN  /\ left \in Nat \ {0} /\ left = D!gasLimitForTx(run) - run.validation
             /\ deps \in Nat /\ all \in Nat
             /\ \/ deps >= left /\ all = left
                \/ deps < left /\ all >= deps /\ all <= left + NEAR_CALL_COST
<1> DEFINE left == D!gasLeft(run)
           deps == D!gasSpentOnFactoryDeps(run)
           all == D!gasSpentOnExecute(run)
<1>1. left \in Nat \ {0} /\ left = D!gasLimitForTx(run) - run.validation
  BY RunSizes DEF D!gasLeft, D!isValid, D!larger
<1>2. deps = D!smaller(left, run.deps) + NEAR_CALL_COST
  BY DEF D!gasSpentOnFactoryDeps, D!nearCall
<1>3. all = IF left - deps > 0
              THEN deps + (D!smaller(left - deps, run.body) + NEAR_CALL_COST) ELSE left
  BY DEF D!gasSpentOnExecute, D!nearCall
<1>4. run.deps \in Nat /\ run.body \in Nat /\ NEAR_CALL_COST \in Nat  BY RunSizes
<1> HIDE DEF left, deps, all
<1>5. deps \in Nat  BY <1>1, <1>2, <1>4 DEF D!smaller
<1>6. /\ all \in Nat
      /\ \/ deps >= left /\ all = left
         \/ deps < left /\ all >= deps /\ all <= left + NEAR_CALL_COST
  BY <1>1, <1>3, <1>4, <1>5 DEF D!smaller
<1> QED  BY <1>1, <1>5, <1>6 DEF left, deps, all

\* The gas of every run adds up, and only the preparation makes it panic.
LEMMA RunAddsUp ==
  ASSUME D!DisplayAssumption, NEW run \in GasRuns, D!overheadIsVerified(run),
         debug # None, debug = D!load_from_memory(D!debugSlots(run)),
         poisoned = IF D!displayPanics(debug) THEN "gas_details" ELSE None
  PROVE  D!GasDetailsAddUp
<1> DEFINE T == D!total(run)
           limit == D!gasLimitForTx(run)
           setup == INTRINSIC_OVERHEAD + run.operator
<1>1. /\ T \in Nat /\ setup \in Nat \ {0} /\ limit \in Nat /\ limit <= T
      /\ T - limit = D!smaller(setup, T) /\ T - limit > 0
  BY RunSizes DEF D!larger, D!smaller
<1>2. D!total_gas_limit(debug) = T
  BY LoadedRun, RunSizes DEF D!total_gas_limit, D!larger
<1>3. D!intrinsic_gas(debug) = T - limit
  BY <1>2, LoadedRun DEF D!intrinsic_gas
<1>4. debug.intrinsic_overhead + debug.operator_overhead = setup  BY LoadedRun
<1>5. debug.required_overhead - debug.operator_overhead >= 0 /\ debug.required_overhead > 0
  BY LoadedRun, RunSizes
<1>6. poisoned = None <=> ~D!displayPanics(debug)
  BY DEF D!DisplayAssumption
<1> DEFINE left == debug.gas_after_validation
           deps == debug.gas_spent_on_bytecode_preparation
           all == debug.gas_spent_on_execution
           refund == debug.refund_computed
<1>7. /\ left \in Nat /\ left <= limit /\ deps \in Nat /\ all \in Nat /\ NEAR_CALL_COST \in Nat
      /\ refund = D!larger(0, left - all)
      /\ \/ deps >= left /\ all = left
         \/ deps < left /\ all >= deps /\ all <= left + NEAR_CALL_COST
  <2>1. CASE D!isValid(run)
    <3>1. /\ left = D!gasLeft(run) /\ all = D!gasSpentOnExecute(run)
          /\ deps = D!gasSpentOnFactoryDeps(run)
          /\ refund = D!larger(0, D!gasLeft(run) - D!gasSpentOnExecute(run))
      BY <2>1, LoadedRun
    <3>2. run.validation \in Nat /\ NEAR_CALL_COST \in Nat  BY RunSizes
    <3> HIDE DEF left, deps, all, refund
    <3> QED  BY <1>1, <2>1, <3>1, <3>2, Spent
  <2>2. CASE ~D!isValid(run)
    <3>1. left = 0 /\ all = 0 /\ deps = 0 /\ refund = 0  BY <2>2, LoadedRun
    <3>2. NEAR_CALL_COST \in Nat  BY RunSizes
    <3> HIDE DEF left, deps, all, refund
    <3> QED  BY <1>1, <3>1, <3>2 DEF D!larger
  <2> QED  BY <2>1, <2>2
<1>8. D!gas_for_validation(debug) = limit - left
  BY LoadedRun DEF D!gas_for_validation
<1>9. D!gas_spent_on_compute(debug) = all - deps  BY DEF D!gas_spent_on_compute
<1>10. D!gas_used(debug) = (T - limit) + (limit - left) + deps + (all - deps)
  BY <1>3, <1>8, <1>9 DEF D!gas_used
<1> HIDE DEF T, limit, setup, left, deps, all, refund
<1>11. D!gas_used(debug) = T - left + all /\ T - left + all > 0
  BY <1>1, <1>7, <1>10
<1>12. D!displayPanics(debug) <=> all - deps < 0
  <2>1. D!displayPanics(debug) <=>
          \/ T - limit < 0 \/ limit - left < 0 \/ all - deps < 0
          \/ debug.required_overhead - debug.operator_overhead < 0
          \/ D!gas_used(debug) = 0 \/ T - limit = 0 \/ debug.required_overhead = 0
    BY <1>3, <1>8, <1>9 DEF D!displayPanics
  <2>2. ~(T - limit < 0) /\ ~(limit - left < 0) /\ T - limit # 0  BY <1>1, <1>7
  <2>3. D!gas_used(debug) # 0  BY <1>1, <1>7, <1>11
  <2>4. /\ ~(debug.required_overhead - debug.operator_overhead < 0)
        /\ debug.required_overhead # 0
    <3>1. run.required \in Nat /\ run.operator \in Nat \ {0} /\ run.operator <= run.required
      BY RunSizes
    <3>2. debug.required_overhead = run.required /\ debug.operator_overhead = run.operator
      BY LoadedRun
    <3> QED  BY <3>1, <3>2
  <2> QED  BY <2>1, <2>2, <2>3, <2>4
<1>13. D!intrinsic_gas(debug)
         = D!smaller(debug.intrinsic_overhead + debug.operator_overhead, D!total_gas_limit(debug))
  BY <1>1, <1>2, <1>3, <1>4
<1>14. CASE all - deps < 0
  BY <1>6, <1>7, <1>12, <1>13, <1>14 DEF D!GasDetailsAddUp, left, deps, all
<1>15. CASE ~(all - deps < 0)
  <2>1. D!gas_used(debug) + refund - D!total_gas_limit(debug) = all + refund - left
    BY <1>1, <1>2, <1>7, <1>11 DEF D!larger
  <2>2. all + refund - left \in 0 .. NEAR_CALL_COST /\ (refund > 0 => all + refund - left = 0)
    BY <1>7, <1>15 DEF D!larger
  <2>3. poisoned = None  BY <1>6, <1>12, <1>15
  <2> QED  BY <1>13, <2>1, <2>2, <2>3 DEF D!GasDetailsAddUp, refund
<1> QED  BY <1>14, <1>15

-----------------------------------------------------------------------------
\* What nobody was asked for is still cached as it was.
LEMMA DirectoryKept ==
  ASSUME D!DisplayAssumption, DirectoryInv, UNCHANGED <<CACHE, answers>>,
         poisoned' \in {poisoned, None, "gas_details"}
  PROVE  DirectoryInv'
<1>1. None \notin Signatures /\ "gas_details" \notin Signatures
  BY DEF D!DisplayAssumption, Signatures
<1> QED  BY <1>1 DEF DirectoryInv

\* No payment.
LEMMA PaymentsKept ==
  ASSUME PaymentsInv, UNCHANGED <<settings, phase, cost_paid, payments>>
  PROVE  PaymentsInv'
BY DEF PaymentsInv, PaidFor, D!displaysPayments

\* No write has been displayed.
LEMMA NothingPaid ==
  ASSUME cost_paid = <<>>, payments = <<>>
  PROVE  PaymentsInv
<1>1. DOMAIN cost_paid = {} /\ DOMAIN payments = {}  OBVIOUS
<1> QED  BY <1>1 DEF PaymentsInv

\* What was displayed is forgotten.
LEMMA PaymentsCleared ==
  ASSUME cost_paid' = <<>>, payments' = <<>>
  PROVE  PaymentsInv'
<1>1. DOMAIN cost_paid' = {} /\ DOMAIN payments' = {}  OBVIOUS
<1> QED  BY <1>1 DEF PaymentsInv

\* The next phase is one.
LEMMA NextPhase ==
  ASSUME phase \in {"gas", "logs", "calls", "events", "eth_call"}
  PROVE  D!after \in {"idle", "logs", "calls", "events"}
<1>1. CASE phase = "gas"  BY <1>1 DEF D!after
<1>2. CASE phase = "logs"  BY <1>2 DEF D!after
<1>3. CASE phase = "calls"  BY <1>3 DEF D!after
<1>4. CASE phase \in {"events", "eth_call"}  BY <1>4 DEF D!after
<1> QED  BY <1>1, <1>2, <1>3, <1>4

\* A payment is recorded as what the slot costs more than before.
LEMMA Recorded ==
  ASSUME PaymentsInv, NEW slot, NEW cost \in Nat, D!displaysPayments
  PROVE  LET paid == D!recorded(slot, cost)
         IN  /\ paid \in [bytes : Nat, total : Nat, shrank : BOOLEAN, regrew : BOOLEAN]
             /\ paid.bytes >= cost /\ paid.bytes >= paid.total
             /\ ~paid.shrank => paid.bytes = cost /\ ~paid.regrew
             /\ ~paid.regrew => paid.bytes = paid.total
<1> DEFINE before == IF slot \in DOMAIN payments THEN payments[slot]
                     ELSE [bytes |-> 0, total |-> 0, shrank |-> FALSE, regrew |-> FALSE]
           last == D!paidBefore(slot)
           more == D!toPay(slot, cost)
           paid == D!recorded(slot, cost)
<1>1. /\ before \in [bytes : Nat, total : Nat, shrank : BOOLEAN, regrew : BOOLEAN]
      /\ last \in Nat /\ before.bytes >= last /\ before.bytes >= before.total
      /\ ~before.shrank => before.bytes = last /\ ~before.regrew
      /\ ~before.regrew => before.bytes = before.total
  <2>1. DOMAIN payments = DOMAIN cost_paid  BY DEF PaymentsInv
  <2>2. CASE slot \in DOMAIN payments
    <3>1. before = payments[slot] /\ last = cost_paid[slot]  BY <2>1, <2>2 DEF D!paidBefore
    <3>2. PaidFor(slot) /\ cost_paid[slot] \in Nat  BY <2>1, <2>2 DEF PaymentsInv
    <3> QED  BY <3>1, <3>2 DEF PaidFor
  <2>3. CASE slot \notin DOMAIN payments
    BY <2>1, <2>3 DEF D!paidBefore
  <2> QED  BY <2>2, <2>3
<1>2. more = IF 0 > cost - last THEN 0 ELSE cost - last  BY DEF D!toPay, D!larger
<1>3. paid = [bytes |-> before.bytes + more, total |-> IF more > 0 THEN cost ELSE before.total,
              shrank |-> before.shrank \/ cost < last,
              regrew |-> before.regrew \/ (before.shrank /\ more > 0)]
  BY DEF D!recorded
<1> DEFINE bytes == before.bytes
           total == before.total
<1>4. bytes \in Nat /\ total \in Nat  BY <1>1
<1>5. before.shrank \in BOOLEAN /\ before.regrew \in BOOLEAN  BY <1>1
<1>6. bytes >= last /\ bytes >= total /\ last \in Nat /\ more \in Nat  BY <1>1, <1>2
<1>7. /\ ~before.shrank => bytes = last /\ ~before.regrew
      /\ ~before.regrew => bytes = total
  BY <1>1
<1>8. /\ paid.bytes = bytes + more /\ paid.total = IF more > 0 THEN cost ELSE total
      /\ paid.shrank = (before.shrank \/ cost < last)
      /\ paid.regrew = (before.regrew \/ (before.shrank /\ more > 0))
  BY <1>3
<1>9. paid \in [bytes : Nat, total : Nat, shrank : BOOLEAN, regrew : BOOLEAN]
  <2>1. bytes + more \in Nat /\ (IF more > 0 THEN cost ELSE total) \in Nat  BY <1>4, <1>6
  <2>2. (before.shrank \/ cost < last) \in BOOLEAN
        /\ (before.regrew \/ (before.shrank /\ more > 0)) \in BOOLEAN
    OBVIOUS
  <2> QED  BY <1>3, <2>1, <2>2
<1> HIDE DEF before, bytes, total, last, more, paid
<1>10. paid.bytes >= cost /\ paid.bytes >= paid.total  BY <1>2, <1>4, <1>6, <1>8
<1>11. ASSUME ~paid.shrank PROVE paid.bytes = cost /\ ~paid.regrew
  <2>1. ~before.shrank /\ ~(cost < last)  BY <1>8, <1>11, Zenon
  <2>2. bytes = last /\ ~before.regrew  BY <1>7, <2>1
  <2>3. paid.bytes = cost  BY <1>2, <1>6, <1>8, <2>1, <2>2
  <2>4. ~paid.regrew  BY <1>8, <2>1, <2>2, Zenon
  <2> QED  BY <2>3, <2>4
<1>12. ~paid.regrew => paid.bytes = paid.total
  BY <1>2, <1>4, <1>5, <1>6, <1>7, <1>8
<1> QED  BY <1>9, <1>10, <1>11, <1>12 DEF paid

-----------------------------------------------------------------------------
\* A write's payment is counted.
LEMMA WritePaid ==
  ASSUME D!DisplayAssumption, PaymentsInv,
         NEW slot \in Slots, NEW cost \in WriteCosts, D!PrintWrite(slot, cost)
  PROVE  PaymentsInv'
<1>1. phase = "logs" /\ UNCHANGED <<phase, settings>>  BY DEF D!PrintWrite, D!NextItem
<1>2. D!displaysPayments' = D!displaysPayments  BY <1>1 DEF D!displaysPayments
<1>3. CASE slot \in FreeSlots
  <2>1. UNCHANGED <<cost_paid, payments>>  BY <1>3 DEF D!PrintWrite
  <2> QED  BY <1>1, <2>1, PaymentsKept
<1>4. CASE slot \notin FreeSlots
  <2>1. cost_paid' = D!with(cost_paid, slot, cost)
        /\ payments' = IF D!displaysPayments THEN D!with(payments, slot, D!recorded(slot, cost))
                       ELSE payments
    BY <1>4 DEF D!PrintWrite, D!nowPaid
  <2>2. cost \in Nat  BY DEF D!DisplayAssumption
  <2>3. /\ DOMAIN cost_paid' = DOMAIN cost_paid \cup {slot} /\ cost_paid'[slot] = cost
        /\ \A k \in DOMAIN cost_paid \ {slot} : cost_paid'[k] = cost_paid[k]
    BY <2>1 DEF D!with
  <2>4. \A k \in DOMAIN cost_paid' : cost_paid'[k] \in Nat
    BY <2>2, <2>3 DEF PaymentsInv
  <2>5. CASE D!displaysPayments
    <3>1. /\ DOMAIN payments' = DOMAIN payments \cup {slot}
          /\ payments'[slot] = D!recorded(slot, cost)
          /\ \A k \in DOMAIN payments \ {slot} : payments'[k] = payments[k]
      BY <2>1, <2>5 DEF D!with
    <3>2. DOMAIN payments = DOMAIN cost_paid  BY <2>5 DEF PaymentsInv
    <3>3. PaidFor(slot)'  BY <2>2, <2>3, <2>5, <3>1, Recorded DEF PaidFor
    <3>4. ASSUME NEW k \in DOMAIN payments \ {slot} PROVE PaidFor(k)'
      <4>1. PaidFor(k) /\ payments'[k] = payments[k] /\ cost_paid'[k] = cost_paid[k]
        BY <2>3, <3>1, <3>2 DEF PaymentsInv
      <4> QED  BY <4>1 DEF PaidFor
    <3>5. DOMAIN payments' = DOMAIN cost_paid'  BY <2>3, <3>1, <3>2
    <3>6. \A k \in DOMAIN payments' : PaidFor(k)'  BY <3>1, <3>3, <3>4
    <3> QED  BY <1>1, <1>2, <2>4, <2>5, <3>5, <3>6 DEF PaymentsInv
  <2>6. CASE ~D!displaysPayments
    <3>1. DOMAIN payments' = {}  BY <2>1, <2>6 DEF PaymentsInv
    <3> QED  BY <1>1, <1>2, <2>4, <2>6, <3>1 DEF PaymentsInv
  <2> QED  BY <2>5, <2>6
<1> QED  BY <1>3, <1>4

\* The directory's answer is cached.
LEMMA Asked ==
  ASSUME DirectoryInv, D!DisplayAssumption, NEW signature \in Signatures,
         D!AskDirectory(signature)
  PROVE  DirectoryInv'
<1>1. /\ signature \notin DOMAIN CACHE /\ Listed[signature] # "missing"
      /\ poisoned = None /\ poisoned' = None
      /\ answers' = [answers EXCEPT ![signature] = @ + 1]
  BY DEF D!AskDirectory, D!NextItem, D!isAnswered
<1>2. DOMAIN CACHE' = DOMAIN CACHE \cup {signature}
  BY <1>1 DEF D!AskDirectory, D!keeps, D!with
<1>3. answers[signature] = 0  BY <1>1 DEF DirectoryInv
<1>4. answers' \in [Signatures -> {0, 1}]  BY <1>1, <1>3 DEF DirectoryInv
<1>5. \A other \in Signatures \ {signature} : answers'[other] = answers[other]
  BY <1>1 DEF DirectoryInv
<1>6. None \notin Signatures  BY DEF D!DisplayAssumption, Signatures
<1> QED  BY <1>1, <1>2, <1>4, <1>5, <1>6 DEF DirectoryInv

\* Every step keeps the invariant.
LEMMA DisplayStep ==
  ASSUME D!DisplayAssumption, DisplayInv, [D!Next]_(D!vars)
  PROVE  DisplayInv'
<1> USE DEF DisplayInv, Phase
<1>0. CASE UNCHANGED D!vars
  <2>1. UNCHANGED <<settings, phase, items, debug, cost_paid, payments, CACHE, answers, poisoned>>
    BY <1>0 DEF D!vars
  <2>2. DirectoryInv' /\ PaymentsInv'  BY <2>1, DirectoryKept, PaymentsKept
  <2>3. DebugInv'  BY <2>1 DEF DebugInv, D!displayPanics, D!intrinsic_gas,
      D!gas_for_validation, D!gas_spent_on_compute, D!gas_used, D!total_gas_limit
  <2> QED  BY <2>1, <2>2, <2>3
<1>1. ASSUME NEW setting, NEW values, NEW value, D!Set(setting, values, value)
      PROVE  DisplayInv'
  <2>1. /\ phase = "idle"
        /\ UNCHANGED <<phase, items, debug, cost_paid, payments, CACHE, answers, poisoned>>
    BY <1>1 DEF D!Set, D!lockIsFree
  <2>2. cost_paid = <<>> /\ payments = <<>> /\ debug = None  BY <2>1 DEF PaymentsInv, DebugInv
  <2>3. DirectoryInv' /\ PaymentsInv'  BY <2>1, <2>2, DirectoryKept, PaymentsCleared
  <2> QED  BY <2>1, <2>2, <2>3 DEF DebugInv
<1>2. CASE D!Configure
  BY <1>1, <1>2 DEF D!Configure, D!config_set_show_calls, D!config_set_show_storage_logs,
       D!config_set_show_vm_details, D!config_set_show_gas_details, D!config_set_resolve_hashes
<1>3. ASSUME D!run_l2_tx_raw \/ D!run_l2_call PROVE DisplayInv'
  <2>1. /\ phase = "idle" /\ phase' \in {"gas", "eth_call"}
        /\ UNCHANGED <<settings, items, debug, cost_paid, payments, CACHE, answers, poisoned>>
    BY <1>3 DEF D!run_l2_tx_raw, D!run_l2_call, D!lockIsFree
  <2>2. cost_paid = <<>> /\ payments = <<>> /\ debug = None  BY <2>1 DEF PaymentsInv, DebugInv
  <2>3. DirectoryInv' /\ PaymentsInv'  BY <2>1, <2>2, DirectoryKept, PaymentsCleared
  <2> QED  BY <2>1, <2>2, <2>3 DEF DebugInv
<1>4. ASSUME NEW isTransaction \in BOOLEAN, D!call(isTransaction) PROVE DisplayInv'
  BY <1>0, <1>3, <1>4 DEF D!call
<1>5. ASSUME phase # "idle", D!Continue, UNCHANGED <<settings, CACHE, answers, poisoned>>
      PROVE  DisplayInv'
  <2>1. phase' = D!after /\ debug' = None /\ cost_paid' = <<>> /\ payments' = <<>>
    BY <1>5 DEF D!Continue
  <2>2. DirectoryInv' /\ PaymentsInv'  BY <1>5, <2>1, DirectoryKept, PaymentsCleared
  <2> QED  BY <1>5, <2>1, <2>2, NextPhase DEF DebugInv
<1>6. CASE D!EndPhase  BY <1>5, <1>6 DEF D!EndPhase
<1>7. ASSUME NEW run \in GasRuns, D!display_detailed_gas_info(run) PROVE DisplayInv'
  <2> DEFINE loaded == D!load_from_memory(D!debugSlots(run))
  <2>1. phase = "gas" /\ poisoned = None /\ UNCHANGED <<settings, CACHE, answers>>
    BY <1>7 DEF D!display_detailed_gas_info
  <2>2. CASE loaded = None
    <3>1. D!Continue /\ UNCHANGED poisoned  BY <1>7, <2>2 DEF D!display_detailed_gas_info
    <3> QED  BY <1>5, <2>1, <3>1
  <2>3. CASE loaded # None
    <3>1. /\ debug' = loaded /\ poisoned' = IF D!displayPanics(loaded) THEN "gas_details" ELSE None
          /\ UNCHANGED <<phase, items, cost_paid, payments>>
      BY <1>7, <2>3 DEF D!display_detailed_gas_info
    <3>2. DirectoryInv' /\ PaymentsInv'  BY <2>1, <3>1, DirectoryKept, PaymentsKept
    <3>3. D!displayPanics(debug)' <=> D!displayPanics(debug')
      BY DEF D!displayPanics, D!intrinsic_gas, D!gas_for_validation, D!gas_spent_on_compute,
             D!gas_used, D!total_gas_limit
    <3>4. DebugInv'  BY <2>1, <3>1, <3>3 DEF DebugInv
    <3> QED  BY <2>1, <3>1, <3>2, <3>4
  <2> QED  BY <2>2, <2>3
<1>8. ASSUME NEW slot \in Slots, NEW cost \in WriteCosts, D!PrintWrite(slot, cost)
      PROVE  DisplayInv'
  <2>1. phase = "logs" /\ UNCHANGED <<phase, debug, CACHE, answers, poisoned>>
    BY <1>8 DEF D!PrintWrite, D!NextItem
  <2>2. DirectoryInv' /\ PaymentsInv'  BY <1>8, <2>1, DirectoryKept, WritePaid
  <2> QED  BY <2>1, <2>2 DEF DebugInv
<1>9. ASSUME phase # "gas", UNCHANGED <<settings, phase, debug, cost_paid, payments>>, DirectoryInv'
      PROVE  DisplayInv'
  <2>1. PaymentsInv'  BY <1>9, PaymentsKept
  <2> QED  BY <1>9, <2>1 DEF DebugInv
<1>10. CASE D!PrintBytes
  <2>1. /\ phase # "gas"
        /\ UNCHANGED <<settings, phase, debug, cost_paid, payments, CACHE, answers, poisoned>>
    BY <1>10 DEF D!PrintBytes
  <2> QED  BY <1>9, <2>1, DirectoryKept
<1>11. ASSUME NEW signature \in Signatures,
              \/ D!PrintName(signature) \/ D!AskDirectory(signature) \/ D!DirectoryFails(signature)
       PROVE  DisplayInv'
  <2>1. phase # "gas" /\ UNCHANGED <<settings, phase, debug, cost_paid, payments>>
    BY <1>11 DEF D!PrintName, D!AskDirectory, D!DirectoryFails, D!NextItem, D!wantsName
  <2>2. CASE D!PrintName(signature)
    <3>1. UNCHANGED <<answers, poisoned>> /\ DOMAIN CACHE \subseteq DOMAIN CACHE'
      BY <2>2 DEF D!PrintName, D!with
    <3>2. DirectoryInv'  BY <3>1 DEF DirectoryInv
    <3> QED  BY <1>9, <2>1, <3>2
  <2>3. CASE D!AskDirectory(signature)  BY <1>9, <2>1, <2>3, Asked
  <2>4. CASE D!DirectoryFails(signature)
    <3>1. signature \notin DOMAIN CACHE /\ poisoned' = signature /\ UNCHANGED <<CACHE, answers>>
      BY <2>4 DEF D!DirectoryFails, D!NextItem, D!isAnswered
    <3>2. DirectoryInv'  BY <3>1 DEF DirectoryInv
    <3> QED  BY <1>9, <2>1, <3>2
  <2> QED  BY <1>11, <2>2, <2>3, <2>4
<1>12. CASE D!Stopped  BY <1>0, <1>12 DEF D!Stopped
<1> QED
  BY <1>0, <1>2, <1>3, <1>4, <1>6, <1>7, <1>8, <1>10, <1>11, <1>12 DEF D!Next, Signatures

(***************************************************************************)
(* What is kept between the items of a display, for every transaction,     *)
(* every setting, every directory: the answers that were cached, the       *)
(* payments, and the run of the bootloader whose gas is displayed.         *)
(***************************************************************************)
THEOREM DisplayInvariant == D!Spec => []DisplayInv
<1>1. D!Init => DisplayInv
  <2> SUFFICES ASSUME D!Init PROVE DisplayInv  OBVIOUS
  <2>1. phase = "idle" /\ debug = None /\ cost_paid = <<>> /\ payments = <<>>
        /\ answers = [signature \in Signatures |-> 0]
    BY DEF D!Init, Signatures
  <2>2. DirectoryInv  BY <2>1 DEF DirectoryInv
  <2> QED  BY <2>1, <2>2, NothingPaid DEF DisplayInv, Phase, DebugInv
<1>2. DisplayInv /\ [D!Next]_(D!vars) => DisplayInv'  BY DisplayAssumption, DisplayStep
<1> QED  BY <1>1, <1>2, PTL DEF D!Spec

(***************************************************************************)
(* What a transaction's gas details say adds up: the parts are what the    *)
(* limit and the refund leave and at most one near call's surroundings     *)
(* more, and the display panics only on a preparation of bytecodes that    *)
(* took more than the validation left.                                     *)
(***************************************************************************)
THEOREM GasAlwaysAddsUp == D!Spec => []GasDetailsAddUp
<1>1. DisplayInv => GasDetailsAddUp
  <2> SUFFICES ASSUME DisplayInv, debug # None PROVE GasDetailsAddUp
    BY DEF GasDetailsAddUp, D!GasDetailsAddUp
  <2>1. PICK run \in GasRuns : debug = D!load_from_memory(D!debugSlots(run))
    BY DEF DisplayInv, DebugInv
  <2>2. poisoned = IF D!displayPanics(debug) THEN "gas_details" ELSE None
    BY DEF DisplayInv, DebugInv
  <2>3. D!overheadIsVerified(run)  BY <2>1, DisplayAssumption, LoadedRun
  <2> QED  BY <2>1, <2>2, <2>3, DisplayAssumption, RunAddsUp DEF GasDetailsAddUp
<1> QED  BY <1>1, DisplayInvariant, PTL

(***************************************************************************)
(* The pubdata displayed as paid for a slot covers the total displayed     *)
(* with it, and is that total unless it has shrunk and grown again.        *)
(***************************************************************************)
THEOREM PaymentsAlwaysCover == D!Spec => []PaymentsCoverTotal
<1>1. DisplayInv => PaymentsCoverTotal
  BY DEF DisplayInv, PaymentsInv, PaidFor, PaymentsCoverTotal, D!PaymentsCoverTotal
<1> QED  BY <1>1, DisplayInvariant, PTL

(***************************************************************************)
(* The signature directory answers for a signature once, and what it has   *)
(* answered does not stop the node.                                        *)
(***************************************************************************)
THEOREM DirectoryNeverAskedAgain == D!Spec => []DirectoryAnswersOnce
<1>1. DisplayInv => DirectoryAnswersOnce
  BY DEF DisplayInv, DirectoryInv, Signatures, DirectoryAnswersOnce, D!DirectoryAnswersOnce
<1> QED  BY <1>1, DisplayInvariant, PTL
=============================================================================
