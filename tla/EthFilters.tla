----------------------------- MODULE EthFilters -----------------------------
(***************************************************************************)
(* The filters of the test node (filters.rs): a counter of ids and the     *)
(* installed filters, each with the updates that were not polled yet.  A   *)
(* filter is for blocks, for pending transactions or for logs; operators   *)
(* take and return the whole structure ef = [id_counter, filters].         *)
(***************************************************************************)
EXTENDS Integers, Sequences, FiniteSets, Functions

CONSTANT MaxFilterId   \* the largest id; U256::MAX in the code

ASSUME MaxFilterIdAssumption == MaxFilterId \in Nat

NoFilters == [id_counter |-> 0, filters |-> <<>>]

(* BlockNumber: a number, or a name for the latest (also "pending",        *)
(* "committed", "finalized") or the first block.                           *)
to_real_block_number(block_number, latest_block_number) ==
    CASE block_number.tag = "latest" -> latest_block_number
      [] block_number.tag = "earliest" -> 0
      [] block_number.tag = "number" -> block_number.number

(* A log filter's addresses and the sets of topics for each position; an   *)
(* empty set, or no set, allows anything.  Only positions that the log has *)
(* are looked at.                                                          *)
matches(f, log, latest_block_number) ==
    /\ log.block_number >= to_real_block_number(f.from_block, latest_block_number)
    /\ log.block_number <= to_real_block_number(f.to_block, latest_block_number)
    /\ f.addresses = {} \/ log.address \in f.addresses
    /\ \A i \in DOMAIN log.topics \cap DOMAIN f.topics :
          i <= 4 => f.topics[i] = {} \/ log.topics[i] \in f.topics[i]

CanAdd(ef) == ef.id_counter < MaxFilterId

\* Mutant: the new filter takes the place of the one added last.
add_filter_sameId(ef, f) ==
    [id_counter |-> ef.id_counter,
     filters |-> [id \in DOMAIN ef.filters \cup {ef.id_counter} |->
                    IF id = ef.id_counter THEN f ELSE ef.filters[id]]]

(* The common part of the three add_..._filter functions, for an id that   *)
(* does not overflow.                                                      *)
add_filter(ef, f) ==
    LET new == ef.id_counter + 1
    IN  [id_counter |-> new,
         filters |-> [id \in DOMAIN ef.filters \cup {new} |->
                        IF id = new THEN f ELSE ef.filters[id]]]

add_block_filter(ef) == add_filter(ef, [kind |-> "block", updates |-> <<>>])

add_pending_transaction_filter(ef) ==
    add_filter(ef, [kind |-> "pending", updates |-> <<>>])

add_log_filter(ef, from_block, to_block, addresses, topics) ==
    add_filter(ef, [kind |-> "log", from_block |-> from_block, to_block |-> to_block,
                    addresses |-> addresses, topics |-> topics, updates |-> <<>>])

remove_filter(ef, id) ==
    [ef EXCEPT !.filters = Restrict(@, DOMAIN @ \ {id})]

\* Mutant: the updates are not reset.
get_new_changes_keeps(ef, id) == ef

(* The updates are returned and reset. *)
get_new_changes(ef, id) == [ef EXCEPT !.filters[id].updates = <<>>]

(* Every filter that wants the update gets it at the end of its updates. *)
push(ef, update, Wants(_)) ==
    LET notified(f) == IF Wants(f) THEN [f EXCEPT !.updates = Append(@, update)] ELSE f
    IN  [ef EXCEPT !.filters = [id \in DOMAIN @ |-> notified(@[id])]]

notify_new_block(ef, hash) == push(ef, hash, LAMBDA f : f.kind = "block")

notify_new_pending_transaction(ef, hash) ==
    push(ef, hash, LAMBDA f : f.kind = "pending")

notify_new_log(ef, log, latest_block_number) ==
    push(ef, log, LAMBDA f : f.kind = "log" /\ matches(f, log, latest_block_number))
=============================================================================
