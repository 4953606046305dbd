------------------------------ MODULE NodeApi -------------------------------
(***************************************************************************)
(* What the test node answers: the requests of the eth, zks and debug      *)
(* namespaces that change nothing.  Each looks in the node first, and most *)
(* ask the forked network for what the node does not have.  An Option is   *)
(* the set of its value: empty for null, and for an error where a request  *)
(* has no other.  The network's own answers are external; they come        *)
(* through ForkSource.                                                     *)
(***************************************************************************)
EXTENDS TestNode

(* [Transactions -> Option of [chain_id : an Option]]: the bytes that a     *)
(* transaction was read from, common_data.input.                            *)
CONSTANT Input

number(n) == [tag |-> "number", number |-> n]

get(map, key) == {map[k] : k \in {key} \cap DOMAIN map}

or_else(local, remote) == IF local # {} \/ fork = NoFork THEN local ELSE remote

-----------------------------------------------------------------------------
(***************************************************************************)
(* The network, at its latest block.                                       *)
(***************************************************************************)
remoteBlocksAt(n) == {remoteBlock(k) : k \in {n} \cap 0..Len(RemoteBlocks)}

remoteBlocksOf(hash) ==
    {remoteBlock(k) : k \in {k \in 0..Len(RemoteBlocks) : remoteHash(k) = hash}}

remoteTransaction(t) == {included(t, remoteHash(n), n) : n \in remoteBlockOf(t)}

(* The transaction at a position, counted from 0, of one of the blocks. *)
atPosition(blocks, index) ==
    UNION {get(block.transactions, index + 1) : block \in blocks}

-----------------------------------------------------------------------------
(***************************************************************************)
(* Blocks.  A number that is not the node's is asked of the network as the *)
(* client gave it.                                                         *)
(***************************************************************************)
localBlocks(n) == UNION {get(node.blocks, hash) : hash \in get(node.block_hashes, n)}

get_block_number == node.current_miniblock

realNumber(block_number) == to_real_block_number(block_number, node.current_miniblock)

get_block_by_number(block_number) ==
    or_else(localBlocks(realNumber(block_number)), remoteBlocksAt(realNumber(block_number)))

get_block_by_hash(hash) == or_else(get(node.blocks, hash), remoteBlocksOf(hash))

\* Mutant: a fork asks the network first.
get_block_transaction_count_by_number_remoteFirst(block_number) ==
    LET n == realNumber(block_number)
        remote == {block \in remoteBlocksAt(n) : fork # NoFork}
    IN  {Len(block.transactions) : block \in IF remote # {} THEN remote ELSE localBlocks(n)}

get_block_transaction_count_by_number(block_number) ==
    {Len(block.transactions) :
        block \in or_else(localBlocks(realNumber(block_number)), remoteBlocksAt(realNumber(block_number)))}

get_block_transaction_count_by_hash(hash) ==
    {Len(block.transactions) : block \in or_else(get(node.blocks, hash), remoteBlocksOf(hash))}

get_block_details(n) ==
    {[number |-> block.number, l1_batch_number |-> block.batch, timestamp |-> block.timestamp,
      l2_tx_count |-> Len(block.transactions), root_hash |-> block.hash] :
        block \in or_else(localBlocks(n), remoteBlocksAt(n))}

hashesOf(block) == [i \in DOMAIN block.transactions |-> block.transactions[i].hash]

(* Those of a block's transactions that the node ran itself. *)
ranHere(block) ==
    LET raw[i \in 0..Len(block.transactions)] ==
            IF i = 0 THEN <<>>
            ELSE IF block.transactions[i].hash \in DOMAIN node.tx_results
                   THEN Append(raw[i - 1], block.transactions[i].hash)
                   ELSE raw[i - 1]
    IN  raw[Len(block.transactions)]

get_raw_block_transactions(n) ==
    IF localBlocks(n) # {} THEN {ranHere(block) : block \in localBlocks(n)}
      ELSE IF fork = NoFork THEN {<<>>} ELSE {hashesOf(block) : block \in remoteBlocksAt(n)}

(* The blocks eth_feeHistory has a price for, up to the latest. *)
fee_history(block_count) ==
    LET most  == node.current_miniblock + 1
        count == Min({Max({Min({block_count, 1024}), 1}), most})
    IN  (most - count)..node.current_miniblock

-----------------------------------------------------------------------------
(***************************************************************************)
(* Transactions.                                                           *)
(***************************************************************************)
get_transaction_receipt(t) == get(node.tx_results, t)

(* None for a legacy transaction from before EIP-155. *)
extract_chain_id(t) == UNION {input.chain_id : input \in Input[t]}

\* Mutant: the number is that of the latest block.
get_transaction_by_hash_latest(t) ==
    or_else({included(t, t, node.current_miniblock) :
                receipt \in get(node.tx_results, t), input \in Input[t], chain_id \in extract_chain_id(t)},
            remoteTransaction(t))

(* The answer gives the transaction's own hash for that of its block.  One *)
(* without bytes or chain id is not found here, though the node ran it:    *)
(* the network is asked, and without a network the answer is null.         *)
get_transaction_by_hash(t) ==
    or_else({included(t, t, receipt.block_number) :
                receipt \in get(node.tx_results, t), input \in Input[t], chain_id \in extract_chain_id(t)},
            remoteTransaction(t))

get_transaction_details(t) ==
    or_else({From[t] : receipt \in get(node.tx_results, t)}, {From[x.hash] : x \in remoteTransaction(t)})

get_transaction_by_block_hash_and_index(hash, index) ==
    or_else(atPosition(get(node.blocks, hash), index), atPosition(remoteBlocksOf(hash), index))

(* A position past the end of the node's block is asked of the network. *)
get_transaction_by_block_number_and_index(block_number, index) ==
    or_else(atPosition(localBlocks(realNumber(block_number)), index),
            atPosition(remoteBlocksAt(realNumber(block_number)), index))

(* The trace of a transaction, without its calls if only_top. *)
debug_info(t, only_top) == [hash |-> t, calls |-> ~only_top]

trace_transaction(t, only_top) == {debug_info(t, only_top) : receipt \in get(node.tx_results, t)}

(* The traces of a block's transactions; an error if one was not run here. *)
tracesOf(blocks) ==
    {hashesOf(block) : block \in {b \in blocks : ToSet(hashesOf(b)) \subseteq DOMAIN node.tx_results}}

trace_block_by_number(block_number) == tracesOf(localBlocks(realNumber(block_number)))

trace_block_by_hash(hash) == tracesOf(get(node.blocks, hash))

-----------------------------------------------------------------------------
(***************************************************************************)
(* Logs: those of the receipts that match now.                             *)
(***************************************************************************)
get_logs(f) ==
    UNION {{log \in ToSet(receipt.logs) : matches(f, log, node.current_miniblock)} :
              receipt \in Range(node.tx_results)}

\* Mutant: the logs that were polled are gone.
get_filter_logs_unpolled(id) == {ToSet(f.updates) : f \in {g \in get(node.filters.filters, id) : g.kind = "log"}}

get_filter_logs(id) == {get_logs(f) : f \in {g \in get(node.filters.filters, id) : g.kind = "log"}}

-----------------------------------------------------------------------------
(***************************************************************************)
(* State.                                                                  *)
(***************************************************************************)
(* eth_getStorageAt.  For an earlier block of the node, an absent or zero  *)
(* archived value is replaced by the current one; for any other block the  *)
(* network is asked.                                                       *)
get_storage(slot, block_number) ==
    LET n        == realNumber(block_number)
        archives == {node.previous_states[i].slots[slot] : i \in archived(n)} \ {0}
    IN  IF n = node.current_miniblock \/ (n \in DOMAIN node.block_hashes /\ archives = {})
          THEN {slotValue(node, slot)}
        ELSE IF n \in DOMAIN node.block_hashes THEN archives
        ELSE or_else({}, {remoteSlots[k][slot] : k \in {n} \cap DOMAIN remoteSlots})

-----------------------------------------------------------------------------
(***************************************************************************)
(* Properties.                                                             *)
(***************************************************************************)

(* However a client asks for the block with a number, by number, by hash,  *)
(* for its size, its details, its raw transactions or its traces, it is    *)
(* told of the same block, and its parent's hash leads to the one before.  *)
ToldOfOneBlock(n) ==
    LET answer == get_block_by_number(number(n))
    IN  /\ Cardinality(answer) = 1
        /\ \A block \in answer :
              /\ block.number = n
              /\ get_block_by_hash(block.hash) = answer
              /\ get_block_transaction_count_by_number(number(n)) = {Len(block.transactions)}
              /\ get_block_transaction_count_by_hash(block.hash) = {Len(block.transactions)}
              /\ get_block_details(n) =
                    {[number |-> n, l1_batch_number |-> block.batch, timestamp |-> block.timestamp,
                      l2_tx_count |-> Len(block.transactions), root_hash |-> block.hash]}
              /\ n # fork => get_raw_block_transactions(n) = {hashesOf(block)}
              /\ n > first => /\ trace_block_by_number(number(n)) = {hashesOf(block)}
                              /\ trace_block_by_hash(block.hash) = {hashesOf(block)}
              /\ n > 0 /\ ~orphan(block) =>
                    get_block_by_hash(block.parent_hash) = get_block_by_number(number(n - 1))

(* So for every block of the chain, before the fork and after it; and      *)
(* following parents' hashes from the latest block leads through every     *)
(* number down to the first.  Three things do not agree: the fork's own    *)
(* block has no raw transactions, a block mined right after it has no      *)
(* parent, and beyond the latest block a fork answers with the network's   *)
(* blocks.                                                                 *)
BlockLookupsAgree ==
    ~poisoned =>
        /\ \A count \in {0, 2, 2000} : \A n \in fee_history(count) : get_block_by_number(number(n)) # {}
        /\ {block.number : block \in get_block_by_number([tag |-> "latest"])} = {get_block_number}
        /\ \A n \in 0..get_block_number : ToldOfOneBlock(n)

(* The positions in a block of the network, and the first past its end. *)
positions(n) == {0, 1} \cup UNION {DOMAIN block.transactions : block \in remoteBlocksAt(n)}

(* The node ran the transaction, but does not find it by its hash.         *)
hidden(t) == t \in DOMAIN node.tx_results /\ (Input[t] = {} \/ extract_chain_id(t) = {})

(* However a client asks for a transaction, by hash, by its place in a     *)
(* block, for its details or its trace, the answers name the block of its  *)
(* receipt; a transaction without receipt is answered as the network does, *)
(* and found where that answer says.  A hidden transaction is found by its *)
(* place, with its details and its trace, as any other; by its hash it is  *)
(* answered as one without receipt, so with another block or not at all.   *)
FoundInOnePlace(t) ==
    LET found == get_transaction_by_hash(t)
    IN  /\ (get_transaction_details(t) = {}) = (found = {} /\ ~hidden(t))
        /\ \A only_top \in BOOLEAN :
              {trace.hash : trace \in trace_transaction(t, only_top)} = {t} \cap DOMAIN node.tx_results
        /\ \A receipt \in get_transaction_receipt(t) :
              /\ ~hidden(t) => {x.block_number : x \in found} = {receipt.block_number}
              /\ \A places \in {get_transaction_by_block_hash_and_index(receipt.block_hash, 0),
                                get_transaction_by_block_number_and_index(number(receipt.block_number), 0)} :
                    {x.hash : x \in places} = {t}
        /\ get_transaction_receipt(t) = {} \/ hidden(t) =>
              \A x \in found : \E i \in positions(x.block_number) :
                  get_transaction_by_block_hash_and_index(x.block_hash, i) = {x}

(* So for every transaction, with the exception of the hidden ones above.  *)
(* And no place in a block of the node holds a transaction the block does  *)
(* not have, except that on a fork the places past its end are answered    *)
(* with the network's block.                                               *)
TransactionLookupsAgree ==
    ~poisoned =>
        /\ \A t \in Transactions : FoundInOnePlace(t)
        /\ \A n \in (first + 1)..node.current_miniblock : \A i \in positions(n) :
              /\ \A x \in get_transaction_by_block_hash_and_index(node.block_hashes[n], i) : holds(blockAt(n), x.hash)
              /\ \A x \in get_transaction_by_block_number_and_index(number(n), i) :
                    holds(blockAt(n), x.hash) \/ (fork # NoFork /\ x \in remoteTransaction(x.hash))

(* eth_getFilterLogs answers with the logs a log filter has handed out or  *)
(* still holds, and those from before it was installed, however often it   *)
(* was polled and whatever was reverted.  A filter from the latest block   *)
(* is left out: it is given every log, but asked for all of them it looks  *)
(* only from the block that is the latest by then.                         *)
FilterLogsAgree ==
    ~poisoned =>
        \A id \in {k \in DOMAIN node.filters.filters :
                      /\ node.filters.filters[k].kind = "log"
                      /\ node.filters.filters[k].from_block.tag # "latest"} :
            LET since  == SubSeq(node.audit.events, node.audit.installedAt[id] + 1, Len(node.audit.events))
                later  == {event.update : event \in {e \in ToSet(since) : e.kind = "log"}}
                told   == ToSet(node.audit.delivered[id] \o node.filters.filters[id].updates)
            IN  \A logs \in get_filter_logs(id) : logs \cap later = told

(* A slot read at a block no older than the archive has the value it had   *)
(* after that block.                                                       *)
HistoricalReads ==
    ~poisoned =>
        \A n \in first..node.current_miniblock, slot \in Slots :
            (\E older \in first..n : archived(older) # {})
                => LET then == node.audit.stateAt[n][slot]
                   IN  get_storage(slot, number(n)) =
                          {IF then = 0 /\ fork # NoFork THEN remoteSlots[fork][slot] ELSE then}
=============================================================================
