------------------------------ MODULE TestNode ------------------------------
(***************************************************************************)
(* The in-memory test node the precompiles are tested on: transactions and *)
(* empty blocks, the clock, archived states, filters, snapshot and revert. *)
(*                                                                         *)
(* node is InMemoryNodeInner.  The server runs one handler at a time (one  *)
(* worker thread, and no handler awaits inside run_l2_tx), so a handler is *)
(* one action.  The numbers of the last batch and of the last L2 block are *)
(* kept twice, in the node and in the system contracts' storage, and       *)
(* run_l2_tx panics with the node's lock held when they disagree: the lock *)
(* is then poisoned and every later request fails.                         *)
(*                                                                         *)
(* The VM is external.  A transaction is given by what it does: the slots  *)
(* it writes and the logs it emits.  It halts when its nonce was used.     *)
(* node.audit is history: what happened, for the properties.               *)
(***************************************************************************)
EXTENDS EthFilters, SequencesExt

CONSTANTS
    Accounts,
    Slots,                   \* storage slots; an account stands for the slot of its balance
    Transactions,            \* hashes of the transactions clients may send
    From, Nonce,             \* [Transactions -> Accounts], [Transactions -> Nat]
    Sent,                    \* the transactions clients send,
    Signed,                  \* those that carry their account's signature
    Fee,                     \* [Transactions -> [gas_limit, gas_per_pubdata, max_fee, max_priority]]
    MaxGas, L2_GAS_PRICE,    \* u32::MAX, the base fee
    Writes,                  \* [Transactions -> [a subset of Slots -> Nat]]
    Logs,                    \* [Transactions -> Seq([address, topics])]
    NoTransaction,           \* H256::zero()
    Remote,                  \* marks the hashes of a forked network
    RemoteGenesis,           \* [Slots -> Nat], its first state,
    RemoteBlocks,            \* and its blocks 1, 2, .., [transactions, timestamp, batch]
    Starts,                  \* what main is called with
    RichAccounts, RichBalance,
    FirstTimestamp,          \* NON_FORK_FIRST_BLOCK_TIMESTAMP
    Millis,                  \* 1000
    MAX_PREVIOUS_STATES, MAX_SNAPSHOTS,
    LogFilters,              \* the log filters clients may install
    Times, Deltas, Counts, Intervals,   \* arguments of the clock and mining requests
    Balances, Nonces, Codes, \* of hardhat_setBalance, _setNonce, _setCode: pairs <<account, value>>
    Bounds                   \* by command: new blocks, events, direct writes, filters, snapshots

(***************************************************************************)
(* What the types of the code and of the network's answers say.  Accounts  *)
(* are the slots of balances.  A transaction writes slots of its own and   *)
(* has a sender, a nonce and logs.  A network's blocks after genesis have  *)
(* batches from 1 on; main is asked to fork at one of its blocks, or to    *)
(* replay one of its transactions.  Its hashes are none that the node      *)
(* computes.  A filter has four topic positions and two ends, each a       *)
(* number or a tag.                                                        *)
(***************************************************************************)
ASSUME NodeAssumption ==
    /\ Accounts \subseteq Slots /\ RichAccounts \subseteq Accounts
    /\ \A t \in Transactions : DOMAIN Writes[t] \subseteq Slots /\ From[t] \in Accounts
    /\ NoTransaction \notin Transactions /\ Remote \notin Transactions \cup {NoTransaction}
    /\ Signed \subseteq Transactions
    /\ {FirstTimestamp, Millis, MAX_PREVIOUS_STATES, MAX_SNAPSHOTS} \subseteq Nat \ {0}
    /\ Times \cup Deltas \cup Intervals \subseteq Nat /\ Counts \subseteq Nat \ {0}
    /\ RemoteBlocks \in Seq([transactions : Seq(Transactions), timestamp : Nat, batch : Nat \ {0}])
    /\ Sent \subseteq Transactions /\ \A t \in Transactions : Nonce[t] \in Nat
    /\ \A t \in Transactions : Logs[t] \in Seq(Range(Logs[t]))
    /\ \A start \in Starts :
          \/ start.command = "run"
          \/ start.command = "fork" /\ start.at \subseteq 0..Len(RemoteBlocks)
          \/ start.command = "replay"
             /\ \E i \in DOMAIN RemoteBlocks : start.tx \in Range(RemoteBlocks[i].transactions)
    /\ \A pair \in Balances \cup Nonces \cup Codes : pair[1] \in Accounts
    /\ \A pair \in Nonces : pair[2] \in Nat
    /\ \A f \in LogFilters :
          /\ \A b \in {f.from_block, f.to_block} :
                b.tag \in {"latest", "earliest", "number"} /\ b.number \in Nat
          /\ DOMAIN f.topics \subseteq 1..4

VARIABLES
    fork,       \* the forked block, or NoFork
    startup,    \* main's [command, contracts, replay, ready]: what is left to be replayed
    node, snapshots, poisoned

vars == <<fork, startup, node, snapshots, poisoned>>

-----------------------------------------------------------------------------
(***************************************************************************)
(* The forked network.  Only what the node reads of it is modelled, at a   *)
(* time when nothing is added to it.                                       *)
(***************************************************************************)
NoFork == -1

(* Maps: an entry inserted or replaced; the entries of one put over another. *)
with(f, key, value) == [k \in DOMAIN f \cup {key} |-> IF k = key THEN value ELSE f[k]]

over(new, f) == [k \in DOMAIN f \cup DOMAIN new |-> IF k \in DOMAIN new THEN new[k] ELSE f[k]]

remoteHash(number) == <<number, Remote>>

(* The slots before the transactions, at 0, and after each of them. *)
executed(slots, transactions) ==
    LET after[i \in 0..Len(transactions)] ==
            IF i = 0 THEN slots ELSE over(Writes[transactions[i]], after[i - 1])
    IN  after

(* By block: the slots, and the accounts' nonces after it. *)
remoteSlots[number \in 0..Len(RemoteBlocks)] ==
    IF number = 0 THEN RemoteGenesis
    ELSE LET transactions == RemoteBlocks[number].transactions
         IN  executed(remoteSlots[number - 1], transactions)[Len(transactions)]

remoteNonces ==
    [number \in 0..Len(RemoteBlocks) |-> [a \in Accounts |->
        Cardinality({p \in UNION {{i} \X DOMAIN RemoteBlocks[i].transactions : i \in 1..number} :
                        From[RemoteBlocks[p[1]].transactions[p[2]]] = a})]]

remoteBlockOf(t) ==
    {i \in DOMAIN RemoteBlocks : \E k \in DOMAIN RemoteBlocks[i].transactions :
                                    RemoteBlocks[i].transactions[k] = t}

(* A transaction as a block holds it. *)
included(t, block_hash, number) == [hash |-> t, block_hash |-> block_hash, block_number |-> number]

remoteBlock(number) ==
    LET at == IF number = 0 THEN [transactions |-> <<>>, timestamp |-> 0, batch |-> 0]
              ELSE RemoteBlocks[number]
    IN  [hash |-> remoteHash(number),
         parent_hash |-> IF number = 0 THEN <<>> ELSE remoteHash(number - 1),
         number |-> number, timestamp |-> at.timestamp, batch |-> at.batch,
         transactions |-> [i \in DOMAIN at.transactions |->
             included(at.transactions[i], remoteHash(number), number)]]

-----------------------------------------------------------------------------
(* compute_hash is injective. *)
compute_hash(block_number, tx_hash) == <<block_number, tx_hash>>

(* A block, for an absent parent hash with the hash of the empty block     *)
(* before it.                                                              *)
create_empty_block(block_number, timestamp, batch) ==
    [hash |-> compute_hash(block_number, NoTransaction),
     parent_hash |-> IF block_number = 0 THEN <<>>
                     ELSE compute_hash(block_number - 1, NoTransaction),
     number |-> block_number, timestamp |-> timestamp, batch |-> batch,
     transactions |-> <<>>]

(* What the storage of a node holds itself: nothing of the fork's slots. *)
localStorage(batch, l2_block) ==
    [slots |-> [s \in Slots |-> 0], nonces |-> [a \in Accounts |-> 0],
     codes |-> [a \in Accounts |-> 0], batch |-> batch, l2_block |-> l2_block]

(* InMemoryNode::new.  The numbers and times of the last batch and the     *)
(* last L2 block are read through the fork, if there is one.               *)
newNode(block, batch, l2_block) ==
    [current_timestamp |-> block.timestamp, current_batch |-> block.batch,
     current_miniblock |-> block.number, current_miniblock_hash |-> block.hash,
     tx_results |-> <<>>,
     blocks |-> with(<<>>, block.hash, block), block_hashes |-> with(<<>>, block.number, block.hash),
     filters |-> NoFilters, impersonated |-> {}, rich |-> {},
     previous_states |-> <<>>,
     storage |-> localStorage(batch, l2_block),
     audit |-> [events |-> <<>>, stateAt |-> with(<<>>, block.number, [s \in Slots |-> 0]),
                delivered |-> <<>>, installedAt |-> <<>>,
                rewound |-> FALSE, packed |-> FALSE, jumped |-> {}, settings |-> 0]]

firstNode ==
    newNode(create_empty_block(0, FirstTimestamp, 0),
            [number |-> 0, timestamp |-> 0], [number |-> 0, timestamp |-> 0])

forkNode(number) ==
    LET block == remoteBlock(number)
    IN  newNode(block, [number |-> block.batch, timestamp |-> block.timestamp],
                [number |-> number, timestamp |-> block.timestamp])

\* Mutant: the fork is taken at the transaction's own block.
from_network_tx_itsBlock(t) == CHOOSE number \in remoteBlockOf(t) : TRUE

(* The block before the transaction's. *)
from_network_tx(t) == (CHOOSE number \in remoteBlockOf(t) : TRUE) - 1

(* The transactions of its block up to the one to be replayed. *)
get_earlier_transactions_in_same_block(t) ==
    LET all == RemoteBlocks[CHOOSE number \in remoteBlockOf(t) : TRUE].transactions
    IN  SubSeq(all, 1, CHOOSE i \in DOMAIN all : all[i] = t)

(* --fork-at, or the block the network is at. *)
from_network(fork_at) == IF fork_at = {} THEN Len(RemoteBlocks) ELSE CHOOSE number \in fork_at : TRUE

forkOf(start) ==
    CASE start.command = "run" -> NoFork
      [] start.command = "fork" -> from_network(start.at)
      [] start.command = "replay" -> from_network_tx(start.tx)

Init ==
    \E start \in Starts :
        /\ fork = forkOf(start)
        /\ startup = [command |-> start.command, contracts |-> start.contracts, ready |-> FALSE,
                      replay |-> IF start.command = "replay"
                                 THEN get_earlier_transactions_in_same_block(start.tx) ELSE <<>>]
        /\ node = IF fork = NoFork THEN firstNode ELSE forkNode(fork)
        /\ snapshots = <<>>
        /\ poisoned = FALSE

(* A node answers requests when main has started the server. *)
serving == startup.ready /\ ~poisoned

bound == Bounds[startup.command]

-----------------------------------------------------------------------------
(***************************************************************************)
(* Storage: local values, and where they are zero the fork's.              *)
(***************************************************************************)
slotValue(n, slot) ==
    IF fork = NoFork \/ n.storage.slots[slot] # 0 THEN n.storage.slots[slot]
    ELSE remoteSlots[fork][slot]

nonceOf(n, account) ==
    IF fork = NoFork \/ n.storage.nonces[account] # 0 THEN n.storage.nonces[account]
    ELSE remoteNonces[fork][account]

-----------------------------------------------------------------------------
(***************************************************************************)
(* Blocks.                                                                 *)
(***************************************************************************)

(* load_last_l1_batch, load_last_l2_block: nothing is stored before the    *)
(* first batch.                                                            *)
lastBatch(n) ==
    IF n.storage.batch.number = 0
      THEN [number |-> n.current_batch, timestamp |-> n.current_timestamp]
      ELSE n.storage.batch

lastL2Block(n) ==
    IF n.storage.l2_block.number = 0
      THEN [number |-> n.current_miniblock, timestamp |-> n.current_timestamp]
      ELSE n.storage.l2_block

(* BlockContext: the block that is produced, after the last of a batch and *)
(* in the same batch.                                                      *)
from_current(batch, miniblock, timestamp) ==
    [batch |-> batch, miniblock |-> miniblock, timestamp |-> timestamp]

new_block(ctx) == [ctx EXCEPT !.miniblock = @ + 1, !.timestamp = @ + 1]

new_batch(ctx) == [new_block(ctx) EXCEPT !.batch = @ + 1]

(* The context of the next batch's first block. *)
create_l1_batch_env(n) ==
    new_batch(from_current(lastBatch(n).number, lastL2Block(n).number,
                           Max({lastBatch(n).timestamp, lastL2Block(n).timestamp, n.current_timestamp})))

\* Mutant: the newest entry is evicted.
archive_state_evictsNewest(n) ==
    LET kept == IF Len(n.previous_states) > MAX_PREVIOUS_STATES THEN Front(n.previous_states)
                ELSE n.previous_states
        new  == [hash |-> n.current_miniblock_hash, slots |-> n.storage.slots]
        at   == {i \in DOMAIN kept : kept[i].hash = new.hash}
    IN  [n EXCEPT !.previous_states =
            IF at = {} THEN Append(kept, new) ELSE [i \in DOMAIN kept |-> IF i \in at THEN new ELSE kept[i]]]

(* The oldest entry goes when there are more than MAX_PREVIOUS_STATES; an  *)
(* entry of the IndexMap keeps its place when its value is replaced.       *)
archive_state(n) ==
    LET kept == IF Len(n.previous_states) > MAX_PREVIOUS_STATES THEN Tail(n.previous_states)
                ELSE n.previous_states
        new  == [hash |-> n.current_miniblock_hash, slots |-> n.storage.slots]
        at   == {i \in DOMAIN kept : kept[i].hash = new.hash}
    IN  [n EXCEPT !.previous_states =
            IF at = {} THEN Append(kept, new) ELSE [i \in DOMAIN kept |-> IF i \in at THEN new ELSE kept[i]]]

(* block_hashes.insert, blocks.insert *)
insertBlock(n, block) ==
    [n EXCEPT !.block_hashes = with(@, block.number, block.hash),
              !.blocks = with(@, block.hash, block),
              !.audit.stateAt = with(@, block.number, n.storage.slots)]

happened(n, event) == [n EXCEPT !.audit.events = Append(@, event)]

(***************************************************************************)
(* One iteration of run_l2_tx's loop over the two blocks of a batch, on a  *)
(* node that did not panic before.  The panics come after the counters     *)
(* were moved.                                                             *)
(***************************************************************************)
produce(s, block) ==
    LET m == [archive_state(s.node) EXCEPT !.current_miniblock = @ + 1,
                                           !.current_timestamp = @ + 1]
        expected == /\ block.batch = m.current_batch
                    /\ block.number = m.current_miniblock
                    /\ block.timestamp = m.current_timestamp
        inserted == insertBlock([m EXCEPT !.current_miniblock_hash = block.hash], block)
    IN  IF s.poisoned THEN s
        ELSE IF ~expected THEN [node |-> m, poisoned |-> TRUE]
        ELSE [node |-> happened([inserted EXCEPT !.filters = notify_new_block(@, block.hash)],
                                [kind |-> "block", update |-> block.hash]),
              poisoned |-> FALSE]

-----------------------------------------------------------------------------
(***************************************************************************)
(* Transactions.                                                           *)
(***************************************************************************)

validate_tx(t) ==
    /\ Fee[t].gas_limit <= MaxGas /\ Fee[t].gas_per_pubdata <= MaxGas
    /\ Fee[t].max_fee >= L2_GAS_PRICE
    /\ Fee[t].max_priority <= Fee[t].max_fee

(* What every transaction that passes validate_tx does first. *)
pending(t) ==
    happened([node EXCEPT !.filters = notify_new_pending_transaction(@, t)],
             [kind |-> "pending", update |-> t])

(* SystemContracts, by --dev-system-contracts: a bootloader and the code   *)
(* of accounts.                                                            *)
bsc_load_with_bootloader(bootloader) ==
    [bootloader |-> bootloader,
     default_aa |-> IF startup.contracts = "BuiltInWithoutSecurity" THEN "DefaultAccountNoSecurity"
                    ELSE "DefaultAccount"]

baseline_contracts == bsc_load_with_bootloader("proved_batch")

(* Among the local contracts there is no bootloader for impersonation. *)
baseline_impersonating_contracts ==
    bsc_load_with_bootloader(IF startup.contracts = "Local" THEN "proved_batch"
                             ELSE "proved_batch_impersonating")

(* For a transaction that is executed and verified. *)
contracts(impersonating) ==
    IF impersonating THEN baseline_impersonating_contracts ELSE baseline_contracts

checksSignature(system) ==
    system.bootloader = "proved_batch" /\ system.default_aa = "DefaultAccount"

(* The VM halts on a nonce that is not the account's, and on a missing     *)
(* signature that is checked.                                              *)
halts(t) ==
    \/ nonceOf(node, From[t]) # Nonce[t]
    \/ t \notin Signed /\ checksSignature(contracts(From[t] \in node.impersonated))

(* The VM's effect on storage: the transaction's writes and its nonce, the *)
(* batch, and the last L2 block, which is the fictive one after the        *)
(* transaction's own.                                                      *)
executeBatch(storage, t, ctx) ==
    [storage EXCEPT
       !.slots = over(Writes[t], @),
       !.nonces[From[t]] = Nonce[t] + 1,
       !.batch = [number |-> ctx.batch, timestamp |-> ctx.timestamp],
       !.l2_block = [number |-> ctx.miniblock + 1, timestamp |-> ctx.timestamp + 1]]

(* The transaction in the block is given the block before, the node's last.*)
transactionBlock(n, t, ctx) ==
    [hash |-> compute_hash(ctx.miniblock, t),
     parent_hash |-> IF ctx.miniblock - 1 \in DOMAIN n.block_hashes
                     THEN n.block_hashes[ctx.miniblock - 1] ELSE <<>>,
     number |-> ctx.miniblock, timestamp |-> ctx.timestamp, batch |-> ctx.batch,
     transactions |-> <<included(t, n.current_miniblock_hash, n.current_miniblock)>>]

receiptLogs(t, block) ==
    [i \in DOMAIN Logs[t] |->
        [address |-> Logs[t][i].address, topics |-> Logs[t][i].topics,
         block_number |-> block.number, transaction_hash |-> t, log_index |-> i]]

notifyLog(n, log) ==
    happened([n EXCEPT !.filters = notify_new_log(@, log, log.block_number)],
             [kind |-> "log", update |-> log])

notifyLogs(n, logs) ==
    LET notified[i \in 0..Len(logs)] == IF i = 0 THEN n ELSE notifyLog(notified[i - 1], logs[i])
    IN  notified[Len(logs)]

\* Mutant: the parent is left to create_empty_block.
fictiveBlock_noParent(block, ctx) == create_empty_block(ctx.miniblock, ctx.timestamp, ctx.batch)

\* Mutant: the last block has the timestamp of the transaction's.
fictiveBlock_sameTime(block, ctx) ==
    [create_empty_block(ctx.miniblock, ctx.timestamp - 1, ctx.batch)
        EXCEPT !.parent_hash = block.hash]

(* The empty block that ends the batch, after the transaction's block. *)
fictiveBlock(block, ctx) ==
    [create_empty_block(ctx.miniblock, ctx.timestamp, ctx.batch)
        EXCEPT !.parent_hash = block.hash]

(* From the writing of the keys to the last block. *)
commit(n, t, ctx) ==
    LET block   == transactionBlock(n, t, ctx)
        written == [n EXCEPT !.storage = executeBatch(@, t, ctx)]
        logged  == notifyLogs(written, receiptLogs(t, block))
        receipt == [block_hash |-> block.hash, block_number |-> block.number,
                    batch |-> block.batch, logs |-> receiptLogs(t, block)]
        ready   == [logged EXCEPT !.tx_results = with(@, t, receipt),
                                  !.current_batch = @ + 1]
    IN  produce(produce([node |-> ready, poisoned |-> FALSE], block), fictiveBlock(block, new_block(ctx)))

newBlocks == node.current_miniblock - (IF fork = NoFork THEN 0 ELSE fork)

(***************************************************************************)
(* run_l2_tx.  A transaction the VM halts leaves no trace but the notice   *)
(* to the filters for pending transactions.                                *)
(***************************************************************************)
RejectTx(t) == ~validate_tx(t) /\ UNCHANGED <<node, poisoned>>

HaltTx(t) ==
    /\ validate_tx(t) /\ halts(t)
    /\ Len(node.audit.events) < bound.events
    /\ node' = pending(t)
    /\ UNCHANGED poisoned

CommitTx(t) ==
    /\ validate_tx(t) /\ ~halts(t)
    /\ newBlocks + 2 <= bound.blocks
    /\ LET s == commit(pending(t), t, create_l1_batch_env(node))
       IN  node' = s.node /\ poisoned' = s.poisoned

run_l2_tx(t) == RejectTx(t) \/ HaltTx(t) \/ CommitTx(t)

SendRawTransaction(t) ==
    /\ serving /\ t \in Signed
    /\ run_l2_tx(t)
    /\ UNCHANGED <<fork, startup, snapshots>>

(* eth_sendTransaction is for impersonated accounts. *)
SendTransaction(t) ==
    /\ serving /\ t \notin Signed /\ From[t] \in node.impersonated
    /\ run_l2_tx(t)
    /\ UNCHANGED <<fork, startup, snapshots>>

(***************************************************************************)
(* main before it serves: apply_txs, which ends at the first transaction   *)
(* that fails and whose error is dropped, and the rich accounts.           *)
(***************************************************************************)
ApplyTx ==
    /\ ~startup.ready /\ ~poisoned /\ startup.replay # <<>>
    /\ LET t == Head(startup.replay)
       IN  \/ /\ RejectTx(t) \/ HaltTx(t)
              /\ startup' = [startup EXCEPT !.replay = <<>>]
           \/ /\ CommitTx(t)
              /\ startup' = [startup EXCEPT !.replay = Tail(@)]
    /\ UNCHANGED <<fork, snapshots>>

SetRichAccounts ==
    /\ ~startup.ready /\ ~poisoned /\ startup.replay = <<>>
    /\ startup' = [startup EXCEPT !.ready = TRUE]
    /\ LET enriched(slots) == [s \in Slots |-> IF s \in RichAccounts THEN RichBalance ELSE slots[s]]
       IN  node' = [node EXCEPT !.rich = RichAccounts,
                                !.storage.slots = enriched(@),
                                !.audit.stateAt[node.current_miniblock] = enriched(@)]
    /\ UNCHANGED <<fork, snapshots, poisoned>>

(***************************************************************************)
(* Empty blocks.  The batch is executed with the context of the storage;   *)
(* the block of every iteration but the first gets another timestamp.      *)
(***************************************************************************)
mineOne(n, i, interval_ms) ==
    LET ctx == create_l1_batch_env(n)
        timestamp == IF i = 0 THEN ctx.timestamp ELSE n.current_timestamp + interval_ms
        rolled == [n EXCEPT !.storage.batch = [number |-> ctx.batch, timestamp |-> ctx.timestamp],
                            !.storage.l2_block = [number |-> ctx.miniblock, timestamp |-> ctx.timestamp]]
    IN  [insertBlock(rolled, create_empty_block(ctx.miniblock, timestamp, ctx.batch))
            EXCEPT !.current_batch = ctx.batch,
                   !.current_miniblock = ctx.miniblock,
                   !.current_timestamp = timestamp]

mine_empty_blocks(n, num_blocks, interval_ms) ==
    LET mined[i \in 0..num_blocks] == IF i = 0 THEN n ELSE mineOne(mined[i - 1], i - 1, interval_ms)
    IN  mined[num_blocks]

(* hardhat_mine, and evm_mine for one block *)
MineBlocks(num_blocks, interval) ==
    /\ serving
    /\ newBlocks + num_blocks <= bound.blocks
    /\ node' = [mine_empty_blocks(node, num_blocks, interval * Millis)
                  EXCEPT !.audit.packed = @ \/ (num_blocks > 1 /\ interval = 0)]
    /\ UNCHANGED <<fork, startup, snapshots, poisoned>>

MineBlock == MineBlocks(1, 1)

-----------------------------------------------------------------------------
(***************************************************************************)
(* The clock and direct writes to storage.                                 *)
(***************************************************************************)
set(n) ==
    /\ serving /\ node.audit.settings < bound.settings
    /\ node' = [n EXCEPT !.audit.settings = @ + 1]
    /\ UNCHANGED <<fork, startup, snapshots, poisoned>>

IncreaseTime(delta) ==
    set([node EXCEPT !.current_timestamp = @ + delta * Millis])

\* Mutant: without the guard.
SetNextBlockTimestamp_anyTime(timestamp) ==
    set([node EXCEPT !.current_timestamp = timestamp])

SetNextBlockTimestamp(timestamp) ==
    /\ timestamp >= node.current_timestamp
    /\ set([node EXCEPT !.current_timestamp = timestamp])

SetTime(time) ==
    set([node EXCEPT !.current_timestamp = time,
                     !.audit.rewound = @ \/ time < node.current_timestamp])

(* hardhat_setBalance: the slot of an account's balance is written without *)
(* a block.                                                                *)
SetBalance(account, balance) ==
    set([node EXCEPT !.storage.slots[account] = balance,
                     !.audit.stateAt[node.current_miniblock][account] = balance])

(* The deployment nonce is set as well; of an account that deploys at most *)
(* once in a transaction it is never the larger.                           *)
SetNonce(account, nonce) ==
    /\ nonceOf(node, account) < nonce
    /\ set([node EXCEPT !.storage.nonces[account] = nonce,
                        !.audit.jumped = @ \cup {account}])

SetCode(account, code) == set([node EXCEPT !.storage.codes[account] = code])

ImpersonateAccount(account) == set([node EXCEPT !.impersonated = @ \cup {account}])

StopImpersonatingAccount(account) ==
    /\ serving
    /\ node' = [node EXCEPT !.impersonated = @ \ {account}]
    /\ UNCHANGED <<fork, startup, snapshots, poisoned>>

-----------------------------------------------------------------------------
(***************************************************************************)
(* Snapshots hold every field of the node; ids are positions.              *)
(***************************************************************************)
Snapshot ==
    /\ serving
    /\ Len(snapshots) < MAX_SNAPSHOTS /\ Len(snapshots) < bound.snapshots
    /\ snapshots' = Append(snapshots, node)
    /\ UNCHANGED <<fork, startup, node, poisoned>>

\* Mutants: the receipts, the storage are not restored.
restore_snapshot_keepsResults(snapshot) == [snapshot EXCEPT !.tx_results = node.tx_results]
restore_snapshot_keepsStorage(snapshot) == [snapshot EXCEPT !.storage = node.storage]

restore_snapshot(snapshot) == snapshot

\* Mutant: later snapshots are kept.
RevertSnapshot_keepsLater(snapshot_id) ==
    LET index == IF snapshot_id = 0 THEN 1 ELSE snapshot_id
    IN  /\ serving
        /\ index <= Len(snapshots)
        /\ node' = restore_snapshot(snapshots[index])
        /\ snapshots' = RemoveAt(snapshots, index)
        /\ UNCHANGED <<fork, startup, poisoned>>

(* The snapshot and all later ones are dropped.  The id is taken down to   *)
(* an index by a saturating subtraction, so id 0 is id 1.                  *)
RevertSnapshot(snapshot_id) ==
    LET index == IF snapshot_id = 0 THEN 1 ELSE snapshot_id
    IN  /\ serving
        /\ index <= Len(snapshots)
        /\ node' = restore_snapshot(snapshots[index])
        /\ snapshots' = SubSeq(snapshots, 1, index - 1)
        /\ UNCHANGED <<fork, startup, poisoned>>

-----------------------------------------------------------------------------
(***************************************************************************)
(* Filters.                                                                *)
(***************************************************************************)
install(ef) ==
    /\ serving /\ CanAdd(node.filters) /\ node.filters.id_counter < bound.filters
    /\ node' = [node EXCEPT
                  !.filters = ef,
                  !.audit.installedAt = with(@, ef.id_counter, Len(node.audit.events)),
                  !.audit.delivered = with(@, ef.id_counter, <<>>)]
    /\ UNCHANGED <<fork, startup, snapshots, poisoned>>

NewBlockFilter == install(add_block_filter(node.filters))

NewPendingTransactionFilter == install(add_pending_transaction_filter(node.filters))

NewFilter(f) ==
    install(add_log_filter(node.filters, f.from_block, f.to_block, f.addresses, f.topics))

UninstallFilter(id) ==
    /\ serving
    /\ node' = [node EXCEPT !.filters = remove_filter(@, id),
                            !.audit.delivered = Restrict(@, DOMAIN @ \ {id}),
                            !.audit.installedAt = Restrict(@, DOMAIN @ \ {id})]
    /\ UNCHANGED <<fork, startup, snapshots, poisoned>>

GetFilterChanges(id) ==
    /\ serving
    /\ node' = [node EXCEPT
                  !.filters = get_new_changes(@, id),
                  !.audit.delivered[id] = @ \o node.filters.filters[id].updates]
    /\ UNCHANGED <<fork, startup, snapshots, poisoned>>

-----------------------------------------------------------------------------
(* With the lock poisoned every request is answered with an error. *)
Dead == poisoned /\ UNCHANGED vars

(* A value of the fork cannot be read: unwrap panics with the storage's    *)
(* lock held.                                                              *)
ForkFails ==
    /\ fork # NoFork /\ ~poisoned
    /\ poisoned' = TRUE
    /\ UNCHANGED <<fork, startup, node, snapshots>>

Startup == ApplyTx \/ SetRichAccounts

(* The requests that change the node, by namespace. *)
Eth ==
    \/ \E t \in Sent : SendRawTransaction(t) \/ SendTransaction(t)
    \/ NewBlockFilter \/ NewPendingTransactionFilter
    \/ \E f \in LogFilters : NewFilter(f)
    \/ \E id \in DOMAIN node.filters.filters : UninstallFilter(id) \/ GetFilterChanges(id)

Evm ==
    \/ \E delta \in Deltas : IncreaseTime(delta)
    \/ \E time \in Times : SetNextBlockTimestamp(time) \/ SetTime(time)
    \/ MineBlock
    \/ Snapshot
    \/ \E id \in 0..MAX_SNAPSHOTS : RevertSnapshot(id)

Hardhat ==
    \/ \E b \in Balances : SetBalance(b[1], b[2])
    \/ \E n \in Nonces : SetNonce(n[1], n[2])
    \/ \E c \in Codes : SetCode(c[1], c[2])
    \/ \E num \in Counts, interval \in Intervals : MineBlocks(num, interval)
    \/ \E account \in {From[t] : t \in Sent \ Signed} :
          ImpersonateAccount(account) \/ StopImpersonatingAccount(account)

Next == Startup \/ Eth \/ Evm \/ Hardhat \/ ForkFails \/ Dead

Spec == Init /\ [][Next]_vars

-----------------------------------------------------------------------------
(***************************************************************************)
(* Properties.  A node whose lock is poisoned answers nothing, so what it  *)
(* holds is of no interest.                                                *)
(***************************************************************************)
blockAt(n) == node.blocks[node.block_hashes[n]]

first == IF fork = NoFork THEN 0 ELSE fork

holds(block, t) == \E i \in DOMAIN block.transactions : block.transactions[i].hash = t

(* The blocks from the first to current_miniblock are all there and no     *)
(* others, batches are numbered without gaps, each block is the child of   *)
(* the one before, whatever was mined, sent and reverted.  Empty blocks    *)
(* take their parent's hash for that of an empty block, and the number of  *)
(* a block comes from the system contracts' storage, not from the node.    *)
(* Only a block mined right after the fork is not the child of the fork's. *)
orphan(block) == fork # NoFork /\ block.number = fork + 1 /\ block.transactions = <<>>

ChainIsLinked ==
    ~poisoned =>
        /\ DOMAIN node.block_hashes = first..node.current_miniblock
        /\ DOMAIN node.blocks = Range(node.block_hashes)
        /\ \A n \in first..node.current_miniblock : blockAt(n).number = n
        /\ \A n \in (first + 1)..node.current_miniblock :
              /\ blockAt(n).parent_hash = blockAt(n - 1).hash \/ orphan(blockAt(n))
              /\ blockAt(n).batch - blockAt(n - 1).batch \in {0, 1}
        /\ blockAt(node.current_miniblock).batch = node.current_batch

(* A transaction has a receipt exactly when one block of the node holds    *)
(* it, and the receipt names that block; its account's nonce is past it,   *)
(* and counts the receipts of the account unless it was set: reverting to  *)
(* a snapshot takes all of them back, a halted transaction leaves none.    *)
ReceiptsMatchChain ==
    ~poisoned =>
        /\ \A t \in Transactions :
              {n \in DOMAIN node.block_hashes \ {first} : holds(blockAt(n), t)}
                = IF t \in DOMAIN node.tx_results THEN {node.tx_results[t].block_number} ELSE {}
        /\ \A t \in DOMAIN node.tx_results :
              LET receipt == node.tx_results[t]
              IN  /\ receipt.block_hash = node.block_hashes[receipt.block_number]
                  /\ receipt.batch = blockAt(receipt.block_number).batch
                  /\ nonceOf(node, From[t]) > Nonce[t]
        /\ \A a \in Accounts \ node.audit.jumped :
              nonceOf(node, a) = Cardinality({t \in DOMAIN node.tx_results : From[t] = a})
                                 + IF fork = NoFork THEN 0 ELSE remoteNonces[fork][a]

(* A replayed transaction meets the state it met on the network: when all  *)
(* of its block was replayed, each slot has the value the network has      *)
(* after that block.  One that paid less than the node's fixed price is    *)
(* not replayed, and main starts the node nevertheless.                    *)
ReplayReachesNetwork ==
    startup.command = "replay" /\ ~startup.ready /\ ~poisoned =>
        LET done == DOMAIN node.tx_results
            blocks == {n \in DOMAIN RemoteBlocks : done # {} /\ done = ToSet(RemoteBlocks[n].transactions)}
            refused == \E n \in {fork + 1} \cap DOMAIN RemoteBlocks :
                          \E t \in ToSet(RemoteBlocks[n].transactions) : ~validate_tx(t)
        IN  /\ startup.replay = <<>> => done # {} \/ refused
            /\ \A n \in blocks, s \in Slots : slotValue(node, s) = remoteSlots[n][s]

(* What it takes, of any network.  Its blocks hold what was executed on    *)
(* it: signed transactions, each once, with the nonces of their accounts.  *)
NetworkIsExecuted ==
    /\ DOMAIN RemoteGenesis = Slots
    /\ \A i \in DOMAIN RemoteBlocks :
          LET transactions == RemoteBlocks[i].transactions
          IN  \A k \in DOMAIN transactions :
                LET t       == transactions[k]
                    earlier == {transactions[l] : l \in 1..(k - 1)}
                IN  /\ t \in Signed
                    /\ Nonce[t] = remoteNonces[i - 1][From[t]]
                                  + Cardinality({u \in earlier : From[u] = From[t]})
                    /\ \A j \in DOMAIN RemoteBlocks :
                          \A l \in DOMAIN RemoteBlocks[j].transactions :
                              RemoteBlocks[j].transactions[l] = t => j = i /\ l = k

(* No transaction clears a slot that is not zero before its block: the     *)
(* node takes the zero it wrote for a slot to be read from the fork.       *)
NothingIsCleared ==
    \A i \in DOMAIN RemoteBlocks : \A t \in ToSet(RemoteBlocks[i].transactions) :
        \A s \in DOMAIN Writes[t] : Writes[t][s] # 0 \/ remoteSlots[i - 1][s] = 0

Behind ==
    /\ node.storage.batch.number > 0
    /\ Max({node.storage.batch.timestamp, node.storage.l2_block.timestamp}) > node.current_timestamp

(* The node's own counters agree with the system contracts' ones after     *)
(* every request, so that the next transaction finds the block it expects; *)
(* the clock falls behind, and a block does not have a later timestamp     *)
(* than the one before, only by evm_setTime or by blocks mined with no     *)
(* interval between them.                                                  *)
NodeTracksStorage ==
    ~poisoned =>
        /\ node.storage.batch.number > 0 =>
              /\ node.storage.batch.number = node.current_batch
              /\ node.storage.l2_block.number = node.current_miniblock
        /\ Behind => node.audit.rewound \/ node.audit.packed
        /\ ~node.audit.rewound =>
              \A n \in (first + 1)..node.current_miniblock :
                  \/ blockAt(n - 1).timestamp < blockAt(n).timestamp
                  \/ node.audit.packed /\ blockAt(n - 1).timestamp = blockAt(n).timestamp

(* run_l2_tx panics on a block it did not expect only when the clock had   *)
(* fallen behind; else only a fork that cannot be read ends the service.   *)
PanicsOnlyBehind == [][poisoned' => poisoned \/ Behind \/ ForkFails]_vars

(* Every snapshot is a past of the node and of the snapshots after it: the *)
(* ids that later snapshots had do not come back with a chain that was     *)
(* reverted.                                                               *)
IsPastOf(old, new) ==
    /\ IsPrefix(old.audit.events, new.audit.events)
    /\ \A n \in DOMAIN old.block_hashes :
          n \in DOMAIN new.block_hashes /\ new.block_hashes[n] = old.block_hashes[n]

SnapshotsArePasts ==
    /\ \A i, j \in DOMAIN snapshots : i < j => IsPastOf(snapshots[i], snapshots[j])
    /\ ~poisoned => \A i \in DOMAIN snapshots : IsPastOf(snapshots[i], node)

(* A log filter wants the logs of its blocks, with one of its addresses,   *)
(* that have no topic outside its sets.                                    *)
wanted(f, event) ==
    /\ f.kind = event.kind
    /\ f.kind = "log" =>
          LET log == event.update
          IN  /\ f.from_block.tag = "number" => f.from_block.number <= log.block_number
              /\ f.to_block.tag = "number" => log.block_number <= f.to_block.number
              /\ f.to_block.tag # "earliest"
              /\ f.addresses # {} => log.address \in f.addresses
              /\ \A i \in DOMAIN log.topics :
                    i \in DOMAIN f.topics /\ f.topics[i] # {} => log.topics[i] \in f.topics[i]

(* The updates of the events at these places, in order. *)
updatesAt(events, places) ==
    LET upTo[i \in 0..Len(events)] ==
            IF i = 0 THEN <<>>
            ELSE IF i \in places THEN Append(upTo[i - 1], events[i].update)
            ELSE upTo[i - 1]
    IN  upTo[Len(events)]

(* What an installed filter has handed out and still holds is each event   *)
(* of its kind since it was installed, once and in order, whatever was     *)
(* polled in between.                                                      *)
FiltersDeliverOnce ==
    \A id \in DOMAIN node.filters.filters :
        LET f      == node.filters.filters[id]
            events == node.audit.events
            due    == {i \in DOMAIN events : i > node.audit.installedAt[id] /\ wanted(f, events[i])}
        IN  node.audit.delivered[id] \o f.updates = updatesAt(events, due)

(* The archive holds at most MAX_PREVIOUS_STATES + 1 blocks of the chain,  *)
(* the oldest gone first: no transaction's block newer than one of them is *)
(* missing, nor the newest.  The state archived for a transaction's block  *)
(* is the state after that block, whatever was written since.              *)
archived(n) ==
    {i \in DOMAIN node.previous_states : node.previous_states[i].hash = node.block_hashes[n]}

ArchiveIsExact ==
    ~poisoned =>
        /\ Len(node.previous_states) <= MAX_PREVIOUS_STATES + 1
        /\ \A i \in DOMAIN node.previous_states :
              node.previous_states[i].hash \in DOMAIN node.blocks
        /\ \A i, j \in DOMAIN node.previous_states :
              i < j => node.blocks[node.previous_states[i].hash].number
                         < node.blocks[node.previous_states[j].hash].number
        /\ LET withTx == {n \in DOMAIN node.block_hashes \ {first} : blockAt(n).transactions # <<>>}
           IN  /\ withTx # {} => archived(Max(withTx)) # {}
               /\ \A n \in withTx :
                     (\E older \in first..(n - 1) : archived(older) # {}) => archived(n) # {}
               /\ \A n \in withTx : \A i \in archived(n) :
                     node.previous_states[i].slots = node.audit.stateAt[n]

=============================================================================
