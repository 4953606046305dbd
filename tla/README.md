# Specifications of the zkSync Era precompiles

TLA+ specifications of the elliptic-curve and big-integer precompiles in
`src/precompiles` and of the test node in `src/.test-node-subtree` that their
tests run on, with TLC configurations and TLAPS proofs.

```
tlc -workers 2 -config MCTestNode.cfg MCTestNode   # one run; PROJECT.json lists them all
tlapm TestNodeProofs.tla                           # and the other modules named *Proofs
```

Paths below that do not begin with `src/` are relative to
`src/.test-node-subtree/src`, and to `src/precompiles` for `*.yul`.

## 1. The system

### Precompiles

A precompile is a Yul contract. One call reads calldata, computes in the VM's
memory and ends in a return, a revert (`burnGas`) or by running out of gas. It
keeps no state between calls and nothing runs beside it. What makes it hard is
arithmetic on 256-bit words whose moduli fill the word, Montgomery form, loops
that nothing bounds but the gas, the exceptional points of the group laws, and
(in ModExp) hand-managed memory.

| component | source | state of a call | operations | correct when |
|---|---|---|---|---|
| Montgomery arithmetic | in every curve precompile | words; the inverse's `u v b c` | `REDC`, into/out of form, add, sub, mul, div, `binaryExtendedEuclideanAlgorithm` | it is the field's arithmetic; the inverse ends |
| EcAdd | `EcAdd.yul` | the two points | one fallback with a branch per exceptional case | returns the group sum; rejects every invalid point |
| EcMul | `EcMul.yul` | base point, accumulator, scalar | early returns, double-and-add | returns the group product |
| P256VERIFY | `P256VERIFY.yul` | hash, r, s, key, two scalars, accumulator | checks, scalars, Shamir's loop, comparison | accepts exactly what ECDSA accepts, answers every request |
| secp256k1VERIFY | `secp256k1VERIFY.yul` | the same | the same text with another curve, `REDC`, `projectiveAdd` and no final test | the same |
| ModExp | `ModExp.yul` | seven buffers of limbs | special cases, load, square-and-multiply, restoring division | returns the power, whatever the lengths |
| EcAddG2, EcMulG2 | `EcAddG2.yul`, `EcMulG2.yul` | as EcAdd, EcMul over the quadratic extension | | the group law over the extension |
| EcPairing | `EcPairing.yul` | pairs, accumulator, Miller loop | checks, Miller loop, final exponentiation | 1 exactly when the product of pairings is 1 |

The precompiles do not call each other; they repeat the same routines. Three
texts of the Montgomery routines exist: the alt_bn128 one (`EcAdd`, `EcMul`,
the G2 ones, `EcPairing`), which looks at no carry because the modulus leaves
spare bits, and those of `P256VERIFY` and `secp256k1VERIFY`, whose moduli do
not. `Variant` tells them apart in the models: `"bn"`, `"r1"`, `"k1"`.

### Test node

| component | source | state | operations | correct when |
|---|---|---|---|---|
| blocks, batches, snapshots | `node/in_memory.rs`, `in_memory_ext.rs`, `node/evm.rs`, `node/hardhat.rs`, `utils.rs`, `main.rs`, `fork.rs` | `InMemoryNodeInner`: blocks, hashes by number, receipts, clock, numbers of the last batch and block, storage, archive, impersonated and rich accounts; the list of snapshots; the lock | start on genesis, fork or replay; `run_l2_tx`, `mine_empty_blocks`, time, balance, nonce, code, impersonation, snapshot, revert | the chain is linked, receipts and nonces match it, the node's counters agree with the storage's, a revert restores one past, a replay reaches the network's state |
| filters | `filters.rs`, `node/eth.rs` | installed filters and their updates | install, notify, poll, read, remove | every wanted event is handed out once, in order |
| reads | `node/eth.rs`, `node/zks.rs`, `node/debug.rs` | none of their own | blocks, transactions, receipts, logs, traces, fees, state | every way to ask for a thing gives the same thing |
| what a fork reads | `http_fork_source.rs`, `cache.rs` | cache in memory, its directory | a read through the cache, restart | answers are the network's, a restart finds what was written |
| storage of a fork | `fork.rs`, `deps/storage_view.rs`, `deps/mod.rs` | local storage, two caches, the view of a batch | read, write, load and store a bytecode, commit, discard, snapshot, restore | it answers as one store of values, whatever is cached |
| gas estimation | `node/in_memory.rs`, `utils.rs` | bounds of the search, prices | `estimate_gas_impl` | the answer suffices and is tight, the search ends |
| display | `formatter.rs`, `resolver.rs`, `node/storage_logs.rs`, `bootloader_debug.rs`, `node/config.rs` | settings, cache of names, payments of slots | gas details, storage logs, calls, events | the numbers add up, the node survives |

How they interact. JSON-RPC handlers share the node through a read-write lock;
`run_l2_tx` executes a batch in a `StorageView` over `ForkStorage`, which asks
`HttpForkSource` for what it does not hold; the results are displayed, written
to the storage, to blocks, receipts and filters. The server has one worker
thread (`main.rs:177`) and no handler awaits while it changes the node, so
`run_l2_tx`, which takes the lock three times for one transaction, is not
interleaved with another request: a handler is one action of `TestNode`. What
is hard is the order of requests: mining beside transactions, a clock moved by
hand, limits of the archive and the snapshots, reverts, filters polled at any
time; two copies of the batch and block numbers; a panic that poisons the lock;
and, below the node, requests to the network that fail, a process that is
killed while it writes its cache, and a network that grows.

## 2. Modules

```
Montgomery -- BinaryInverse -- MCMontgomery (with MontgomeryField in three variants)
    |  |                          \-- ArithmeticProofs (with MontgomeryProofs)
    |  |---------- MontgomeryField ===> PrimeField            (refinement)
    |  \---------- MontgomeryProofs -- CurveProofs (with WeierstrassGroup)
    |-- AltBn128 -- EcAdd -- MCPrecompiles (with EcMul and ModExp)
    |      |                \-- PrecompileProofs (with CurveProofs)
    |      \------- EcMul
    \-- Ecdsa -- MCEcdsa,  Ecdsa -- EcdsaProofs (with CurveProofs)
WeierstrassGroup: extended by AltBn128 and Ecdsa; the reference for the group law
BigUInt -- ModExp -- MCModExp

EthFilters -- TestNode -- NodeApi -- MCTestNode
                             \------ TestNodeProofs
RemoteNetwork -- ForkSource -- MCFork (with ForkStorage) -- ForkProofs
ForkStorage ===> OverlayStorage (refinement)
GasEstimate -- MCGas (with TxDisplay) -- GasProofs
```

| module | models | how state and actions correspond to the code |
|---|---|---|
| `Montgomery` | routines on words, three texts | operators with the names of the Yul functions; EVM `add`, `sub`, `mul` wrap modulo `R` (2^256 in the code) |
| `BinaryInverse` | `binaryExtendedEuclideanAlgorithm` | the Yul locals are the variables, `pc` is the loop the code is in; every pass through a loop body is an action |
| `PrimeField` | what the routines promise | a register combined with field elements; no word, no carry |
| `MontgomeryField` | the routines in any order | the register holds a word in Montgomery form; refines `PrimeField` under `outOfMontgomeryForm` |
| `WeierstrassGroup` | reference | points and group law by chord and tangent on integers modulo `P` |
| `AltBn128` | what `EcAdd` and `EcMul` share | field operations, curve checks, constants, infinity |
| `EcAdd` | its fallback | one action per branch, in the order of the code; the call's result is the variable `sum` |
| `EcMul` | its fallback | one action per early return, per branch of a loop pass, for the return |
| `Ecdsa` | `P256VERIFY`, `secp256k1VERIFY` | checks, scalar arithmetic and each pass of Shamir's loop are actions |
| `BigUInt` | ModExp's functions on numbers in limbs | a memory of limbs; `bigUIntShl` with its read before and writes after the number |
| `ModExp` | its fallback and `bigUIntModularExponentiation` | special cases, `Load` (the memory layout), each pass of the division and of the exponent's loop are actions; `frame` holds the pointers of the running `bigUIntRem`, because the buffers swap roles |
| `EthFilters` | `filters.rs` | operators on the structure `[id_counter, filters]` |
| `TestNode` | the node's start and every request that changes it | one action per request; `node` has the fields of `InMemoryNodeInner`, `snapshots` is the list, `poisoned` the state of the lock, `fork` the forked block, `startup` what `main` still has to replay and whether it serves |
| `NodeApi` | every request that reads | operators on the state of `TestNode`, named as the handlers; an `Option` is a set of at most one element; `Input` says which transactions have their bytes, and in them a chain id |
| `RemoteNetwork` | external; specification of a fork source | networks that take transactions, mine and seal blocks, list tokens; `Tell` says which answers a reader may be given |
| `ForkSource` | `HttpForkSource`, `Cache` | a read is a record of what is asked, what the cache has and where an answer goes; a hit, a miss, the creation of a file, its writing, a restart (or a kill) are actions; refines the reader of `RemoteNetwork` |
| `OverlayStorage` | what the storage promises | one value for each key, the writes of a batch, one snapshot |
| `ForkStorage` | `ForkStorage`, `StorageView`, the handlers that read slots and bytecodes | `inner` has the fields of `ForkStorageInner`, `view` those of `StorageView` |
| `GasEstimate` | `estimate_gas_impl` | the prices, every attempt of the search and each way to end are actions |
| `TxDisplay` | display of a transaction or a call, `config_set...` | the phases of the display in their order; each displayed item is an action |

Abstractions to know of:

- In `EcAdd`, `EcMul` and `Ecdsa` the field operations are functions tabulated
  from what they compute. `FieldOperations` and `ScalarOperations` say that the
  texts of `Montgomery` compute just that for every operand. TLC evaluates them
  at the start of each run, and they are the theorems `TablesAreExact` and
  `VerifierTablesAreExact`.
- In `ModExp`, a byte has `BYTE_SIZE_IN_BITS` bits and a limb
  `LIMB_SIZE_IN_BYTES` bytes. `exact` is history: it turns false when a
  remainder is taken with a wrong length, a wrong divisor or a lost borrow. A
  shift count that wraps sends the call to `outOfGas`, since the fill loop
  would run about 2^248 times.
- In `TestNode` the VM is external: a transaction writes given slots and emits
  given logs, and halts on a wrong nonce or a missing signature, which depends
  on the system contracts that are loaded for it. `compute_hash` is a pair, so
  injective. The forked network stands still: what a growing one answers is the
  subject of `ForkSource`. `node.audit` is history for the properties: the
  events that happened, the storage after each block, what each filter handed
  out, whether the clock was set back (`rewound`) or blocks were mined with no
  interval (`packed`), whose nonce was set (`jumped`), and a count of direct
  settings that only bounds the instance. It is restored by a revert with the
  rest of the node: the properties speak of the history the chain has now.
- In `ForkSource` an answer names the network it comes from and whether a block
  was sealed; nothing else of its content is told apart. `lost` is history: a
  file could not be created in this run.
- In `ForkStorage` one handler's lock sections are one action, but for a batch,
  whose reads and writes are actions of their own between `NewView` and
  `Commit` or `Discard`. A failed request to the network panics with the locks
  held, hence `poisoned`. `asked` is history.
- In `GasEstimate` a transaction is the gas its body needs. `derive_overhead`
  and the f32 scale are constants of which only monotony is assumed. Sums of
  `u32` wrap, or panic, as the build checks them: both are taken.
- In `TxDisplay` what the VM returned is drawn when it is displayed, from what
  the bootloader can leave in its debug slots (`bootloader.yul`); `answers` and
  `payments` are history.

## 3. Runs

Every run explores all states of its instance; "violation" runs end with the
counterexample of the finding.

| run | instance | what it shows |
|---|---|---|
| `arith` | 5-bit words: inverse modulo 29 of every base; the field texts with modulus 29 (`r1`, `k1`) and 13 (`bn`), every operand and every word loaded | the inverse's invariant, progress and termination; the texts implement the prime field |
| `precompiles` | curve of 13 points over F_19 with 6-bit words: all coordinates, one outside the field, the largest word, all 64 scalars; ModExp with all operands of up to two two-bit limbs | EcAdd and EcMul are the group's; ModExp's loops, memory, and result where `exact` |
| `p256verify` | 5-bit words, 17 points over F_23, all r, s, keys, hashes around N | verdict is ECDSA's; every well-formed request is answered |
| `secp256k1verify` | 5-bit words, 13 points over F_19 | the same; only a combination at infinity is left unanswered |
| `secp256k1verify_unanswered` | the same | finding 1 |
| `modexp_unanswered` | two-bit limbs | finding 2 |
| `modexp_wrong_power` | three-bit limbs, two-limb moduli | finding 3 |
| `node` | three ways to start: plain; fork at block 2 of a network of four; replay of two transactions of one block, or of one that is underpriced | chain, receipts, clock, archive, snapshots, filters; what every read answers |
| `node_history` | the same | finding 4 |
| `gas` | 8-bit words, gas limit 90, overestimation 4, four L1 prices, five pubdata limits, six bytecode lengths, every need; display of all transactions of up to 8 gas, two selectors, two topics, two slots | the estimate is sufficient, tight and ends; the display adds up |
| `display_stops_node` | the same | finding 5 |
| `fork` | two networks, one of which grows, one block and one transaction each, two runs on one directory, two cached answers a history, every fault of the disk; storage of two keys and one bytecode | answers are the network's, restart, caches; refinement of `OverlayStorage` |

Why the bounds are enough.

*Arithmetic.* The texts depend on the word size only through `R`, and the cases
that differ depend on how the modulus sits in the word: 29 of 32 makes every
carry happen, 13 of 32 and 19 of 64 leave the spare bits that alt_bn128 has.
The proofs then remove the bound for all of the arithmetic. The curves
have prime order (13, 17), so every pair of points occurs: equal, opposite,
infinite, off the curve. Scalars and hashes exceed the group order, so the
accumulators meet every exceptional case; N < P, so the x-coordinate has to be
reduced. ModExp with two limbs has all alignments of operands to limbs, an
interior zero limb in products (four limbs), the largest limb, and moduli that
need a shift of part of a limb.

*Node.* `Bounds` gives for each way to start how many blocks, events, direct
settings, filters and snapshots a history has, so that what interacts occurs
together: a plain node mines five blocks, which hold two transactions with
empty blocks before, between or after them, has a filter of each kind, a
snapshot, and one direct setting (clock, balance, nonce, code, impersonation)
before or after anything else; a forked one has four new blocks and two
snapshots, the least for a revert to drop a later one; four states are
archived, so the archive (two entries, `MAX_PREVIOUS_STATES` + 1) evicts twice.
One filter at a time suffices since filters do not see each other. The forked
network has blocks before and after the forked one, a block of two transactions
in the other order than clients send them, and one that the node refuses. One
of the two has no chain id in its bytes, so the plain node answers null for it
and the forked one with the network's.

*Fork.* Two answers a history are enough for an entry to be replaced, for a
block to be kept in both forms, and for a torn file beside a whole one; two runs
for a restart with the same or another network: on the one that grows, after a
run on either, since the other gives no answer that grows old. The storage has a
key whose network value is zero and is overwritten, and one of genesis that is set to zero
over a value of the network. There is no bound on the storage's histories.

*Gas.* With 8-bit words the gas of bytecodes exceeds what is left beside the
limit (90), so every sum wraps for some request; with limits from 1 to 12 the
L1 price is lowered by every amount, to zero too. The proofs remove these bounds.
The display takes transactions from too little gas for the operator up to more
than is trusted, three items of each kind, and a signature of each sort: built
in, listed, listed without a name; any of them may fail to be answered.

Fairness. Two properties are liveness, both called `Terminates`. In `arith`,
`WF(Invert)` says that a call of the inverse, once begun, takes its next step:
a contract is executed by the VM until it ends, and the gas is left out because
the property is that a bounded number of passes is enough. In `gas`,
`WF(Estimate)` says the same of `estimate_gas_impl`, a loop without awaiting
that nothing interrupts. No other fairness is assumed: requests may never come,
the network may never answer, and that the other precompiles answer is stated as
safety (no state in which they loop for ever or run out of gas).

Deadlock is checked in all runs except `arith`, where a call that has returned
really stops, and `fork`, where a storage whose request failed answers nothing
any more and a history reaches its bounds. Elsewhere a finished call or a
poisoned node stutters by an action of its own.

### The properties

- *Arithmetic.* `IInv`: the invariant of the inverse, with its result.
  `RemaindersDecrease`, `Terminates`. `ImplementsField` is the refinement;
  `EncodingIsFaithfulInAll` is what lets the code compare words in Montgomery
  form with `eq`.
- *Curves.* `ReturnsGroupSum`, `ReturnsGroupProduct` (both include that invalid
  points, and only they, are rejected), `AccumulatorTracksProduct`.
- *Signatures.* `AccumulatorTracksCombination` relates the accumulator to the
  bits read so far; `AcceptsExactlyValid` compares with ECDSA on integers;
  `BurnsExactlyMalformed`, `AnswersWellFormed`, `DivergesOnlyAtInfinity`.
- *ModExp.* `RemainderIsPartial` is the division's invariant, `OperandsSurvive`
  says that the writes past a buffer never reach modulus or exponent,
  `ReturnsPowerWhenExact` the result.
- *Node.* `ChainIsLinked`, `ReceiptsMatchChain`, `ReplayReachesNetwork`,
  `NodeTracksStorage`, `PanicsOnlyBehind`, `SnapshotsArePasts`,
  `ArchiveIsExact`, `FiltersDeliverOnce`.
- *Reads.* `BlockLookupsAgree`, `TransactionLookupsAgree`, `FilterLogsAgree`:
  evaluated in every state of the node, for every block, transaction and filter.
  By its hash, a transaction whose bytes are missing or have no chain id is
  answered as if the node had not run it; `TransactionLookupsAgree` claims no
  more of that request.
- *Fork.* `Reader` (an answer is one the network gives or gave, absence is never
  remembered), `RestartKeepsCache`, `CacheNeverRegresses`; `ImplementsOverlay`
  and `AsksOnce` of the storage.
- *Gas.* `PubdataWithinLimit`, `EstimateIsTight`, `RefusesOnlyUnexecutable`,
  `Terminates`; `GasDetailsAddUp`, `PaymentsCoverTotal`, `DirectoryAnswersOnce`.

## 4. Findings

1. `secp256k1VERIFY` never answers a request whose combination of key and hash
   is the point at infinity (`Q = -G`, `hash = r`): it inverts zero.
   `P256VERIFY` has the test.
2. `ModExp` runs out of gas when a dividend has fewer limbs than the modulus:
   `sub(shl(8, realLimbs), modulusBitSize)` wraps.
3. `ModExp` answers with a wrong power. In the run the cause is the length of a
   product with a zero limb inside; `bigUIntShl` reading past the number and a
   borrow lost for the largest word are two others, also tracked by `exact`.
4. `eth_getStorageAt` for an earlier block may answer with a later value: keys
   are written before the state is archived, and zero falls back to the current
   value. The node's README lists historical data among its limitations; the
   comments in the code promise it.
5. Displaying a transaction may end the service: the result of the signature
   directory is unwrapped with the node's write lock held (`formatter.rs:73`,
   `:154`), and so is a difference of gas below zero when the preparation of
   bytecodes took more than the validation had left (`node/in_memory.rs:1107`).
   The lock is poisoned, the transaction is not committed, and every later
   request fails. The options are described as changing the log only.

Smaller differences, seen while modelling and not given a run.

Precompiles:

- `0^0 mod m` is 0 on ModExp's one-limb path (`ModExp.yul:549`) and 1 on the
  general one (`:741`).

Blocks and time:

- `hardhat_mine` with more than one block and interval 0 leaves the node's clock
  behind the storage's, and the next transaction panics in `run_l2_tx` with the
  lock held, although `utils.rs` says it leaves the "node state ready for next
  interaction". `evm_setTime` into the past does the same, and its comment warns
  of it. `PanicsOnlyBehind` and `NodeTracksStorage` say that these two are the
  only ways.
- A block mined right after a fork takes for its parent the hash of an empty
  block that the chain does not have (`orphan` in `TestNode`).
- The archive holds `MAX_PREVIOUS_STATES` + 1 entries, and `evm_revert` of
  snapshot 0 reverts to snapshot 1.
- Errors of a replay are dropped (`main.rs:368`): the node then serves with a
  part of the block. A transaction that paid less than the node's fixed base
  fee is never replayed.
- `--fork-at` is said to default to the finalized block (`main.rs:281`); the
  code takes the latest (`fork.rs:409`). A plain fork has chain id 260 whatever
  the network's.

Reads:

- A transaction inside a block names the block before as its own, since it is
  made before the counters move; `eth_getTransactionByHash` gives the
  transaction's hash for the hash of its block.
- `eth_getTransactionByHash` does not find a transaction that the node ran if
  its bytes are missing or have no chain id (`node/eth.rs:487`), as those of a
  legacy transaction from before EIP-155, which `eth_sendRawTransaction` takes.
  It answers with the network's transaction, in another block, or with null,
  although the transaction is in memory ("try retrieving transaction from
  memory, and if unavailable subsequently from the fork", `:485`) and its
  receipt, its details, its trace and its place in the block are answered.
  `TransactionLookupsAgree` says so of these transactions (`hidden`).
- `eth_getTransactionByBlockNumberAndIndex` past the end of a local block of a
  fork answers with the network's transaction of that number
  (`node/eth.rs:1091`), and numbers past the head of a fork with the network's
  later blocks; `eth_getStorageAt` for such a number gives the network's value.
- Of the forked block itself the raw transactions are empty and its traces an
  error.
- A slot set to zero on a fork reads as the network's value (`fork.rs:100`);
  this exception is part of what `OverlayStorage` promises.
- The output of `eth_call` is displayed with its gas; requests for bytecodes
  remembered as missing by the storage are sent again by `zks_getBytecodeByHash`
  (`node/zks.rs:485`).
- A failed read of the network panics with the locks held (`fork.rs:125`).

Caches and filters:

- A transaction cached while it waited stays without block for the whole life
  of the cache (`Reader` allows late answers); the default directory of the
  cache is the same for every network (`shared` in `RemoteNetwork`).
- One torn file ends the loading of the cache's other files and types.
- Mined empty blocks are not announced to block filters (`eth_newBlockFilter`:
  "notify when a new block arrives").
- A filter that is installed without a first block starts at the latest
  (`node/eth.rs:625`). `eth_getFilterChanges` hands it every later log, each
  the latest when it is emitted; `eth_getFilterLogs` compares with the block
  that is the latest when it is asked (`:791`), so it answers with that block's
  logs only. `FilterLogsAgree` is about the other filters.
- A log with fewer topics than a filter has positions matches it
  (`filters.rs:69`), whereas the comment at `node/eth.rs:610` asks for "A in first
  position AND B in second".

Display:

- The payments displayed for a slot exceed its total after its pubdata shrank
  and grew again (`node/storage_logs.rs:59`).
- Every name is looked up with a new client, so the limit of timed out requests
  (`resolver.rs:22`) is never reached.

## 5. Proofs

`MontgomeryProofs` proves, for every even word size `R` and every odd modulus
(with a spare bit for the alt_bn128 text), that each text of `REDC` returns the
reduced representative of `T / R`: `REDC_bn_Correct`, `REDC_r1_Correct`,
`REDC_k1_Correct`. The argument: `m` is chosen so that `T + m*n` is divisible
by `R`; the carry of the low half is 1 exactly when the low half of `T` is not
zero; the high half, with the carries that leave it, is below `2n`, so one
subtraction reduces it, and subtracting `n` from a word that has lost a carry is
right modulo `R`. For `k1` the first carry is folded in by adding `R - n` and
its flag is not cleared; the proof shows that a first carry needs `m # 0`, hence
a carry of the low half, which assigns the flag anew: `n` is never taken twice,
and the addition that a comment in the code asks about does not overflow.

The rest of the module is what follows for the functions of the precompiles. For
a prime `n` of the word and the constants precomputed for it (`IsOrder`), `nPrime`
shows that `R` has an inverse modulo `n`, so a word `w` stands for one element,
`decode(n, w) = w / R`. `SumValue`, `ProductValue`, `FormValue` and `InverseValue`
say what each function returns, in each text, and `WordsImplementField` that out
of Montgomery form it is the field's operation. Inverses modulo a prime come from
the least positive multiple of a number, which divides the prime.

`ArithmeticProofs` is about what `MCMontgomery` runs. `EncodingAlwaysFaithful` and
`TextsImplementField` are `EncodingIsFaithfulInAll` and the refinement
`ImplementsField`, for every word size and pair of orders: the register holds a
reduced word (`RegisterInv`) and each operation of `MontgomeryField` is the
same one of `PrimeField`. Each text cites its own instance of
`MontgomeryProofs`.

Of the inverse it proves, for every word size, every odd prime modulus,
every variant and base, `InvariantHolds`, `TypeCorrect`, `InverseCorrect`,
`NoZeroRemainder`, `ZeroNeverReturns` (`Spec => []...`) and `PassesDecrease`
(every pass makes `u + v` smaller). That the answer is the inverse
(`InverseIsCorrect`) is not inductive: it says nothing before the return. The
inductive invariant `IInv` adds the types (coefficients reduced, remainders in
range), where the loops are (`LoopPosition`: which of `u`, `v` is odd), that the
coefficients track the remainders, that the remainders are coprime for a base
that is not zero (`RemainderGcdIsOne`), and that then neither becomes zero
(`NeverZeroRemainder`), without which the halving loop would not end. Each
action has a step, and under it one for each conjunct it can disturb. The lemma
`HalveCoefficient` is where the carry matters: halving `x + modulus` after it
has left the word.

`PrecompileProofs` proves, for every prime with a spare bit in the word, every
curve of the form of alt_bn128 over it and every calldata: `EcAddReturnsSum`,
`AddSpec => []ReturnsGroupSum`, and `TablesAreExact`, which is
`FieldOperations`. EcAdd answers in one step, so its result needs no
strengthening; what has to be proved is that the arithmetic of each branch is
the group's. `outOf` takes the tabulated operations to sum, difference and
product modulo `P` and is one to one; hence the check on Montgomery words
decides the curve's equation, and comparing `y` with the negated word decides
whether a point is the opposite. Two points of the curve with the same `x` are
equal or opposite (a product that is zero modulo a prime has a factor that is),
so the branch for different points never divides by zero and the one for equal
points has `y # 0`; the two slopes are then the group's, and `lineThrough` is
`OnLine`. The tables follow from `REDC_bn_Correct` and from the existence and
uniqueness of inverses modulo a prime (`SumValue` and the lemmas beside it in
`MontgomeryProofs`).

`CurveProofs` is the mathematics that the two loops below need. `Same(e, f)`
says that numbers are equal modulo `P`, `Means(w, e)` that the word `w` is the
Montgomery form of `e`, and `Stands(t, p)` that three words are projective
coordinates of the point `p`: `x = a * z`, `y = b * z` with `z # 0`, or `z = 0`
for infinity. `Tangent` and `Chord` give the group's sum as an equation that
needs no division; `ProjectiveTangent` and `ProjectiveChord` are the formulas that
have to be met in projective coordinates. `MulSuccessor`, `MulDouble`, `MulTwice`
and `MulRemainder` are the laws of multiples, by induction over the scalar; in a
group of odd order a doubled point is infinity only if the point is
(`NoTwoTorsion`).

EcMul (`PrecompileProofs`), for every curve, calldata and scalar: `MulInvariant`,
`EcMulTracksProduct`, `EcMulReturnsProduct`, which are
`AccumulatorTracksProduct` and `ReturnsGroupProduct`. The inductive invariant
`MulInv` says that in the loop `q` and `r` stand for points with
`r + scalar * q = k * (x, y)`. `AccumulatorTracksProduct` says the same of the
points themselves, but it is not inductive: a pass computes with words, so that
the words stand for points has to be part of it, and with it that `q` is never
infinity, since `projectiveDouble` is applied to it without a test and adding it
must not meet `z = 0`. The step of a pass is in three parts: `DoubleStands` and
`LoopAdds` (the projective formulas of the code, each through a chain of
intermediate words, mean the coordinates of the group's sum), and `PassKeeps` (a
bit of the scalar, read from the least significant).

ModExp (`PrecompileProofs`), for every number of bits in a byte and of bytes in a
limb and every calldata: `ModExpOperandsSurvive` (`OperandsSurvive`),
`ModExpRemainderIsPartial` (`RemainderIsPartial`) and `ModExpReturnsPower`
(`ReturnsPowerWhenExact`). Three invariants carry them.

- `OperandsInvariant`. bigUIntShl writes one limb past its destination. In one
  of the three divisions that is the top limb of the exponent; in the other two
  the first limb of scratch buffer 2, which is not needed any more. The
  exponent survives because `nLimbs` is twice what the longest operand needs:
  its top limb is zero, stays zero in every shift to the right, and what
  bigUIntShl writes there is what it finds there, shifted (`ShiftedLeft`). So
  the invariant has that limb, where the buffers are that `flip` exchanged, and
  which four buffers the running division works on (`Division`), which never
  overlap. `SomeDivisionBegins` is what the three callers of bigUIntRem have in
  common.
- `RemainderInvariant`, relative to the first, says that the modulus is not
  zero and that the numbers in the buffers of the running division are
  `Partial`. A division begins so because its dividend has at most `bd` bits
  more than the modulus (`DividendIsCovered`), and a pass keeps it, whichever
  way the borrow goes (`PassIsPartial`); that the subtraction gives the
  difference of the numbers is what `exact` remembers.
- `PowerInvariant`, relative to both, is square and multiply: while `exact`, the
  result times the base to what is left of the exponent is the power, modulo the
  modulus, and both are below the modulus. It is not inductive over the loop
  alone, since a multiplication returns only after all the passes of a division:
  so it says the same of the history variable `dividend` in the place of the
  number whose remainder is being taken (`TakeBit`, `ReducedAway`), and the last
  pass puts `dividend % modulus` there (`DivisionLeavesRemainder`) without
  touching the other number (`RemPassKeepsOther`). That the two are below the
  modulus is part of it because `bigUIntMul` is given their lower halves: the
  modulus fits in half of the limbs (`ModulusFits`), so nothing is cut off
  (`ProductOfHalves`). At the end nothing is left of the exponent, because a
  number is below 2 to its counted bits (`NumberFitsBits`), and the answer has
  the bytes of the result, because that is below a modulus of as many bytes
  (`LastBytes`). `TestsLowestBit` ties the bit the loop reads to the exponent.
  The special cases are `SpecialCasesAnswer`; `OneLimbLoop` and `LoopOfPower` do
  the loop of `oneLimbImplementation` in the same way.

Below them are what the functions do to numbers in limbs: `Parsed` and `Padded`
(calldata to limbs, with the same value), `ShiftedRight` (half the value),
`BitsOfNumber`, `NumberIsBounded`, `Subtracted`, and `bigUIntMul`, whose rows stay
inside its buffer, carries included (`MultipliedByRows`), and give the product
of the numbers (`ProductOfNumbers`).

`EcdsaProofs` proves, for both texts, every pair of prime orders below the word,
every curve with its group order and all calldata: `VerifierTablesAreExact`, which
is `FieldOperations` and `ScalarOperations` (the hash, any word, included), and
every safety property of the runs `p256verify` and `secp256k1verify`: `MalformedAreBurned`
(`BurnsExactlyMalformed`), `LoopTracksCombination` (`AccumulatorTracksCombination`),
`ValidAreAccepted` (`AcceptsExactlyValid`), `OnlyInfinityDiverges`
(`DivergesOnlyAtInfinity`) and, for P256VERIFY, `WellFormedAreAnswered`
(`AnswersWellFormed`). Two invariants carry them.

- `CallInv`: past the checks the request is well-formed and the scalars are the
  quotients `hash/s` and `r/s` modulo `N`; at the end the result is what the
  checks called for. The check of the curve decides its equation because `decode`
  is one to one; `r/s` is not zero because `r` is not and `N` is prime, so there
  is a top bit to start from, and P256VERIFY tests for infinity before it inverts.
  For secp256k1VERIFY `AnswersWellFormed` does not hold: finding 1.
- `VerifierInv`: in the loop `h` stands for `G + key` and the accumulator for the
  combination of the scalars without their last `index` bits, `shr(index, t0)`
  and `shr(index, t1)`. One pass appends a bit to both (`OneMoreBit`,
  `CombinationShift`), and the four choices of what is added are
  `SelectedStands`. The additions branch on equal and opposite points by
  comparing words: `SameTests` shows that they compare points, so `AddStands`
  holds of every pair, `h` at infinity (`key = -G`) included. At the end `z = 0`
  exactly at infinity, where the verdict of the reference is no and where
  secp256k1VERIFY does not return.

The provers do not know `^`, so `Ecdsa` and `BigUInt` state a power of two as a
recursive function, `PowerOfTwo`, and the bits of a scalar by `shr`; `PowersExist`
and `TopBits` are what the proofs use of them. `ToThe`, the power ModExp is
compared with, is one as well (`PowersOfBase`, `PowerByBit`).

`TestNodeProofs` proves every property of the run `node`, of `TestNode` and of
`NodeApi`: for every set of transactions and what they write and log, every
network, way to start, limit of archive and snapshots, every argument and any
number of requests. One of them, `ReplayReachesNetwork`, has two hypotheses on
the network.

- `NodeInvariant` is the inductive invariant `NodeInv`. From it follow
  `ChainStaysLinked`, `StorageIsTracked`, `SnapshotsStayPasts` and the action
  property `PanicsAreDue` (`PanicsOnlyBehind`). It is stronger than they are
  where they forget: each block's hash holds its number, so no block takes
  another's place; the storage has the node's numbers before the first batch
  too; the last block of a chain is empty or the forked one, so the hash of a
  transaction's block is free; and the later of two snapshots, like the node,
  extends the events and keeps the hashes of the earlier. All of it is said of
  a node `n`, not of the variable: a revert brings a snapshot back, so the same
  must hold of every snapshot. What mining many empty blocks does is proved by
  induction over the blocks already mined.
- `FiltersAlwaysDeliver` is `FiltersDeliverOnce`. `FiltersInv` says of each
  filter, in the node and in the snapshots, that what it handed out and what it
  still holds are, together and in order, the updates of the events it is due.
- `ReceiptsMatch` and `ArchiveStaysExact` share the inductive invariant
  `HistoryInv`. A transaction is in exactly one block, the one its receipt
  names, or in none if it has no receipt; a nonce that was never set is the
  number of the account's receipts on top of the fork's; the archive holds
  blocks of the chain before the head in their order, and from its first entry
  on none that has a transaction is missing, each with the slots the storage
  had after it. A transaction is archived only at the next block, so the
  invariant tells the head from the blocks before it.
- `BlockLookupsAlwaysAgree`, `TransactionLookupsAlwaysAgree` and
  `FilterLogsAlwaysAgree` are about what is answered. A request reads receipts,
  blocks and numbers from different maps, so it needs what relates them, and
  `HistoryInv` has two more parts for it: the first block is the fork's, every
  later one is empty or has one transaction, which the node ran, under a hash
  that is none of the network's (`Contents`); every log that a filter was told
  of is in a receipt, in a block up to the latest (`Logged`). A hash that is
  not the node's is then the network's or nobody's, a block before the fork is
  the network's, and the two sides meet at the fork's own block. A filter that
  does not start at the latest block matches a log now exactly when it did at
  the time it was told of it, which `FiltersInv` says of its updates. Of the
  transactions that are not found by their hash, the second theorem says that
  the network answers for that request, and agrees with itself.
- `ReplayAlwaysReachesNetwork` is `ReplayReachesNetwork`. `ReplayInv` says how far
  `apply_txs` is: the receipts are those of the first transactions of the block
  after the fork, each slot reads as the network had it after them, and what is
  left to replay goes on from there, unless a transaction was refused. The nonces
  that `HistoryInv` counts are then those of the next transaction, so it does not
  halt. It does not hold of every network `NodeAssumption` admits, so the theorem
  names what it takes. `NetworkIsExecuted`: the network's blocks hold what was
  executed on it, signed transactions, each once, with the nonces of their
  accounts. `NothingIsCleared`: none of a block's transactions writes zero to a
  slot that was not zero before the block; a forked storage takes a zero for a
  value it does not have and would read the network's earlier one (`fork.rs:100`).
  `MCTestNode` assumes both of its network (`ReplayAssumption`), so the run
  evaluates them.

`GasProofs` proves two things. For every word size, gas limit, overhead that does
not fall, price and request: `SearchInvariant`, `EstimateTight`,
`PubdataPriced`, `RefusalsAreDue`. The invariant `SearchInv` is that of a binary
search, weakened by what overflow does to it: the attempt at the upper bound
succeeded, or it is the largest limit, or its sum left the word; likewise below
the lower bound. The
answer is tight all the same because the one sum the code checks, of limit,
bytecodes and overhead, bounds all the others. For the price the proof shows
that both roundings up are undone by the rounding down of the lowered L1 price
for a limit less one.

For every run of the bootloader, price of a write, directory and order of
displays: `GasAlwaysAddsUp`, `PaymentsAlwaysCover` and
`DirectoryNeverAskedAgain`, from `DisplayInv`. What is displayed of the gas was
written by one run that passed the check of its operator's overhead; what such a
run spends is then arithmetic (`Spent`, `RunAddsUp`). Among the logs, a slot that
never shrank was paid for as much as it costs, one that did at least as much, and
the slots with payments are those with a cost exactly if payments are displayed
at all, which no setting changes while the lock is held. A signature that was
answered for is in the cache, and only one that is not can stop the node.

`ForkProofs` proves two things. For every set of keys, values and bytecodes, every
network and genesis: `CachesAreRight`, `NetworkIsAskedOnce` and
`StorageImplementsOverlay`, which is the whole refinement
`Spec => Overlay!Spec`. The invariant `CachesInv`: the storage's cache holds
only values of the forked block (so it is right whatever is written, thrown away
or restored, because a value that is not zero is looked for in the local storage
first), a view's caches hold what the storage reads as (which nothing changes
while the view lives, for the lock is held), and what was asked for is cached.
Reads and writes are then one lemma for each way to find a value, and a commit
compares the two storages key by key.

For every set of networks, of transactions and of pages, every configuration and
every history of reads, failed requests, kills and restarts: `SourceInvariant`,
`SourceIsReader` (the refinement `Source!Spec => Reader`), `RestartsKeepCache` and
`CacheNeverGoesBack`. The three properties speak of one step, and none is
inductive. `SourceInv` says what a step relies on: an entry, in memory or in a
file that was written to its end, is something its network has answered of that
key, and of the network that is read unless answers were taken over; a cached
number leads to a block of that number, in one of the two forms; in a run in which
every file could be created, each entry has its file, torn or equal to it; what is
being written is not earlier than what is cached under its key. That an entry stays
right is `GivenGrows`: a network only grows, and what it has answered of a key it
has answered for ever (`EntryGrows`). `FetchedIsLater` is the reason why a block
that is fetched again, by another key than it was cached under, may overwrite an
entry: both are blocks of the one number, and the later is sealed if the earlier
was.

Assumptions. `WordAssumption`, `VariantAssumption`, `ModulusAssumption` (the
modulus is an odd prime of the word), `SpareBitsAssumption` (the text without
carries is used only with a modulus below half the word, true of alt_bn128);
`SearchAssumption` (the largest limit is below half the word, the scale does not
lower, limit and overhead together do not fall), `PriceAssumption`;
`DisplayAssumption` (gas and pubdata are unsigned, the operator charges at least
for a transaction's slot in the block, no signature is called like another reason
to stop);
`NetworkAssumption` (no two networks share a transaction, only networks grow);
`StorageAssumption` (values are numbers, `None` is none of the records and maps
that are held); `CurveAssumption` (a prime above 3, a curve without singular
point), `AltBn128Assumption` (`y^2 = x^3 + 3`, a spare bit, the two constants
are what their names say), `CoordinatesAssumption` (calldata are words);
`ModExpAssumption` (a byte has bits and a limb has bytes, calldata are bytes);
`NodeAssumption`, which is what types and requests guarantee: times, intervals
and nonces are unsigned, limits and the first timestamp are positive, a
transaction's sender is one of the accounts, the blocks of a network after
genesis have batches from 1 on, its hashes are none that the node computes, and
`main` forks at a block that exists or replays a transaction that is in one. The
runs evaluate all of them. `EcdsaAssumption` (orders below the word, constants
that are what their names say, a generator on the curve) is used by `EcdsaProofs`
only, `FieldAssumptions` by `ArithmeticProofs`. `OrderAssumption` (the group order
is prime and the number of points) and `GroupAssumption` are used for EcMul and
the verifiers. `GroupAssumption` is of another kind: it is the classical theorem
that chord and tangent make the points of a curve an abelian group, and that the
group's order annihilates each point. It follows from `CurveAssumption` and
`OrderAssumption`, but associativity is a polynomial identity far beyond the
provers, so it is named and assumed. It speaks of `WeierstrassGroup` only, never
of the code, and TLC evaluates it for every triple of points of the instances.

How data is handled where induction on it is out of reach. `SetInduction` is
induction over the numbers stated with a set, so a recursive function on
numbers can be reasoned about: it is a `CHOOSE`, of which one shows first that
such a function exists. `mine_empty_blocks`, `updatesAt`, the states of a block
(`executed`), the multiples of a point, powers, and the value of a number in limbs
are treated so.

Only model-checked:

- `Terminates`, of the inverse and of the estimate: liveness is out of the prover's
  reach. `PassesDecrease` and `NoZeroRemainder` are the safety half of the inverse's.

## 6. Not modelled

- `EcAddG2`, `EcMulG2`: the control of EcAdd and EcMul over the quadratic
  extension field, on the arithmetic that is modelled.
- `EcPairing`: the Miller loop and the final exponentiation over a twelve-fold
  extension have no instance small enough for TLC that is still a pairing, and
  its prologue would be compared with nothing but an abstract bilinear map.
- The VM, the bootloader and the system contracts, vendored from zksync-era:
  what they do to the node's state, and what the node reads of them, is part of
  the models; gas amounts and events are not.
- `console_log.rs`, `observability.rs` and the wording of what is displayed;
  constants that requests answer; declarations in `namespaces/`.
- The node used as a library with several threads, where the three lock sections
  of `run_l2_tx` could be interleaved: the server of this repository has one.

## 7. What could follow

1. `EcAddG2` and `EcMulG2`: an extension-field module (a pair of elements) over
   F_7 or F_11 with `i^2 = -1`, then the two precompiles as `EcAdd` and `EcMul`.
