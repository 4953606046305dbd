----------------------------- MODULE ForkSource -----------------------------
(***************************************************************************)
(* HttpForkSource and its Cache: what a forked test node reads from the    *)
(* network is kept in memory and, with a disk cache, in one file for each  *)
(* key, and is loaded again when a node starts on the same directory.  The *)
(* server serves one request at a time, but it may be killed at any point, *)
(* a file may fail to be written, and a request to the network may fail.   *)
(***************************************************************************)
EXTENDS RemoteNetwork, Functions

CONSTANTS Configs,          \* CacheConfig: records [kind, reset]
          MaxInserts, MaxRuns,  \* bounds: answers that were cached, runs
          Torn              \* what a file holds that was not written to its end

VARIABLES
  config,     \* the cache's configuration
  cache,      \* [block_hashes, and one function for each type of entry]
  disk,       \* the files of the directory, by type and key
  writing,    \* the entry whose file was created and is not yet written
  lost,       \* history: a file could not be created in this run
  inserts, runs

vars == <<remote, network, shared, answer, config, cache, disk, writing, lost, inserts, runs>>

(* The types of entries that are written to disk, in the order in which    *)
(* they are read back.                                                     *)
DiskTypes == <<"blocks_full", "blocks_min", "block_raw_transactions",
               "transactions", "key_value">>
Types == {DiskTypes[i] : i \in DOMAIN DiskTypes} \cup {"confirmed_tokens"}

Empty == [type \in Types |-> <<>>]

with(f, key, value) == [k \in DOMAIN f \cup {key} |-> IF k = key THEN value ELSE f[k]]

-----------------------------------------------------------------------------
(***************************************************************************)
(* Cache.                                                                  *)
(***************************************************************************)

enabled == config.kind # "none"

lookup(type, key) ==
  IF enabled /\ key \in DOMAIN cache.entries[type] THEN {cache.entries[type][key]} ELSE {}

blockType(full_transactions) == IF full_transactions THEN "blocks_full" ELSE "blocks_min"

get_block(hash, full_transactions) == lookup(blockType(full_transactions), hash)

get_block_hash(number) ==
  IF enabled /\ number \in DOMAIN cache.block_hashes THEN {cache.block_hashes[number]} ELSE {}

get_block_raw_transactions(number) == lookup("block_raw_transactions", number)
get_transaction(hash) == lookup("transactions", hash)
get_bridge_addresses == lookup("key_value", "bridge_addresses")
get_confirmed_tokens(from, limit) == lookup("confirmed_tokens", <<from, limit>>)

isBlockType(type) == type \in {"blocks_full", "blocks_min"}

\* Mutant: an entry takes the place of all others of its type.
inserted_alone(type, key, value) ==
  [block_hashes |-> IF isBlockType(type) THEN with(cache.block_hashes, value.number, value.hash)
                    ELSE cache.block_hashes,
   entries |-> [cache.entries EXCEPT ![type] = with(<<>>, key, value)]]

(* insert_block, insert_block_raw_transactions, insert_transaction,        *)
(* set_bridge_addresses, set_confirmed_tokens.                             *)
inserted(type, key, value) ==
  [block_hashes |-> IF isBlockType(type) THEN with(cache.block_hashes, value.number, value.hash)
                    ELSE cache.block_hashes,
   entries |-> [cache.entries EXCEPT ![type] = with(@, key, value)]]

-----------------------------------------------------------------------------
(***************************************************************************)
(* The reads that may be answered from the cache: what it holds for them,  *)
(* and where an answer of the network goes.                                *)
(***************************************************************************)
get_transaction_by_hash(hash) ==
  [op |-> "transaction", key |-> <<hash>>, full |-> FALSE,
   cached |-> get_transaction(hash), type |-> "transactions"]

get_raw_block_transactions(number) ==
  [op |-> "raw", key |-> <<number>>, full |-> FALSE,
   cached |-> get_block_raw_transactions(number), type |-> "block_raw_transactions"]

get_block_by_hash(hash, full_transactions) ==
  [op |-> "blockByHash", key |-> hash, full |-> full_transactions,
   cached |-> get_block(hash, full_transactions), type |-> blockType(full_transactions)]

\* Mutant: any block of the number is taken.
get_block_by_number_minForFull(number, full_transactions) ==
  [op |-> "blockByNumber", key |-> <<number>>, full |-> full_transactions,
   cached |-> UNION {get_block(hash, FALSE) : hash \in get_block_hash(number)},
   type |-> blockType(full_transactions)]

get_block_by_number(number, full_transactions) ==
  [op |-> "blockByNumber", key |-> <<number>>, full |-> full_transactions,
   cached |-> UNION {get_block(hash, full_transactions) : hash \in get_block_hash(number)},
   type |-> blockType(full_transactions)]

(* A named block is always asked for, and cached under its hash. *)
get_latest_block(full_transactions) ==
  [op |-> "latestBlock", key |-> <<>>, full |-> full_transactions,
   cached |-> {}, type |-> blockType(full_transactions)]

get_bridge_contracts ==
  [op |-> "bridges", key |-> <<>>, full |-> FALSE,
   cached |-> get_bridge_addresses, type |-> "key_value"]

get_tokens(from, limit) ==
  [op |-> "tokens", key |-> <<from, limit>>, full |-> FALSE,
   cached |-> get_confirmed_tokens(from, limit), type |-> "confirmed_tokens"]

(* These are always asked for: the count of a block's transactions, one of *)
(* them and the details are read off the block or the transaction.         *)
passedOn(op, key) == [op |-> op, key |-> key, full |-> FALSE, cached |-> {}, type |-> None]

get_block_transaction_count_by_hash(hash) == passedOn("blockByHash", hash)
get_transaction_by_block_hash_and_index(hash) == passedOn("blockByHash", hash)
get_block_transaction_count_by_number(number) == passedOn("blockByNumber", <<number>>)
get_transaction_by_block_number_and_index(number) == passedOn("blockByNumber", <<number>>)
get_block_details(number) == passedOn("blockByNumber", <<number>>)
get_transaction_details(hash) == passedOn("transaction", <<hash>>)

Reads ==
  LET hashes == {blockHash(w, n) : w \in Networks, n \in 1..MaxBlock}
  IN  {get_transaction_by_hash(t) : t \in Transactions}
      \cup {get_raw_block_transactions(n) : n \in 1..MaxBlock}
      \cup {get_block_by_hash(h, full) : h \in hashes, full \in BOOLEAN}
      \cup {get_block_by_number(n, full) : n \in 1..MaxBlock, full \in BOOLEAN}
      \cup {get_latest_block(full) : full \in BOOLEAN}
      \cup {get_bridge_contracts}
      \cup (UNION {{get_block_transaction_count_by_hash(h),
                    get_transaction_by_block_hash_and_index(h)} : h \in hashes})
      \cup (UNION {{get_block_transaction_count_by_number(n), get_block_details(n),
                    get_transaction_by_block_number_and_index(n)} : n \in 1..MaxBlock})
      \cup {get_transaction_details(t) : t \in Transactions}
      \cup {get_tokens(p[1], p[2]) : p \in Pages}

fetched(read) == truth(network, read.op, read.key, read.full)

(* Absent values and empty lists of raw transactions are not kept. *)
kept(read) ==
  /\ enabled /\ read.type # None /\ fetched(read) # None
  /\ read.op = "raw" => fetched(read).transactions # {}

keyFor(read) ==
  CASE isBlockType(read.type) -> fetched(read).hash
    [] read.type = "key_value" -> "bridge_addresses"
    [] read.type = "confirmed_tokens" -> read.key
    [] OTHER -> read.key[1]

-----------------------------------------------------------------------------
(***************************************************************************)
(* A read.                                                                 *)
(***************************************************************************)
idle == writing = None

answered(read, value) ==
  answer' = [op |-> read.op, key |-> read.key, full |-> read.full, value |-> value]

Hit(read) ==
  /\ idle
  /\ \E value \in read.cached : answered(read, value)
  /\ UNCHANGED <<remote, network, shared, config, cache, disk, writing, lost, inserts, runs>>

(* The error is passed on and nothing is cached. *)
RequestFails ==
  /\ idle /\ {read \in Reads : read.cached = {}} # {}
  /\ UNCHANGED vars

PassOn(read) ==
  /\ idle /\ read.cached = {} /\ ~kept(read)
  /\ answered(read, fetched(read))
  /\ UNCHANGED <<remote, network, shared, config, cache, disk, writing, lost, inserts, runs>>

Keep(read) ==
  /\ idle /\ read.cached = {} /\ kept(read)
  /\ inserts < MaxInserts /\ inserts' = inserts + 1
  /\ UNCHANGED <<remote, network, shared, config, runs>>

\* Mutant: the transactions of a block are only kept in memory.
onDisk_notRaw(type) ==
  config.kind = "disk" /\ type \notin {"confirmed_tokens", "block_raw_transactions"}

onDisk(type) == config.kind = "disk" /\ type # "confirmed_tokens"

KeepInMemory(read) ==
  /\ Keep(read) /\ ~onDisk(read.type)
  /\ answered(read, fetched(read))
  /\ cache' = inserted(read.type, keyFor(read), fetched(read))
  /\ UNCHANGED <<disk, writing, lost>>

(* The error is logged and the entry is only in memory. *)
CreateFails(read) ==
  /\ Keep(read) /\ onDisk(read.type)
  /\ answered(read, fetched(read))
  /\ cache' = inserted(read.type, keyFor(read), fetched(read))
  /\ lost' = TRUE
  /\ UNCHANGED <<disk, writing>>

(* write_to_disk: the file is created, or emptied, and then written. *)
CreateFile(read) ==
  /\ Keep(read) /\ onDisk(read.type)
  /\ disk' = [disk EXCEPT ![read.type] = with(@, keyFor(read), Torn)]
  /\ writing' = [read |-> read, key |-> keyFor(read), value |-> fetched(read)]
  /\ UNCHANGED <<answer, cache, lost>>

(* Errors in writing are logged; the entry is in memory all the same. *)
FinishRead(writes) ==
  /\ ~idle
  /\ disk' = IF writes THEN [disk EXCEPT ![writing.read.type][writing.key] = writing.value] ELSE disk
  /\ cache' = inserted(writing.read.type, writing.key, writing.value)
  /\ answered(writing.read, writing.value)
  /\ writing' = None
  /\ UNCHANGED <<remote, network, shared, config, lost, inserts, runs>>

-----------------------------------------------------------------------------
(***************************************************************************)
(* The end of a run, or its being killed, and the start of the next.       *)
(***************************************************************************)
whole(files, type) == {key \in DOMAIN files[type] : files[type][key] # Torn}

(* read_all_from_disk ends at the first file it cannot parse: the types    *)
(* before are loaded, of the file's own type `part`, those listed before   *)
(* it, and of the types after nothing.                                     *)
tornTypes(files) ==
  {i \in DOMAIN DiskTypes : whole(files, DiskTypes[i]) # DOMAIN files[DiskTypes[i]]}

complete(files, i) == \A j \in tornTypes(files) : i < j

parts(files) ==
  UNION {SUBSET whole(files, DiskTypes[i]) :
           i \in {j \in tornTypes(files) : \A k \in tornTypes(files) : j <= k}}

loadedKeys(files, part) ==
  [type \in Types |->
     IF \E i \in DOMAIN DiskTypes : type = DiskTypes[i] /\ complete(files, i) THEN whole(files, type)
     ELSE IF \E i \in tornTypes(files) :
               type = DiskTypes[i] /\ (\A k \in tornTypes(files) : i <= k) THEN part
     ELSE {}]

(* Blocks with full transactions are read first: a minimal block of the    *)
(* same number and another hash takes the number over.                     *)
hashesOf(files, loaded, type, number) ==
  {key \in loaded[type] : files[type][key].number = number}

isIndex(files, loaded, block_hashes) ==
  LET full(n) == hashesOf(files, loaded, "blocks_full", n)
      min(n)  == hashesOf(files, loaded, "blocks_min", n)
  IN  \A n \in 1..MaxBlock :
        IF n \in DOMAIN block_hashes
          THEN block_hashes[n] \in IF min(n) # {} THEN min(n) ELSE full(n)
          ELSE min(n) \cup full(n) = {}

Indexes == UNION {[N -> {blockHash(w, n) : w \in Networks, n \in 1..MaxBlock}] : N \in SUBSET (1..MaxBlock)}

loadedEntries(files, loaded) ==
  [type \in Types |-> [key \in loaded[type] |-> files[type][key]]]

(* With reset the directory is removed and made again. *)
filesAtStart(c) == IF c.reset THEN Empty ELSE disk

(* Cache::new. *)
Start(c) ==
  IF c.kind # "disk"
    THEN disk' = disk /\ cache' = [block_hashes |-> <<>>, entries |-> Empty]
    ELSE /\ disk' = filesAtStart(c)
         /\ \E part \in {{}} \cup parts(disk') :
              LET loaded == loadedKeys(disk', part)
              IN  \E block_hashes \in {b \in Indexes : isIndex(disk', loaded, b)} :
                     cache' = [block_hashes |-> block_hashes,
                               entries |-> loadedEntries(disk', loaded)]

networkOf(type, value) == IF type = "key_value" THEN value ELSE value.network

foreign(w) ==
  \E type \in Types : \E key \in DOMAIN cache'.entries[type] :
     type # "confirmed_tokens" /\ networkOf(type, cache'.entries[type][key]) # w

Restart(w, c) ==
  /\ runs < MaxRuns
  /\ Start(c)
  /\ network' = w /\ config' = c /\ shared' = foreign(w)
  /\ answer' = <<>> /\ writing' = None /\ lost' = FALSE /\ runs' = runs + 1
  /\ UNCHANGED <<remote, inserts>>

Init ==
  /\ RemoteInit
  /\ config \in Configs
  /\ cache = [block_hashes |-> <<>>, entries |-> Empty]
  /\ disk = Empty /\ writing = None /\ lost = FALSE /\ inserts = 0 /\ runs = 1

Next ==
  \/ \E read \in Reads :
       \/ Hit(read) \/ PassOn(read)
       \/ KeepInMemory(read) \/ CreateFile(read) \/ CreateFails(read)
  \/ RequestFails
  \/ \E writes \in BOOLEAN : FinishRead(writes)
  \/ \E w \in Networks, c \in Configs : Restart(w, c)
  \/ Grow /\ UNCHANGED <<network, shared, answer, config, cache, disk, writing, lost, inserts, runs>>

Spec == Init /\ [][Next]_vars

-----------------------------------------------------------------------------
(***************************************************************************)
(* Properties.                                                             *)
(***************************************************************************)

(* The fork source implements a reader of the network: whatever is cached, *)
(* lost, torn or loaded again, an answer is one the forked network gives   *)
(* or gave, absence is never remembered, and only a directory that another *)
(* network's node has used brings in that network's answers.               *)
ReadStep ==
  \/ remote' # remote /\ Grow /\ UNCHANGED <<network, shared, answer>>
  \/ /\ answer' # <<>>
     /\ Tell(answer'.op, answer'.key, answer'.full)
  \/ Reopen

Reader == RemoteInit /\ [][ReadStep]_<<remote, network, shared, answer>>

entriesOf(c, type) == {<<key, c.entries[type][key]>> : key \in DOMAIN c.entries[type]}

(* A node that stops and starts on its disk cache finds every entry and    *)
(* every block number it had, unless a file was not written; only the pages of     *)
(* tokens are fetched again.                                               *)
RestartKeepsCache ==
  [][runs' # runs /\ config.kind = "disk" /\ config'.kind = "disk" /\ ~config'.reset
       /\ ~lost /\ tornTypes(disk) = {} =>
     /\ \A type \in Types \ {"confirmed_tokens"} : entriesOf(cache, type) \subseteq entriesOf(cache', type)
     /\ DOMAIN cache.block_hashes \subseteq DOMAIN cache'.block_hashes]_vars

(* An answer in memory is replaced only by a later one: within a run a     *)
(* transaction that was mined does not wait again, a block that was sealed *)
(* is not open again, however its number or its hash is asked for.         *)
later(type, old, new) ==
  CASE type = "transactions" -> old.number # 0 => new = old
    [] isBlockType(type) -> old.sealed => new = old
    [] OTHER -> new = old

CacheNeverRegresses ==
  [][runs' = runs =>
     /\ \A type \in Types : \A key \in DOMAIN cache.entries[type] :
           /\ key \in DOMAIN cache'.entries[type]
           /\ later(type, cache.entries[type][key], cache'.entries[type][key])
     /\ ~shared => \A n \in DOMAIN cache.block_hashes :
           n \in DOMAIN cache'.block_hashes /\ cache'.block_hashes[n] = cache.block_hashes[n]]_vars
=============================================================================
