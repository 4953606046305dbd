----------------------------- MODULE ForkStorage -----------------------------
(***************************************************************************)
(* The storage of a test node: the local storage over that of a forked     *)
(* network, of which every value and every bytecode is asked for once, and *)
(* the view in which the VM executes a batch.  The lock of the storage is  *)
(* held while the network is asked, and a request that fails panics with   *)
(* it: from then on nothing is answered.                                   *)
(***************************************************************************)
EXTENDS Integers

CONSTANTS Keys,
          Values,           \* [Keys -> what is written]
          Hashes,           \* of bytecodes
          RemoteValue,      \* [Keys -> Nat], at the forked block
          GenesisState,     \* the values with_system_contracts_and_chain_id sets
          GenesisDeps,      \* the bytecodes it stores
          HashOf,           \* [the values that are hashes of bytecodes -> Hashes]
          EtherKey,         \* the key of the account's balance
          None

(* The types of the maps and records that are held. *)
MapsTo(S) == UNION {[K -> S] : K \in SUBSET Keys}

Stores == [state : MapsTo(Nat), factory_deps : SUBSET Hashes, value_read_cache : MapsTo(Nat),
           factory_dep_cache : UNION {[H -> BOOLEAN] : H \in SUBSET Hashes}]

Views == [modified_storage_keys : MapsTo(Nat), read_storage_keys : MapsTo(Nat),
          initial_writes_cache : MapsTo(BOOLEAN)]

(* What the constants are assumed to be. *)
StorageAssumption ==
  /\ \A k \in Keys : Values[k] \subseteq Nat
  /\ RemoteValue \in [Keys -> Nat]
  /\ DOMAIN GenesisState \subseteq Keys /\ GenesisState \in [DOMAIN GenesisState -> Nat]
  /\ GenesisDeps \subseteq Hashes
  /\ \A v \in DOMAIN HashOf : HashOf[v] \in Hashes
  /\ EtherKey \in Keys /\ Keys \cap Hashes = {}
  /\ None \notin Stores /\ None \notin Views /\ \A K \in SUBSET Keys : None \notin [K -> Nat]
  /\ None \notin [value : [Keys -> Nat], written : SUBSET Keys, codes : SUBSET Hashes]

VARIABLES
  fork,         \* whether a network is forked
  published,    \* the bytecodes the network has
  inner,        \* ForkStorageInner
  view,         \* the StorageView of the batch that is executed, or None
  snapshot,     \* a Snapshot's part of the storage, or None
  poisoned,     \* a request to the network failed
  answer,       \* history: the last answer,
  asked         \* and how often the network was asked since the last revert

vars == <<fork, published, inner, view, snapshot, poisoned, answer, asked>>

with(f, key, value) == [k \in DOMAIN f \cup {key} |-> IF k = key THEN value ELSE f[k]]

(* ForkStorage::new. *)
Init ==
  /\ fork \in BOOLEAN
  /\ published \in SUBSET Hashes
  /\ inner = [state |-> GenesisState, factory_deps |-> GenesisDeps,
              value_read_cache |-> <<>>, factory_dep_cache |-> <<>>]
  /\ view = None /\ snapshot = None /\ poisoned = FALSE
  /\ answer = None
  /\ asked = [x \in Keys \cup Hashes |-> 0]

-----------------------------------------------------------------------------
(***************************************************************************)
(* Reads.  Each gives the value, and the storage with what it has cached.  *)
(***************************************************************************)
local(key) == IF key \in DOMAIN inner.state THEN inner.state[key] ELSE 0

asksFor(key) == fork /\ local(key) = 0 /\ key \notin DOMAIN inner.value_read_cache

\* Mutant: the cache is looked at before the local storage.
read_value_internal_cacheFirst(key) ==
  IF ~fork THEN [value |-> local(key), inner |-> inner]
  ELSE IF key \in DOMAIN inner.value_read_cache
    THEN [value |-> inner.value_read_cache[key], inner |-> inner]
  ELSE IF local(key) # 0 THEN [value |-> local(key), inner |-> inner]
  ELSE [value |-> RemoteValue[key],
        inner |-> [inner EXCEPT !.value_read_cache = with(@, key, RemoteValue[key])]]

read_value_internal(key) ==
  IF ~fork \/ local(key) # 0 THEN [value |-> local(key), inner |-> inner]
  ELSE IF key \in DOMAIN inner.value_read_cache
    THEN [value |-> inner.value_read_cache[key], inner |-> inner]
  ELSE [value |-> RemoteValue[key],
        inner |-> [inner EXCEPT !.value_read_cache = with(@, key, RemoteValue[key])]]

asksForDep(hash) ==
  fork /\ hash \notin inner.factory_deps /\ hash \notin DOMAIN inner.factory_dep_cache

\* Mutant: that a bytecode is missing is not kept.
load_factory_dep_internal_onlyFound(hash) ==
  IF ~fork \/ hash \in inner.factory_deps
    THEN [found |-> hash \in inner.factory_deps, inner |-> inner]
  ELSE IF hash \in DOMAIN inner.factory_dep_cache
    THEN [found |-> inner.factory_dep_cache[hash], inner |-> inner]
  ELSE [found |-> hash \in published,
        inner |-> IF hash \in published THEN [inner EXCEPT !.factory_dep_cache = with(@, hash, TRUE)]
                  ELSE inner]

(* A bytecode the network does not have is remembered as missing. *)
load_factory_dep_internal(hash) ==
  IF ~fork \/ hash \in inner.factory_deps
    THEN [found |-> hash \in inner.factory_deps, inner |-> inner]
  ELSE IF hash \in DOMAIN inner.factory_dep_cache
    THEN [found |-> inner.factory_dep_cache[hash], inner |-> inner]
  ELSE [found |-> hash \in published,
        inner |-> [inner EXCEPT !.factory_dep_cache = with(@, hash, hash \in published)]]

is_write_initial_internal(key) ==
  [initial |-> read_value_internal(key).value = 0 /\ key \notin DOMAIN inner.state,
   inner |-> read_value_internal(key).inner]

counted(x, asks) == asked' = [asked EXCEPT ![x] = IF asks THEN @ + 1 ELSE @]

-----------------------------------------------------------------------------
(***************************************************************************)
(* The requests that read the storage itself.                              *)
(***************************************************************************)
ReadValue(key) ==
  /\ ~poisoned /\ view = None
  /\ inner' = read_value_internal(key).inner
  /\ answer' = [op |-> "read", key |-> key, value |-> read_value_internal(key).value]
  /\ counted(key, asksFor(key))
  /\ UNCHANGED <<fork, published, view, snapshot, poisoned>>

(* A view passes the loading of bytecodes on. *)
LoadFactoryDep(hash) ==
  /\ ~poisoned
  /\ inner' = load_factory_dep_internal(hash).inner
  /\ answer' = [op |-> "load", hash |-> hash, found |-> load_factory_dep_internal(hash).found]
  /\ counted(hash, asksForDep(hash))
  /\ UNCHANGED <<fork, published, view, snapshot, poisoned>>

(* zks_getBytecodeByHash.  A bytecode that is missing, or remembered as    *)
(* missing, is asked of the network directly; an error is taken for no.    *)
GetBytecodeByHash(hash) ==
  /\ ~poisoned /\ view = None
  /\ inner' = load_factory_dep_internal(hash).inner
  /\ \E onNetwork \in {FALSE, fork /\ hash \in published} :
       answer' = [op |-> "load", hash |-> hash,
                  found |-> load_factory_dep_internal(hash).found \/ onNetwork]
  /\ counted(hash, asksForDep(hash))
  /\ UNCHANGED <<fork, published, view, snapshot, poisoned>>

(* eth_getCode: the bytecode whose hash is read.  Of other values no       *)
(* bytecode exists.                                                        *)
GetCode(key) ==
  /\ ~poisoned /\ view = None
  /\ LET read == read_value_internal(key)
     IN  IF read.value \in DOMAIN HashOf
           THEN LET loaded == load_factory_dep_internal(HashOf[read.value])
                IN  /\ inner' = [loaded.inner EXCEPT !.value_read_cache = read.inner.value_read_cache]
                    /\ answer' = [op |-> "code", key |-> key, found |-> loaded.found]
                    /\ asked' = [asked EXCEPT
                                   ![key] = IF asksFor(key) THEN @ + 1 ELSE @,
                                   ![HashOf[read.value]] = IF asksForDep(HashOf[read.value]) THEN @ + 1 ELSE @]
           ELSE /\ inner' = read.inner
                /\ answer' = [op |-> "code", key |-> key, found |-> FALSE]
                /\ counted(key, asksFor(key))
  /\ UNCHANGED <<fork, published, view, snapshot, poisoned>>

(* The keys of the account's balance in each token: ether alone, or what a *)
(* forked network lists.                                                   *)
get_confirmed_tokens == IF fork THEN SUBSET Keys ELSE {{EtherKey}}

(* One balance after the other is read; those of zero are left out.        *)
GetAllAccountBalances(tokens) ==
  /\ ~poisoned /\ view = None
  /\ tokens \in get_confirmed_tokens
  /\ LET read(key) == read_value_internal(key).value
         asks == {key \in tokens : asksFor(key)}
     IN  /\ inner' = [inner EXCEPT !.value_read_cache =
                         [k \in DOMAIN @ \cup asks |-> IF k \in asks THEN read(k) ELSE @[k]]]
         /\ answer' = [op |-> "balances",
                       of |-> [k \in {k \in tokens : read(k) # 0} |-> read(k)]]
         /\ asked' = [x \in DOMAIN asked |-> asked[x] + (IF x \in asks THEN 1 ELSE 0)]
  /\ UNCHANGED <<fork, published, view, snapshot, poisoned>>

StoreFactoryDep(hash) ==
  /\ ~poisoned /\ view = None
  /\ inner' = [inner EXCEPT !.factory_deps = @ \cup {hash}]
  /\ UNCHANGED <<fork, published, view, snapshot, poisoned, answer, asked>>

-----------------------------------------------------------------------------
(***************************************************************************)
(* StorageView.                                                            *)
(***************************************************************************)
NewView ==
  /\ ~poisoned /\ view = None
  /\ view' = [modified_storage_keys |-> <<>>, read_storage_keys |-> <<>>,
              initial_writes_cache |-> <<>>]
  /\ UNCHANGED <<fork, published, inner, snapshot, poisoned, answer, asked>>

held(key) == key \in DOMAIN view.modified_storage_keys \cup DOMAIN view.read_storage_keys

get_value_no_log(key) ==
  IF key \in DOMAIN view.modified_storage_keys
    THEN [value |-> view.modified_storage_keys[key], view |-> view, inner |-> inner]
  ELSE IF key \in DOMAIN view.read_storage_keys
    THEN [value |-> view.read_storage_keys[key], view |-> view, inner |-> inner]
  ELSE LET read == read_value_internal(key)
       IN  [value |-> read.value,
            view |-> [view EXCEPT !.read_storage_keys = with(@, key, read.value)],
            inner |-> read.inner]

ViewRead(key) ==
  /\ ~poisoned /\ view # None
  /\ LET got == get_value_no_log(key)
     IN  /\ view' = got.view /\ inner' = got.inner
         /\ answer' = [op |-> "read", key |-> key, value |-> got.value]
  /\ counted(key, ~held(key) /\ asksFor(key))
  /\ UNCHANGED <<fork, published, snapshot, poisoned>>

(* The value before is read first, and returned. *)
ViewWrite(key, value) ==
  /\ ~poisoned /\ view # None
  /\ LET got == get_value_no_log(key)
     IN  /\ view' = [got.view EXCEPT !.modified_storage_keys = with(@, key, value)]
         /\ inner' = got.inner
         /\ answer' = [op |-> "write", key |-> key, original |-> got.value]
  /\ counted(key, ~held(key) /\ asksFor(key))
  /\ UNCHANGED <<fork, published, snapshot, poisoned>>

ViewIsWriteInitial(key) ==
  /\ ~poisoned /\ view # None
  /\ IF key \in DOMAIN view.initial_writes_cache
       THEN /\ answer' = [op |-> "initial", key |-> key,
                          initial |-> view.initial_writes_cache[key]]
            /\ UNCHANGED <<view, inner, asked>>
       ELSE LET is == is_write_initial_internal(key)
            IN  /\ view' = [view EXCEPT !.initial_writes_cache = with(@, key, is.initial)]
                /\ inner' = is.inner
                /\ answer' = [op |-> "initial", key |-> key, initial |-> is.initial]
                /\ counted(key, asksFor(key))
  /\ UNCHANGED <<fork, published, snapshot, poisoned>>

(* The modified keys are written to the storage: the end of run_l2_tx, of  *)
(* mine_empty_blocks and of the requests that set an account's state.      *)
Commit ==
  /\ ~poisoned /\ view # None
  /\ inner' = [inner EXCEPT !.state =
       [k \in DOMAIN @ \cup DOMAIN view.modified_storage_keys |->
          IF k \in DOMAIN view.modified_storage_keys THEN view.modified_storage_keys[k] ELSE @[k]]]
  /\ view' = None
  /\ UNCHANGED <<fork, published, snapshot, poisoned, answer, asked>>

(* Calls, estimates and transactions the VM halts leave nothing. *)
Discard ==
  /\ ~poisoned /\ view # None
  /\ view' = None
  /\ UNCHANGED <<fork, published, inner, snapshot, poisoned, answer, asked>>

-----------------------------------------------------------------------------
(***************************************************************************)
(* Snapshots take the caches along; the network, and its failing.          *)
(***************************************************************************)
Snapshot ==
  /\ ~poisoned /\ view = None
  /\ snapshot' = inner
  /\ UNCHANGED <<fork, published, inner, view, poisoned, answer, asked>>

RestoreSnapshot ==
  /\ ~poisoned /\ view = None /\ snapshot # None
  /\ inner' = snapshot /\ snapshot' = None
  /\ asked' = [x \in DOMAIN asked |-> 0]
  /\ UNCHANGED <<fork, published, view, poisoned, answer>>

RequestFails ==
  /\ ~poisoned
  /\ \/ \E key \in Keys : asksFor(key) /\ (view # None => ~held(key))
     \/ \E hash \in Hashes : asksForDep(hash)
  /\ poisoned' = TRUE /\ view' = None
  /\ UNCHANGED <<fork, published, inner, snapshot, answer, asked>>

Publish(hash) ==
  /\ published' = published \cup {hash}
  /\ UNCHANGED <<fork, inner, view, snapshot, poisoned, answer, asked>>

Next ==
  \/ \E key \in Keys :
       \/ ReadValue(key) \/ GetCode(key) \/ ViewRead(key) \/ ViewIsWriteInitial(key)
       \/ \E value \in Values[key] : ViewWrite(key, value)
  \/ \E hash \in Hashes :
       LoadFactoryDep(hash) \/ GetBytecodeByHash(hash) \/ StoreFactoryDep(hash) \/ Publish(hash)
  \/ \E tokens \in SUBSET Keys : GetAllAccountBalances(tokens)
  \/ NewView \/ Commit \/ Discard \/ Snapshot \/ RestoreSnapshot \/ RequestFails

Spec == Init /\ [][Next]_vars

-----------------------------------------------------------------------------
(***************************************************************************)
(* Properties.                                                             *)
(***************************************************************************)
overlay(state) ==
  [k \in Keys |-> LET here == IF k \in DOMAIN state THEN state[k] ELSE 0
                  IN  IF fork /\ here = 0 THEN RemoteValue[k] ELSE here]

(* What OverlayStorage knows of the node and of the view. *)
base == IF fork THEN RemoteValue ELSE [k \in Keys |-> 0]
pending == IF view = None THEN None ELSE view.modified_storage_keys
saved == IF snapshot = None THEN None
         ELSE [value |-> overlay(snapshot.state), written |-> DOMAIN snapshot.state,
               codes |-> snapshot.factory_deps]

Overlay == INSTANCE OverlayStorage WITH
  value <- overlay(inner.state), written <- DOMAIN inner.state, codes <- inner.factory_deps

(* Whatever was cached, by the view or by the storage, before or after a   *)
(* write, a batch thrown away or a revert, an answer is that of one store  *)
(* of values; a batch's writes appear together; a request that fails loses *)
(* the batch and no more.                                                  *)
ImplementsOverlay == Overlay!Spec

(* Between reverts the storage asks the network once for a key and for a   *)
(* bytecode, also when the value is zero or the bytecode is missing.       *)
AsksOnce == \A x \in DOMAIN asked : asked[x] <= 1
=============================================================================
