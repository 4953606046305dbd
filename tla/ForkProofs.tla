------------------------------ MODULE ForkProofs ------------------------------
(***************************************************************************)
(* What a forked node reads.                                               *)
(*                                                                         *)
(* The storage of a forked node, with its caches and views, implements     *)
(* OverlayStorage: proved for every set of keys, values and bytecodes,     *)
(* every network and every genesis.                                        *)
(*                                                                         *)
(* What makes it so is that no cache is ever ahead of what it caches: the  *)
(* storage's holds only values of the forked block, and a view's holds     *)
(* what the storage reads as, which nothing changes while the view lives.  *)
(*                                                                         *)
(* The second part is about the source of a fork and its cache in memory   *)
(* and on disk, which are read while the network grows.                    *)
(***************************************************************************)
EXTENDS MCFork, Sequences, TLAPS

(* What a key of the node's storage reads as. *)
StoreOK(store) ==
  /\ store \in Stores
  /\ \A k \in DOMAIN store.value_read_cache : store.value_read_cache[k] = RemoteValue[k]

(* The view's caches are what the storage reads as. *)
ViewOK ==
  view # None =>
    /\ view \in Views
    /\ \A k \in DOMAIN view.read_storage_keys :
          view.read_storage_keys[k] = overlay(inner.state)[k]
    /\ \A k \in DOMAIN view.initial_writes_cache :
          view.initial_writes_cache[k] = (overlay(inner.state)[k] = 0 /\ k \notin DOMAIN inner.state)

(* What was asked for is cached. *)
AskedOK ==
  /\ asked \in [Keys \cup Hashes -> {0, 1}]
  /\ \A k \in Keys : asked[k] = 1 => k \in DOMAIN inner.value_read_cache
  /\ \A h \in Hashes : asked[h] = 1 => h \in DOMAIN inner.factory_dep_cache

CachesInv ==
  /\ fork \in BOOLEAN /\ published \subseteq Hashes
  /\ StoreOK(inner)
  /\ snapshot # None => StoreOK(snapshot)
  /\ ViewOK /\ AskedOK

-----------------------------------------------------------------------------
(***************************************************************************)
(* Maps.                                                                   *)
(***************************************************************************)

\* A map is a function from some of the keys.
LEMMA MapShape ==
  ASSUME NEW S, NEW f \in MapsTo(S)
  PROVE  DOMAIN f \subseteq Keys /\ f \in [DOMAIN f -> S]
BY DEF MapsTo

\* A function from some of the keys is a map.
LEMMA ShapeMap ==
  ASSUME NEW S, NEW K \in SUBSET Keys, NEW f \in [K -> S]
  PROVE  f \in MapsTo(S)
BY DEF MapsTo

\* The empty map.
LEMMA EmptyMap ==
  ASSUME NEW S
  PROVE  <<>> \in MapsTo(S) /\ DOMAIN <<>> = {}
<1>1. <<>> \in [{} -> S] /\ DOMAIN <<>> = {}  OBVIOUS
<1> QED  BY <1>1, ShapeMap

\* None is not a map.
LEMMA NoneIsNoMap == ASSUME StorageAssumption PROVE None \notin MapsTo(Nat)
BY DEF StorageAssumption, MapsTo

\* Inserting into a map.
LEMMA WithMap ==
  ASSUME NEW S, NEW f \in MapsTo(S), NEW key \in Keys, NEW v \in S
  PROVE  with(f, key, v) \in MapsTo(S)
<1>1. DOMAIN f \subseteq Keys /\ f \in [DOMAIN f -> S]  BY MapShape
<1>2. with(f, key, v) \in [DOMAIN f \cup {key} -> S]  BY <1>1 DEF with
<1> QED  BY <1>1, <1>2, ShapeMap

\* What is in a map after inserting.
LEMMA WithValues ==
  ASSUME NEW f, NEW key, NEW v
  PROVE  /\ DOMAIN with(f, key, v) = DOMAIN f \cup {key}
         /\ \A k \in DOMAIN f \cup {key} : with(f, key, v)[k] = IF k = key THEN v ELSE f[k]
BY DEF with

-----------------------------------------------------------------------------
(***************************************************************************)
(* Reads.                                                                  *)
(***************************************************************************)

\* The local value of a key is a number.
LEMMA LocalIsNat ==
  ASSUME StoreOK(inner), NEW key \in Keys
  PROVE  local(key) \in Nat
<1>1. inner.state \in MapsTo(Nat)  BY DEF StoreOK, Stores
<1>2. \A k \in DOMAIN inner.state : inner.state[k] \in Nat  BY <1>1, MapShape
<1> QED  BY <1>2 DEF local

\* read_value_internal gives what the storage reads as, and only adds to the
\* cache, the key it asked for among them.
LEMMA ReadsOverlay ==
  ASSUME StorageAssumption, fork \in BOOLEAN, StoreOK(inner), NEW key \in Keys
  PROVE  LET read == read_value_internal(key)
         IN  /\ read.value = overlay(inner.state)[key]
             /\ read.value \in Nat
             /\ StoreOK(read.inner)
             /\ read.inner.state = inner.state
             /\ read.inner.factory_deps = inner.factory_deps
             /\ read.inner.factory_dep_cache = inner.factory_dep_cache
             /\ DOMAIN read.inner.value_read_cache
                  = DOMAIN inner.value_read_cache \cup (IF asksFor(key) THEN {key} ELSE {})
<1> DEFINE asksNetwork == [inner EXCEPT !.value_read_cache = with(@, key, RemoteValue[key])]
<1>1. RemoteValue[key] \in Nat  BY DEF StorageAssumption
<1>2. inner \in Stores /\ inner.value_read_cache \in MapsTo(Nat)
  BY DEF StoreOK, Stores
<1>3. /\ with(inner.value_read_cache, key, RemoteValue[key]) \in MapsTo(Nat)
      /\ DOMAIN with(inner.value_read_cache, key, RemoteValue[key])
            = DOMAIN inner.value_read_cache \cup {key}
      /\ \A k \in DOMAIN inner.value_read_cache \cup {key} :
           with(inner.value_read_cache, key, RemoteValue[key])[k]
             = IF k = key THEN RemoteValue[key] ELSE inner.value_read_cache[k]
  <2>1. with(inner.value_read_cache, key, RemoteValue[key]) \in MapsTo(Nat)
    BY <1>1, <1>2, WithMap
  <2>2. DOMAIN with(inner.value_read_cache, key, RemoteValue[key]) = DOMAIN inner.value_read_cache \cup {key}
    BY WithValues
  <2>3. \A k \in DOMAIN inner.value_read_cache \cup {key} :
           with(inner.value_read_cache, key, RemoteValue[key])[k]
             = IF k = key THEN RemoteValue[key] ELSE inner.value_read_cache[k]
    BY DEF with
  <2> QED  BY <2>1, <2>2, <2>3
<1>4. /\ asksNetwork \in Stores
      /\ asksNetwork.state = inner.state
      /\ asksNetwork.factory_deps = inner.factory_deps
      /\ asksNetwork.factory_dep_cache = inner.factory_dep_cache
      /\ asksNetwork.value_read_cache = with(inner.value_read_cache, key, RemoteValue[key])
  BY <1>2, <1>3 DEF Stores
<1>5. StoreOK(asksNetwork)
  BY <1>3, <1>4 DEF StoreOK
<1>6. overlay(inner.state)[key] = IF fork /\ local(key) = 0 THEN RemoteValue[key] ELSE local(key)
  BY DEF overlay, local
<1> HIDE DEF asksNetwork
<1>7. CASE ~fork \/ local(key) # 0
  BY <1>6, <1>7, LocalIsNat DEF read_value_internal, asksFor
<1>8. CASE fork /\ local(key) = 0 /\ key \in DOMAIN inner.value_read_cache
  BY <1>1, <1>6, <1>8 DEF read_value_internal, asksFor, StoreOK
<1>9. CASE fork /\ local(key) = 0 /\ key \notin DOMAIN inner.value_read_cache
  <2>1. read_value_internal(key) = [value |-> RemoteValue[key], inner |-> asksNetwork]
    BY <1>9 DEF read_value_internal, asksNetwork
  <2>2. asksFor(key)  BY <1>9 DEF asksFor
  <2> QED  BY <1>1, <1>3, <1>4, <1>5, <1>6, <1>9, <2>1, <2>2
<1> QED  BY <1>7, <1>8, <1>9

\* load_factory_dep_internal finds what was stored, and only adds to the
\* cache, the hash it asked for among them.
LEMMA LoadsCodes ==
  ASSUME StoreOK(inner), fork \in BOOLEAN, NEW hash \in Hashes
  PROVE  LET loaded == load_factory_dep_internal(hash)
         IN  /\ loaded.found \in BOOLEAN
             /\ hash \in inner.factory_deps => loaded.found
             /\ StoreOK(loaded.inner)
             /\ loaded.inner.state = inner.state
             /\ loaded.inner.factory_deps = inner.factory_deps
             /\ loaded.inner.value_read_cache = inner.value_read_cache
             /\ DOMAIN loaded.inner.factory_dep_cache
                  = DOMAIN inner.factory_dep_cache \cup (IF asksForDep(hash) THEN {hash} ELSE {})
<1> DEFINE found == hash \in published
           cached == with(inner.factory_dep_cache, hash, found)
           asksNetwork == [inner EXCEPT !.factory_dep_cache = with(@, hash, found)]
<1>1. /\ inner \in Stores
      /\ inner.factory_dep_cache \in UNION {[H -> BOOLEAN] : H \in SUBSET Hashes}
  BY DEF StoreOK, Stores
<1>2. PICK H \in SUBSET Hashes : inner.factory_dep_cache \in [H -> BOOLEAN]
  BY <1>1
<1>3. DOMAIN inner.factory_dep_cache = H /\ \A h \in H : inner.factory_dep_cache[h] \in BOOLEAN
  BY <1>2
<1>4. found \in BOOLEAN  OBVIOUS
<1> HIDE DEF found
<1>5. cached \in [H \cup {hash} -> BOOLEAN]  BY <1>3, <1>4, Zenon DEF with
<1>6. H \cup {hash} \in SUBSET Hashes  OBVIOUS
<1>7. cached \in UNION {[K -> BOOLEAN] : K \in SUBSET Hashes}
  BY <1>5, <1>6, Zenon
<1>8. DOMAIN cached = H \cup {hash}  BY <1>5
<1> HIDE DEF cached
<1>9. asksNetwork = [inner EXCEPT !.factory_dep_cache = cached]  BY DEF cached
<1>10. /\ asksNetwork \in Stores
       /\ asksNetwork.state = inner.state
       /\ asksNetwork.factory_deps = inner.factory_deps
       /\ asksNetwork.value_read_cache = inner.value_read_cache
       /\ asksNetwork.factory_dep_cache = cached
  BY <1>1, <1>7, <1>9, SMT DEF Stores
<1>11. StoreOK(asksNetwork)  BY <1>10 DEF StoreOK
<1> HIDE DEF asksNetwork
<1>12. CASE ~fork \/ hash \in inner.factory_deps
  <2>1. load_factory_dep_internal(hash) = [found |-> hash \in inner.factory_deps, inner |-> inner]
    BY <1>12 DEF load_factory_dep_internal
  <2>2. ~asksForDep(hash)  BY <1>12 DEF asksForDep
  <2>3. /\ load_factory_dep_internal(hash).found = (hash \in inner.factory_deps)
        /\ load_factory_dep_internal(hash).inner = inner
    BY <2>1
  <2>4. (hash \in inner.factory_deps) \in BOOLEAN  OBVIOUS
  <2>6. load_factory_dep_internal(hash).found \in BOOLEAN  BY <2>3, <2>4, Zenon
  <2>5. hash \in inner.factory_deps => load_factory_dep_internal(hash).found  BY <2>3, Zenon
  <2> QED  BY <2>2, <2>3, <2>5, <2>6
<1>13. CASE fork /\ hash \notin inner.factory_deps /\ hash \in DOMAIN inner.factory_dep_cache
  <2>1. load_factory_dep_internal(hash) = [found |-> inner.factory_dep_cache[hash], inner |-> inner]
    BY <1>13 DEF load_factory_dep_internal
  <2>2. ~asksForDep(hash)  BY <1>13 DEF asksForDep
  <2> QED  BY <1>3, <1>13, <2>1, <2>2
<1>14. CASE fork /\ hash \notin inner.factory_deps /\ hash \notin DOMAIN inner.factory_dep_cache
  <2>1. load_factory_dep_internal(hash) = [found |-> found, inner |-> asksNetwork]
    BY <1>14 DEF load_factory_dep_internal, asksNetwork, found
  <2>2. asksForDep(hash)  BY <1>14 DEF asksForDep
  <2> QED  BY <1>3, <1>4, <1>8, <1>10, <1>11, <1>14, <2>1, <2>2
<1> QED  BY <1>12, <1>13, <1>14

\* get_value_no_log gives the batch's own write, or what the storage reads as.
LEMMA ViewReadsOverlay ==
  ASSUME StorageAssumption, fork \in BOOLEAN, StoreOK(inner), ViewOK, view # None, NEW key \in Keys
  PROVE  LET got == get_value_no_log(key)
         IN  /\ got.value = IF key \in DOMAIN view.modified_storage_keys
                             THEN view.modified_storage_keys[key] ELSE overlay(inner.state)[key]
             /\ got.view \in Views
             /\ got.view.modified_storage_keys = view.modified_storage_keys
             /\ got.view.initial_writes_cache = view.initial_writes_cache
             /\ \A k \in DOMAIN got.view.read_storage_keys :
                   got.view.read_storage_keys[k] = overlay(inner.state)[k]
             /\ StoreOK(got.inner)
             /\ got.inner.state = inner.state
             /\ got.inner.factory_deps = inner.factory_deps
             /\ got.inner.factory_dep_cache = inner.factory_dep_cache
             /\ DOMAIN got.inner.value_read_cache
                  = DOMAIN inner.value_read_cache \cup (IF ~held(key) /\ asksFor(key) THEN {key} ELSE {})
<1> DEFINE read == read_value_internal(key)
           added == with(view.read_storage_keys, key, read.value)
           keeps == [view EXCEPT !.read_storage_keys = added]
<1>1. /\ view \in Views
      /\ view.modified_storage_keys \in MapsTo(Nat) /\ view.read_storage_keys \in MapsTo(Nat)
      /\ view.initial_writes_cache \in MapsTo(BOOLEAN)
      /\ \A k \in DOMAIN view.read_storage_keys :
            view.read_storage_keys[k] = overlay(inner.state)[k]
  BY DEF ViewOK, Views
<1>2. CASE key \in DOMAIN view.modified_storage_keys
  <2>1. /\ get_value_no_log(key)
             = [value |-> view.modified_storage_keys[key], view |-> view, inner |-> inner]
        /\ held(key)
    BY <1>2 DEF get_value_no_log, held
  <2> QED  BY <1>1, <1>2, <2>1
<1>3. CASE key \notin DOMAIN view.modified_storage_keys /\ key \in DOMAIN view.read_storage_keys
  <2>1. /\ get_value_no_log(key)
             = [value |-> view.read_storage_keys[key], view |-> view, inner |-> inner]
        /\ held(key)
    BY <1>3 DEF get_value_no_log, held
  <2> QED  BY <1>1, <1>3, <2>1
<1>4. CASE key \notin DOMAIN view.modified_storage_keys /\ key \notin DOMAIN view.read_storage_keys
  <2>1. /\ get_value_no_log(key) = [value |-> read.value, view |-> keeps, inner |-> read.inner]
        /\ ~held(key)
    BY <1>4 DEF get_value_no_log, held
  <2>2. /\ read.value = overlay(inner.state)[key]
        /\ read.value \in Nat
        /\ StoreOK(read.inner)
        /\ read.inner.state = inner.state
        /\ read.inner.factory_deps = inner.factory_deps
        /\ read.inner.factory_dep_cache = inner.factory_dep_cache
        /\ DOMAIN read.inner.value_read_cache
             = DOMAIN inner.value_read_cache \cup (IF asksFor(key) THEN {key} ELSE {})
    BY ReadsOverlay
  <2> HIDE DEF read
  <2>3. added \in MapsTo(Nat)  BY <1>1, <2>2, WithMap
  <2>4. DOMAIN added = DOMAIN view.read_storage_keys \cup {key}  BY DEF with
  <2>5. \A k \in DOMAIN added : added[k] = overlay(inner.state)[k]
    BY <1>1, <2>2 DEF with
  <2> HIDE DEF added
  <2>6. /\ keeps \in Views
        /\ keeps.modified_storage_keys = view.modified_storage_keys
        /\ keeps.initial_writes_cache = view.initial_writes_cache
        /\ keeps.read_storage_keys = added
    BY <1>1, <2>3 DEF Views
  <2> HIDE DEF keeps
  <2> QED  BY <1>4, <2>1, <2>2, <2>5, <2>6
<1> QED  BY <1>2, <1>3, <1>4

-----------------------------------------------------------------------------
(***************************************************************************)
(* The invariant.                                                          *)
(***************************************************************************)

\* The caches are empty at first.
LEMMA InitCaches == ASSUME StorageAssumption, Init PROVE CachesInv
<1>1. <<>> \in MapsTo(Nat) /\ DOMAIN <<>> = {}  BY EmptyMap
<1>2. <<>> \in [{} -> BOOLEAN] /\ {} \in SUBSET Hashes  OBVIOUS
<1>3. <<>> \in UNION {[H -> BOOLEAN] : H \in SUBSET Hashes}  BY <1>2, Zenon
<1>4. /\ inner = [state |-> GenesisState, factory_deps |-> GenesisDeps,
                  value_read_cache |-> <<>>, factory_dep_cache |-> <<>>]
      /\ GenesisState \in MapsTo(Nat) /\ GenesisDeps \subseteq Hashes
  BY ShapeMap DEF Init, StorageAssumption
<1>5. inner \in Stores  BY <1>1, <1>3, <1>4 DEF Stores
<1>6. StoreOK(inner)  BY <1>1, <1>4, <1>5 DEF StoreOK
<1>7. ViewOK  BY DEF Init, ViewOK
<1>8. AskedOK  BY DEF Init, AskedOK
<1> QED  BY <1>6, <1>7, <1>8 DEF Init, CachesInv

\* A request that reads counts what it asks for, which is then cached: the
\* invariant is kept when the storage is otherwise the same.
LEMMA CountedKeeps ==
  ASSUME StorageAssumption, AskedOK,
         NEW x \in Keys \cup Hashes, NEW asks \in BOOLEAN, counted(x, asks),
         asks => IF x \in Keys THEN x \notin DOMAIN inner.value_read_cache
                               ELSE x \notin DOMAIN inner.factory_dep_cache,
         DOMAIN inner.value_read_cache \subseteq DOMAIN inner'.value_read_cache,
         DOMAIN inner.factory_dep_cache \subseteq DOMAIN inner'.factory_dep_cache,
         asks => IF x \in Keys THEN x \in DOMAIN inner'.value_read_cache
                               ELSE x \in DOMAIN inner'.factory_dep_cache
  PROVE  AskedOK'
<1>1. Keys \cap Hashes = {}  BY DEF StorageAssumption
<1>2. CASE ~asks
  <2>1. asked' = asked  BY <1>2 DEF counted, AskedOK
  <2> QED  BY <2>1 DEF AskedOK
<1>3. CASE asks
  <2>1. asked' = [asked EXCEPT ![x] = @ + 1]  BY <1>3 DEF counted
  <2>2. asked[x] = 0  BY <1>1, <1>3 DEF AskedOK
  <2>3. asked' = [asked EXCEPT ![x] = 1]  BY <2>1, <2>2
  <2> QED  BY <1>1, <1>3, <2>3 DEF AskedOK
<1> QED  BY <1>2, <1>3

\* The view's caches stay right as long as what the storage reads as does.
LEMMA SameViewOK ==
  ASSUME ViewOK, view' = view, fork' = fork, inner'.state = inner.state
  PROVE  ViewOK'
<1>1. overlay(inner.state)' = overlay(inner.state)  BY DEF overlay
<1> QED  BY <1>1 DEF ViewOK

\* A read of the storage.
LEMMA ReadKeeps ==
  ASSUME StorageAssumption, CachesInv, NEW key \in Keys,
         inner' = read_value_internal(key).inner, counted(key, asksFor(key)),
         UNCHANGED <<fork, published, view, snapshot>>
  PROVE  CachesInv'
<1> DEFINE read == read_value_internal(key)
<1>1. /\ StoreOK(read.inner)
      /\ read.inner.state = inner.state
      /\ read.inner.factory_dep_cache = inner.factory_dep_cache
      /\ DOMAIN read.inner.value_read_cache
           = DOMAIN inner.value_read_cache \cup (IF asksFor(key) THEN {key} ELSE {})
  BY ReadsOverlay DEF CachesInv
<1> HIDE DEF read
<1>2. inner' = read.inner  BY DEF read
<1>3. StoreOK(inner)'  BY <1>1, <1>2 DEF StoreOK
<1>4. ViewOK'  BY <1>1, <1>2, SameViewOK DEF CachesInv
<1>5. asksFor(key) \in BOOLEAN /\ (asksFor(key) => key \notin DOMAIN inner.value_read_cache)
  BY DEF asksFor, CachesInv
<1>6. AskedOK'  BY <1>1, <1>2, <1>5, CountedKeeps DEF CachesInv
<1>7. (snapshot # None => StoreOK(snapshot))'  BY DEF CachesInv, StoreOK
<1> QED  BY <1>3, <1>4, <1>6, <1>7 DEF CachesInv

\* A bytecode is loaded.
LEMMA LoadKeeps ==
  ASSUME StorageAssumption, CachesInv, NEW hash \in Hashes,
         inner' = load_factory_dep_internal(hash).inner, counted(hash, asksForDep(hash)),
         UNCHANGED <<fork, published, view, snapshot>>
  PROVE  CachesInv'
<1> DEFINE loaded == load_factory_dep_internal(hash)
<1>1. /\ StoreOK(loaded.inner)
      /\ loaded.inner.state = inner.state
      /\ loaded.inner.value_read_cache = inner.value_read_cache
      /\ DOMAIN loaded.inner.factory_dep_cache
           = DOMAIN inner.factory_dep_cache \cup (IF asksForDep(hash) THEN {hash} ELSE {})
  BY LoadsCodes DEF CachesInv
<1> HIDE DEF loaded
<1>2. inner' = loaded.inner  BY DEF loaded
<1>3. StoreOK(inner)'  BY <1>1, <1>2 DEF StoreOK
<1>4. ViewOK'  BY <1>1, <1>2, SameViewOK DEF CachesInv
<1>5. asksForDep(hash) \in BOOLEAN /\ (asksForDep(hash) => hash \notin DOMAIN inner.factory_dep_cache)
  BY DEF asksForDep, CachesInv
<1>6. hash \notin Keys  BY DEF StorageAssumption
<1>7. AskedOK'  BY <1>1, <1>2, <1>5, <1>6, CountedKeeps DEF CachesInv
<1>8. (snapshot # None => StoreOK(snapshot))'  BY DEF CachesInv, StoreOK
<1> QED  BY <1>3, <1>4, <1>7, <1>8 DEF CachesInv

\* A read through the view.
LEMMA ViewReadKeeps ==
  ASSUME StorageAssumption, CachesInv, view # None, NEW key \in Keys,
         inner' = get_value_no_log(key).inner, counted(key, ~held(key) /\ asksFor(key)),
         UNCHANGED <<fork, published, snapshot>>,
         view' \in Views,
         view'.read_storage_keys = get_value_no_log(key).view.read_storage_keys,
         view'.initial_writes_cache = view.initial_writes_cache
  PROVE  CachesInv'
<1> DEFINE got == get_value_no_log(key)
<1>1. /\ \A k \in DOMAIN got.view.read_storage_keys :
            got.view.read_storage_keys[k] = overlay(inner.state)[k]
      /\ StoreOK(got.inner)
      /\ got.inner.state = inner.state
      /\ got.inner.factory_dep_cache = inner.factory_dep_cache
      /\ DOMAIN got.inner.value_read_cache
           = DOMAIN inner.value_read_cache \cup (IF ~held(key) /\ asksFor(key) THEN {key} ELSE {})
  BY ViewReadsOverlay DEF CachesInv
<1> HIDE DEF got
<1>2. inner' = got.inner /\ view'.read_storage_keys = got.view.read_storage_keys  BY DEF got
<1>3. StoreOK(inner)'  BY <1>1, <1>2 DEF StoreOK
<1>4. overlay(inner.state)' = overlay(inner.state)  BY <1>1, <1>2 DEF overlay
<1>5. ViewOK'  BY <1>1, <1>2, <1>4 DEF CachesInv, ViewOK
<1>6. /\ (~held(key) /\ asksFor(key)) \in BOOLEAN
      /\ asksFor(key) => key \notin DOMAIN inner.value_read_cache
  BY DEF asksFor
<1>7. AskedOK'  BY <1>1, <1>2, <1>6, CountedKeeps DEF CachesInv
<1>8. (snapshot # None => StoreOK(snapshot))'  BY DEF CachesInv, StoreOK
<1> QED  BY <1>3, <1>5, <1>7, <1>8 DEF CachesInv

\* eth_getCode reads a value and loads the bytecode it is the hash of.
LEMMA GetCodeKeeps ==
  ASSUME StorageAssumption, CachesInv, NEW key \in Keys, GetCode(key)
  PROVE  CachesInv'
<1> DEFINE read == read_value_internal(key)
           hash == HashOf[read.value]
           loaded == load_factory_dep_internal(hash)
<1>1. CASE read.value \notin DOMAIN HashOf
  BY <1>1, ReadKeeps DEF GetCode
<1>2. CASE read.value \in DOMAIN HashOf
  <2>1. hash \in Hashes  BY <1>2 DEF StorageAssumption
  <2>2. /\ StoreOK(read.inner)
        /\ DOMAIN read.inner.value_read_cache
             = DOMAIN inner.value_read_cache \cup (IF asksFor(key) THEN {key} ELSE {})
    BY ReadsOverlay DEF CachesInv
  <2>3. /\ StoreOK(loaded.inner)
        /\ loaded.inner.state = inner.state
        /\ DOMAIN loaded.inner.factory_dep_cache
             = DOMAIN inner.factory_dep_cache \cup (IF asksForDep(hash) THEN {hash} ELSE {})
    BY <2>1, LoadsCodes DEF CachesInv
  <2>4. /\ inner' = [loaded.inner EXCEPT !.value_read_cache = read.inner.value_read_cache]
        /\ asked' = [asked EXCEPT ![key] = IF asksFor(key) THEN @ + 1 ELSE @,
                                 ![hash] = IF asksForDep(hash) THEN @ + 1 ELSE @]
        /\ UNCHANGED <<fork, published, view, snapshot, poisoned>>
    BY <1>2 DEF GetCode
  <2>5. /\ asksFor(key) => key \notin DOMAIN inner.value_read_cache
        /\ asksForDep(hash) => hash \notin DOMAIN inner.factory_dep_cache
        /\ Keys \cap Hashes = {}
    BY DEF asksFor, asksForDep, StorageAssumption
  <2> HIDE DEF read, hash, loaded
  <2>6. /\ inner'.state = inner.state
        /\ inner'.value_read_cache = read.inner.value_read_cache
        /\ inner'.factory_dep_cache = loaded.inner.factory_dep_cache
        /\ inner' \in Stores
    BY <2>2, <2>3, <2>4 DEF StoreOK, Stores
  <2>7. StoreOK(inner)'  BY <2>2, <2>6 DEF StoreOK
  <2>8. ViewOK'  BY <2>4, <2>6, SameViewOK DEF CachesInv
  <2>9. asked \in [Keys \cup Hashes -> {0, 1}]  BY DEF CachesInv, AskedOK
  <2>10. /\ asksFor(key) => asked[key] = 0
         /\ asksForDep(hash) => asked[hash] = 0
    BY <2>1, <2>5, <2>9 DEF CachesInv, AskedOK
  <2>11. /\ asked' \in [Keys \cup Hashes -> {0, 1}]
         /\ \A x \in Keys \cup Hashes :
              asked'[x] = 1 => asked[x] = 1 \/ (x = key /\ asksFor(key)) \/ (x = hash /\ asksForDep(hash))
    BY <2>1, <2>4, <2>5, <2>9, <2>10
  <2>12. AskedOK'
    BY <2>1, <2>2, <2>3, <2>5, <2>6, <2>11 DEF CachesInv, AskedOK
  <2>13. (snapshot # None => StoreOK(snapshot))'  BY <2>4 DEF CachesInv, StoreOK
  <2> QED  BY <2>4, <2>7, <2>8, <2>12, <2>13 DEF CachesInv
<1> QED  BY <1>1, <1>2

\* A request for balances reads several values.
LEMMA BalancesKeep ==
  ASSUME StorageAssumption, CachesInv, NEW tokens \in SUBSET Keys, GetAllAccountBalances(tokens)
  PROVE  CachesInv'
<1> DEFINE asks == {key \in tokens : asksFor(key)}
           known == [k \in DOMAIN inner.value_read_cache \cup asks |->
                       IF k \in asks THEN read_value_internal(k).value ELSE inner.value_read_cache[k]]
<1>1. /\ inner' = [inner EXCEPT !.value_read_cache = known]
      /\ asked' = [x \in DOMAIN asked |-> asked[x] + (IF x \in asks THEN 1 ELSE 0)]
      /\ UNCHANGED <<fork, published, view, snapshot, poisoned>>
  BY DEF GetAllAccountBalances
<1>2. \A k \in asks : /\ k \in Keys /\ k \notin DOMAIN inner.value_read_cache
                      /\ read_value_internal(k).value = RemoteValue[k]
  BY DEF asksFor, read_value_internal
<1>3. /\ inner \in Stores /\ inner.value_read_cache \in MapsTo(Nat)
      /\ \A k \in DOMAIN inner.value_read_cache : inner.value_read_cache[k] = RemoteValue[k]
      /\ RemoteValue \in [Keys -> Nat] /\ Keys \cap Hashes = {}
  BY DEF CachesInv, StoreOK, Stores, StorageAssumption
<1> HIDE DEF asks
<1>4. DOMAIN inner.value_read_cache \subseteq Keys  BY <1>3, MapShape
<1>5. /\ DOMAIN known = DOMAIN inner.value_read_cache \cup asks
      /\ \A k \in DOMAIN known : known[k] = RemoteValue[k] /\ k \in Keys
  BY <1>2, <1>3, <1>4
<1>6. known \in [DOMAIN inner.value_read_cache \cup asks -> Nat]
  BY <1>2, <1>3, <1>4
<1>7. known \in MapsTo(Nat)
  BY <1>2, <1>4, <1>6, ShapeMap
<1> HIDE DEF known
<1>8. /\ inner' \in Stores /\ inner'.value_read_cache = known
      /\ inner'.state = inner.state /\ inner'.factory_dep_cache = inner.factory_dep_cache
  BY <1>1, <1>3, <1>7 DEF Stores
<1>9. StoreOK(inner)'  BY <1>5, <1>8 DEF StoreOK
<1>10. ViewOK'  BY <1>1, <1>8, SameViewOK DEF CachesInv
<1>11. AskedOK'  BY <1>1, <1>2, <1>3, <1>5, <1>8 DEF CachesInv, AskedOK
<1>12. (snapshot # None => StoreOK(snapshot))'  BY <1>1 DEF CachesInv, StoreOK
<1> QED  BY <1>1, <1>9, <1>10, <1>11, <1>12 DEF CachesInv

\* The view is written to the storage.
LEMMA CommitKeeps == ASSUME CachesInv, Commit PROVE CachesInv'
<1> DEFINE state == [k \in DOMAIN inner.state \cup DOMAIN view.modified_storage_keys |->
                       IF k \in DOMAIN view.modified_storage_keys
                         THEN view.modified_storage_keys[k] ELSE inner.state[k]]
           keys == DOMAIN inner.state \cup DOMAIN view.modified_storage_keys
<1>1. /\ inner' = [inner EXCEPT !.state = state]
      /\ view' = None /\ UNCHANGED <<fork, published, snapshot, asked>>
  BY DEF Commit
<1>2. /\ inner \in Stores /\ inner.state \in MapsTo(Nat)
      /\ view \in Views /\ view.modified_storage_keys \in MapsTo(Nat)
  BY DEF Commit, CachesInv, StoreOK, Stores, ViewOK, Views
<1>3. /\ DOMAIN inner.state \subseteq Keys /\ inner.state \in [DOMAIN inner.state -> Nat]
      /\ DOMAIN view.modified_storage_keys \subseteq Keys
      /\ view.modified_storage_keys \in [DOMAIN view.modified_storage_keys -> Nat]
  BY <1>2, MapShape
<1>4. state \in [keys -> Nat] /\ keys \in SUBSET Keys  BY <1>3
<1>5. state \in MapsTo(Nat)  BY <1>4, ShapeMap
<1> HIDE DEF state, keys
<1>6. /\ inner' \in Stores /\ inner'.value_read_cache = inner.value_read_cache
      /\ inner'.factory_dep_cache = inner.factory_dep_cache
  BY <1>1, <1>2, <1>5 DEF Stores
<1>7. StoreOK(inner)'  BY <1>6 DEF CachesInv, StoreOK
<1>8. ViewOK'  BY <1>1 DEF ViewOK
<1>9. AskedOK'  BY <1>1, <1>6 DEF CachesInv, AskedOK
<1>10. (snapshot # None => StoreOK(snapshot))'  BY <1>1 DEF CachesInv, StoreOK
<1> QED  BY <1>1, <1>7, <1>8, <1>9, <1>10 DEF CachesInv

\* The view remembers whether a key was written before.
LEMMA ViewIsWriteInitialKeeps ==
  ASSUME StorageAssumption, CachesInv, NEW key \in Keys, ViewIsWriteInitial(key)
  PROVE  CachesInv'
<1> DEFINE read == read_value_internal(key)
           initial == is_write_initial_internal(key).initial
           added == with(view.initial_writes_cache, key, initial)
<1>1. CASE key \in DOMAIN view.initial_writes_cache
  <2>1. UNCHANGED <<fork, published, snapshot, view, inner, asked>>
    BY <1>1 DEF ViewIsWriteInitial
  <2> QED  BY <2>1, SameViewOK DEF CachesInv, StoreOK, AskedOK
<1>2. CASE key \notin DOMAIN view.initial_writes_cache
  <2>1. /\ view' = [view EXCEPT !.initial_writes_cache = added]
        /\ inner' = read.inner
        /\ initial = (read.value = 0 /\ key \notin DOMAIN inner.state)
        /\ counted(key, asksFor(key)) /\ view # None
        /\ UNCHANGED <<fork, published, snapshot>>
    BY <1>2 DEF ViewIsWriteInitial, is_write_initial_internal
  <2>2. /\ read.value = overlay(inner.state)[key]
        /\ StoreOK(read.inner)
        /\ read.inner.state = inner.state
        /\ read.inner.factory_dep_cache = inner.factory_dep_cache
        /\ DOMAIN read.inner.value_read_cache
             = DOMAIN inner.value_read_cache \cup (IF asksFor(key) THEN {key} ELSE {})
    BY ReadsOverlay DEF CachesInv
  <2> HIDE DEF read, initial
  <2>3. /\ view \in Views /\ view.initial_writes_cache \in MapsTo(BOOLEAN)
    BY <2>1 DEF CachesInv, ViewOK, Views
  <2>4. (read.value = 0 /\ key \notin DOMAIN inner.state) \in BOOLEAN  OBVIOUS
  <2>5. initial \in BOOLEAN  BY <2>1, <2>4, Zenon
  <2>6. added \in MapsTo(BOOLEAN)  BY <2>3, <2>5, WithMap, Zenon
  <2>7. DOMAIN added = DOMAIN view.initial_writes_cache \cup {key}  BY DEF with
  <2>8. added[key] = initial /\ \A k \in DOMAIN view.initial_writes_cache :
                                 k # key => added[k] = view.initial_writes_cache[k]
    BY Zenon DEF with
  <2> HIDE DEF added
  <2>9. /\ view' \in Views /\ view'.initial_writes_cache = added
        /\ view'.read_storage_keys = view.read_storage_keys
    BY <2>1, <2>3, <2>6 DEF Views
  <2>10. overlay(inner.state)' = overlay(inner.state)  BY <2>1, <2>2 DEF overlay
  <2>11. \A k \in DOMAIN added :
           added[k] = (overlay(inner.state)[k] = 0 /\ k \notin DOMAIN inner.state)
    <3> SUFFICES ASSUME NEW k \in DOMAIN added
                 PROVE  added[k] = (overlay(inner.state)[k] = 0 /\ k \notin DOMAIN inner.state)
      OBVIOUS
    <3>1. CASE k = key  BY <2>1, <2>2, <2>8, <3>1, Zenon
    <3>2. CASE k # key  BY <2>1, <2>7, <2>8, <3>2, Zenon DEF CachesInv, ViewOK
    <3> QED  BY <3>1, <3>2
  <2>12. ViewOK'
    <3>1. \A k \in DOMAIN view'.read_storage_keys :
             view'.read_storage_keys[k] = overlay(inner.state)'[k]
      BY <2>1, <2>9, <2>10 DEF CachesInv, ViewOK
    <3>2. \A k \in DOMAIN view'.initial_writes_cache :
             view'.initial_writes_cache[k] = (overlay(inner.state)'[k] = 0 /\ k \notin DOMAIN inner'.state)
      BY <2>1, <2>2, <2>9, <2>10, <2>11, Zenon
    <3> QED  BY <2>9, <3>1, <3>2, Zenon DEF ViewOK
  <2>13. StoreOK(inner)'  BY <2>1, <2>2 DEF StoreOK
  <2>14. asksFor(key) \in BOOLEAN /\ (asksFor(key) => key \notin DOMAIN inner.value_read_cache)
    BY DEF asksFor, CachesInv
  <2>15. AskedOK'  BY <2>1, <2>2, <2>14, CountedKeeps DEF CachesInv
  <2>16. (snapshot # None => StoreOK(snapshot))'  BY <2>1 DEF CachesInv, StoreOK
  <2> QED  BY <2>1, <2>12, <2>13, <2>15, <2>16 DEF CachesInv
<1> QED  BY <1>1, <1>2

\* A write is a read of the value before, which the view then holds.
LEMMA ViewWriteKeeps ==
  ASSUME StorageAssumption, CachesInv, NEW key \in Keys, NEW value \in Values[key], ViewWrite(key, value)
  PROVE  CachesInv'
<1> DEFINE got == get_value_no_log(key)
           added == with(got.view.modified_storage_keys, key, value)
<1>1. /\ view' = [got.view EXCEPT !.modified_storage_keys = added]
      /\ inner' = got.inner /\ view # None
      /\ counted(key, ~held(key) /\ asksFor(key))
      /\ UNCHANGED <<fork, published, snapshot>>
  BY DEF ViewWrite
<1>2. /\ got.view \in Views /\ got.view.modified_storage_keys \in MapsTo(Nat)
      /\ got.view.initial_writes_cache = view.initial_writes_cache
  BY <1>1, ViewReadsOverlay DEF CachesInv, Views
<1>3. value \in Nat  BY DEF StorageAssumption
<1> HIDE DEF got
<1>4. added \in MapsTo(Nat)  BY <1>2, <1>3, WithMap
<1> HIDE DEF added
<1>5. /\ view' \in Views
      /\ view'.read_storage_keys = got.view.read_storage_keys
      /\ view'.initial_writes_cache = view.initial_writes_cache
  BY <1>1, <1>2, <1>4 DEF Views
<1> QED  BY <1>1, <1>5, ViewReadKeeps DEF got

\* Every step keeps the invariant.
LEMMA NextCaches == ASSUME StorageAssumption, CachesInv, [Next]_vars PROVE CachesInv'
<1>1. ASSUME NEW key \in Keys, ReadValue(key) PROVE CachesInv'
  BY <1>1, ReadKeeps DEF ReadValue
<1>2. ASSUME NEW key \in Keys, GetCode(key) PROVE CachesInv'
  BY <1>2, GetCodeKeeps
<1>3. ASSUME NEW key \in Keys, ViewRead(key) PROVE CachesInv'
  <2>1. /\ view' = get_value_no_log(key).view /\ inner' = get_value_no_log(key).inner
        /\ view # None /\ counted(key, ~held(key) /\ asksFor(key))
        /\ UNCHANGED <<fork, published, snapshot>>
    BY <1>3 DEF ViewRead
  <2>2. view' \in Views /\ view'.initial_writes_cache = view.initial_writes_cache
    BY <2>1, ViewReadsOverlay DEF CachesInv
  <2> QED  BY <2>1, <2>2, ViewReadKeeps
<1>4. ASSUME NEW key \in Keys, ViewIsWriteInitial(key) PROVE CachesInv'
  BY <1>4, ViewIsWriteInitialKeeps
<1>5. ASSUME NEW key \in Keys, NEW value \in Values[key], ViewWrite(key, value) PROVE CachesInv'
  BY <1>5, ViewWriteKeeps
<1>6. ASSUME NEW hash \in Hashes, LoadFactoryDep(hash) PROVE CachesInv'
  BY <1>6, LoadKeeps DEF LoadFactoryDep
<1>7. ASSUME NEW hash \in Hashes, GetBytecodeByHash(hash) PROVE CachesInv'
  BY <1>7, LoadKeeps DEF GetBytecodeByHash
<1>8. ASSUME NEW hash \in Hashes, StoreFactoryDep(hash) PROVE CachesInv'
  <2>1. /\ inner' = [inner EXCEPT !.factory_deps = @ \cup {hash}]
        /\ inner \in Stores
        /\ UNCHANGED <<fork, published, view, snapshot, asked>>
    BY <1>8 DEF StoreFactoryDep, CachesInv, StoreOK
  <2>2. /\ inner' \in Stores /\ inner'.state = inner.state
        /\ inner'.value_read_cache = inner.value_read_cache
        /\ inner'.factory_dep_cache = inner.factory_dep_cache
    BY <2>1 DEF Stores
  <2>3. StoreOK(inner)' /\ AskedOK'  BY <2>1, <2>2 DEF CachesInv, StoreOK, AskedOK
  <2>4. ViewOK'  BY <2>1, <2>2, SameViewOK DEF CachesInv
  <2>5. (snapshot # None => StoreOK(snapshot))'  BY <2>1 DEF CachesInv, StoreOK
  <2> QED  BY <2>1, <2>3, <2>4, <2>5 DEF CachesInv
<1>9. ASSUME NEW tokens \in SUBSET Keys, GetAllAccountBalances(tokens) PROVE CachesInv'
  BY <1>9, BalancesKeep
<1>10. CASE NewView
  <2>1. <<>> \in MapsTo(Nat) /\ <<>> \in MapsTo(BOOLEAN) /\ DOMAIN <<>> = {}  BY EmptyMap
  <2>2. /\ view' = [modified_storage_keys |-> <<>>, read_storage_keys |-> <<>>,
                    initial_writes_cache |-> <<>>]
        /\ UNCHANGED <<fork, published, inner, snapshot, asked>>
    BY <1>10 DEF NewView
  <2>3. view' \in Views  BY <2>1, <2>2 DEF Views
  <2>4. ViewOK'  BY <2>1, <2>2, <2>3 DEF ViewOK
  <2> QED  BY <2>2, <2>4 DEF CachesInv, StoreOK, AskedOK
<1>11. CASE Commit  BY <1>11, CommitKeeps
<1>12. CASE Discard
  BY <1>12 DEF Discard, CachesInv, StoreOK, AskedOK, ViewOK
<1>13. CASE Snapshot
  <2>1. /\ snapshot' = inner
        /\ UNCHANGED <<fork, published, inner, view, asked>>
    BY <1>13 DEF Snapshot
  <2>2. ViewOK'  BY <2>1, SameViewOK DEF CachesInv
  <2> QED  BY <2>1, <2>2 DEF CachesInv, StoreOK, AskedOK
<1>14. CASE RestoreSnapshot
  <2>1. /\ inner' = snapshot /\ snapshot' = None /\ view' = None /\ snapshot # None
        /\ asked' = [x \in DOMAIN asked |-> 0]
        /\ UNCHANGED <<fork, published>>
    BY <1>14 DEF RestoreSnapshot
  <2>2. ViewOK' /\ AskedOK'  BY <2>1 DEF CachesInv, ViewOK, AskedOK
  <2> QED  BY <2>1, <2>2 DEF CachesInv, StoreOK
<1>15. CASE RequestFails
  BY <1>15 DEF RequestFails, CachesInv, StoreOK, AskedOK, ViewOK
<1>16. ASSUME NEW hash \in Hashes, Publish(hash) PROVE CachesInv'
  <2>1. /\ published' = published \cup {hash}
        /\ UNCHANGED <<fork, inner, view, snapshot, asked>>
    BY <1>16 DEF Publish
  <2>2. ViewOK'  BY <2>1, SameViewOK DEF CachesInv
  <2> QED  BY <2>1, <2>2 DEF CachesInv, StoreOK, AskedOK
<1>17. CASE UNCHANGED vars
  <2>1. UNCHANGED <<fork, published, inner, view, snapshot, asked>>  BY <1>17 DEF vars
  <2>2. ViewOK'  BY <2>1, SameViewOK DEF CachesInv
  <2> QED  BY <2>1, <2>2 DEF CachesInv, StoreOK, AskedOK
<1> QED
  BY <1>1, <1>2, <1>3, <1>4, <1>5, <1>6, <1>7, <1>8, <1>9, <1>10, <1>11, <1>12, <1>13,
     <1>14, <1>15, <1>16, <1>17 DEF Next

\* The caches of the storage and of its views hold what they cache, always.
THEOREM CachesAreRight == ASSUME StorageAssumption PROVE Spec => []CachesInv
<1>1. Init => CachesInv  BY InitCaches
<1>2. CachesInv /\ [Next]_vars => CachesInv'  BY NextCaches
<1> QED  BY <1>1, <1>2, PTL DEF Spec

\* Between reverts the network is asked at most once for a key and for a
\* bytecode: read_value_internal and load_factory_dep_internal keep what they
\* are told, also of what is missing.
THEOREM NetworkIsAskedOnce == ASSUME StorageAssumption PROVE Spec => []AsksOnce
<1>1. CachesInv => AsksOnce  BY DEF CachesInv, AskedOK, AsksOnce
<1> QED  BY <1>1, CachesAreRight, PTL

-----------------------------------------------------------------------------
(***************************************************************************)
(* The refinement.                                                         *)
(***************************************************************************)

\* A node starts as the overlay does.
LEMMA InitRefines == ASSUME StorageAssumption, Init PROVE Overlay!Init
<1>1. /\ inner.state = GenesisState /\ inner.factory_deps = GenesisDeps
      /\ fork \in BOOLEAN /\ view = None /\ snapshot = None /\ answer = None
  BY DEF Init
<1>2. base \in {[k \in Keys |-> 0], RemoteValue}  BY <1>1 DEF base
<1>3. overlay(GenesisState)
        = [k \in Keys |-> IF k \in DOMAIN GenesisState /\ GenesisState[k] # 0
                         THEN GenesisState[k] ELSE base[k]]
  <2> SUFFICES ASSUME NEW k \in Keys
               PROVE  overlay(GenesisState)[k]
                        = IF k \in DOMAIN GenesisState /\ GenesisState[k] # 0
                            THEN GenesisState[k] ELSE base[k]
    BY DEF overlay
  <2> QED  BY DEF overlay, base
<1> QED  BY <1>1, <1>2, <1>3 DEF Overlay!Init, pending, saved

\* What the overlay knows of the node.
seenAll == <<base, overlay(inner.state), DOMAIN inner.state, inner.factory_deps, saved>>

\* It is the same while the storage and the snapshot hold the same.
LEMMA SameOverlay ==
  ASSUME fork' = fork, snapshot' = snapshot,
         inner'.state = inner.state, inner'.factory_deps = inner.factory_deps
  PROVE  UNCHANGED seenAll
<1>1. base' = base  BY DEF base
<1>2. overlay(inner.state)' = overlay(inner.state)  BY DEF overlay
<1>3. saved' = saved  BY DEF saved, overlay
<1> QED  BY <1>1, <1>2, <1>3 DEF seenAll

\* Requests that read the storage.
LEMMA ReadRefines ==
  ASSUME StorageAssumption, CachesInv, NEW key \in Keys, ReadValue(key)
  PROVE  Overlay!Read(key)
<1>1. /\ read_value_internal(key).value = overlay(inner.state)[key]
      /\ read_value_internal(key).inner.state = inner.state
      /\ read_value_internal(key).inner.factory_deps = inner.factory_deps
  BY ReadsOverlay DEF CachesInv
<1>2. /\ inner' = read_value_internal(key).inner
      /\ answer' = [op |-> "read", key |-> key, value |-> read_value_internal(key).value]
      /\ UNCHANGED <<fork, snapshot, view>> /\ view = None
  BY DEF ReadValue
<1>3. UNCHANGED seenAll  BY <1>1, <1>2, SameOverlay
<1>4. pending = None /\ pending' = None  BY <1>2 DEF pending
<1> QED  BY <1>1, <1>2, <1>3, <1>4 DEF Overlay!Read, Overlay!seen, seenAll

\* A bytecode is loaded, by the VM or for a client.
LEMMA LoadRefines ==
  ASSUME StorageAssumption, CachesInv, NEW hash \in Hashes,
         LoadFactoryDep(hash) \/ GetBytecodeByHash(hash)
  PROVE  Overlay!Load(hash)
<1> DEFINE loaded == load_factory_dep_internal(hash)
<1>1. /\ loaded.found \in BOOLEAN
      /\ hash \in inner.factory_deps => loaded.found
      /\ loaded.inner.state = inner.state
      /\ loaded.inner.factory_deps = inner.factory_deps
  BY LoadsCodes DEF CachesInv
<1>2. inner' = loaded.inner /\ UNCHANGED <<fork, snapshot, view>>
  BY DEF LoadFactoryDep, GetBytecodeByHash
<1>3. \E onNetwork \in BOOLEAN :
        answer' = [op |-> "load", hash |-> hash, found |-> loaded.found \/ onNetwork]
  <2>1. CASE LoadFactoryDep(hash)
    <3>1. answer' = [op |-> "load", hash |-> hash, found |-> loaded.found]
      BY <2>1 DEF LoadFactoryDep
    <3>2. \A b \in BOOLEAN : (b \/ FALSE) = b  OBVIOUS
    <3>3. (loaded.found \/ FALSE) = loaded.found  BY <1>1, <3>2
    <3>4. answer' = [op |-> "load", hash |-> hash, found |-> loaded.found \/ FALSE]
      BY <3>1, <3>3, Zenon
    <3> QED  BY <3>4, Zenon
  <2>2. CASE GetBytecodeByHash(hash)
    <3>1. PICK onNetwork \in {FALSE, fork /\ hash \in published} :
             answer' = [op |-> "load", hash |-> hash, found |-> loaded.found \/ onNetwork]
      BY <2>2, Zenon DEF GetBytecodeByHash
    <3>2. (fork /\ hash \in published) \in BOOLEAN  OBVIOUS
    <3>3. onNetwork \in BOOLEAN  BY <3>2, Zenon
    <3> QED  BY <3>1, <3>3, Zenon
  <2> QED  BY <2>1, <2>2
<1> HIDE DEF loaded
<1>4. \E found \in BOOLEAN :
        /\ hash \in inner.factory_deps => found
        /\ answer' = [op |-> "load", hash |-> hash, found |-> found]
  <2>1. PICK onNetwork \in BOOLEAN :
           answer' = [op |-> "load", hash |-> hash, found |-> loaded.found \/ onNetwork]
    BY <1>3
  <2>2. (loaded.found \/ onNetwork) \in BOOLEAN  OBVIOUS
  <2>3. hash \in inner.factory_deps => (loaded.found \/ onNetwork)  BY <1>1, Zenon
  <2> QED  BY <2>1, <2>2, <2>3, Zenon
<1>5. UNCHANGED seenAll  BY <1>1, <1>2, SameOverlay
<1>6. UNCHANGED pending  BY <1>2 DEF pending
<1> QED  BY <1>4, <1>5, <1>6, Zenon DEF Overlay!Load, seenAll

\* The code of an account.
LEMMA GetCodeRefines ==
  ASSUME StorageAssumption, CachesInv, NEW key \in Keys, GetCode(key)
  PROVE  Overlay!ReadCode(key)
<1> DEFINE read == read_value_internal(key)
           hash == HashOf[read.value]
           loaded == load_factory_dep_internal(hash)
<1>1. /\ read.value = overlay(inner.state)[key]
      /\ read.inner.state = inner.state /\ read.inner.factory_deps = inner.factory_deps
  BY ReadsOverlay DEF CachesInv
<1>2. UNCHANGED <<fork, snapshot, view>>  BY DEF GetCode
<1>3. UNCHANGED pending  BY <1>2 DEF pending
<1>4. CASE read.value \notin DOMAIN HashOf
  <2>1. inner' = read.inner /\ answer' = [op |-> "code", key |-> key, found |-> FALSE]
    BY <1>4 DEF GetCode
  <2>2. UNCHANGED seenAll  BY <1>1, <1>2, <2>1, SameOverlay
  <2> QED  BY <1>1, <1>3, <1>4, <2>1, <2>2 DEF Overlay!ReadCode, seenAll
<1>5. CASE read.value \in DOMAIN HashOf
  <2>1. /\ inner' = [loaded.inner EXCEPT !.value_read_cache = read.inner.value_read_cache]
        /\ answer' = [op |-> "code", key |-> key, found |-> loaded.found]
    BY <1>5 DEF GetCode
  <2>2. hash \in Hashes  BY <1>5 DEF StorageAssumption
  <2>3. /\ loaded.found \in BOOLEAN
        /\ hash \in inner.factory_deps => loaded.found
        /\ loaded.inner.state = inner.state /\ loaded.inner.factory_deps = inner.factory_deps
        /\ loaded.inner \in Stores
    BY <2>2, LoadsCodes DEF CachesInv, StoreOK
  <2>4. inner'.state = inner.state /\ inner'.factory_deps = inner.factory_deps
    BY <2>1, <2>3 DEF Stores
  <2>5. UNCHANGED seenAll  BY <1>2, <2>4, SameOverlay
  <2>6. HashOf[overlay(inner.state)[key]] = hash  BY <1>1
  <2>7. overlay(inner.state)[key] \in DOMAIN HashOf  BY <1>1, <1>5
  <2> HIDE DEF read, hash, loaded
  <2>8. \E found \in BOOLEAN :
          /\ IF overlay(inner.state)[key] \in DOMAIN HashOf
               THEN HashOf[overlay(inner.state)[key]] \in inner.factory_deps => found
               ELSE ~found
          /\ answer' = [op |-> "code", key |-> key, found |-> found]
    <3>1. IF overlay(inner.state)[key] \in DOMAIN HashOf
            THEN HashOf[overlay(inner.state)[key]] \in inner.factory_deps => loaded.found
            ELSE ~loaded.found
      BY <2>3, <2>6, <2>7, Zenon
    <3> QED  BY <2>1, <2>3, <3>1, Zenon
  <2> QED  BY <1>3, <2>5, <2>8, Zenon DEF Overlay!ReadCode, seenAll
<1> QED  BY <1>4, <1>5

\* Several balances.
LEMMA BalancesRefine ==
  ASSUME StorageAssumption, CachesInv, NEW tokens \in SUBSET Keys, GetAllAccountBalances(tokens)
  PROVE  Overlay!ReadBalances(tokens)
<1> DEFINE known == [k \in DOMAIN inner.value_read_cache \cup {key \in tokens : asksFor(key)} |->
                       IF k \in {key \in tokens : asksFor(key)}
                         THEN read_value_internal(k).value ELSE inner.value_read_cache[k]]
           holding == {k \in tokens : read_value_internal(k).value # 0}
<1>1. /\ inner' = [inner EXCEPT !.value_read_cache = known]
      /\ answer' = [op |-> "balances", of |-> [k \in holding |-> read_value_internal(k).value]]
      /\ UNCHANGED <<fork, view, snapshot>>
  BY DEF GetAllAccountBalances
<1>2. \A k \in tokens : read_value_internal(k).value = overlay(inner.state)[k]
  BY ReadsOverlay DEF CachesInv
<1>3. holding = {k \in tokens : overlay(inner.state)[k] # 0}  BY <1>2
<1>4. [k \in holding |-> read_value_internal(k).value] = [k \in holding |-> overlay(inner.state)[k]]
  BY <1>2
<1>5. inner'.state = inner.state /\ inner'.factory_deps = inner.factory_deps
  BY <1>1 DEF CachesInv, StoreOK, Stores
<1> HIDE DEF known, holding
<1>6. UNCHANGED seenAll /\ UNCHANGED pending  BY <1>1, <1>5, SameOverlay DEF pending
<1> QED  BY <1>1, <1>3, <1>4, <1>6 DEF Overlay!ReadBalances, seenAll

\* A read through the view.
LEMMA ViewReadRefines ==
  ASSUME StorageAssumption, CachesInv, NEW key \in Keys, ViewRead(key)
  PROVE  Overlay!Read(key)
<1> DEFINE got == get_value_no_log(key)
<1>1. /\ got.value = IF key \in DOMAIN view.modified_storage_keys
                      THEN view.modified_storage_keys[key] ELSE overlay(inner.state)[key]
      /\ got.view \in Views /\ got.view.modified_storage_keys = view.modified_storage_keys
      /\ got.inner.state = inner.state /\ got.inner.factory_deps = inner.factory_deps
  BY ViewReadsOverlay DEF CachesInv, ViewRead
<1>2. /\ view # None /\ view' = got.view /\ inner' = got.inner
      /\ answer' = [op |-> "read", key |-> key, value |-> got.value]
      /\ UNCHANGED <<fork, snapshot>>
  BY DEF ViewRead
<1> HIDE DEF got
<1>3. view' # None  BY <1>1, <1>2 DEF StorageAssumption
<1>4. /\ pending = view.modified_storage_keys /\ pending' = pending
  BY <1>1, <1>2, <1>3 DEF pending
<1>5. pending # None
  BY NoneIsNoMap, <1>2, <1>4 DEF StorageAssumption, CachesInv, ViewOK, Views
<1>6. Overlay!seen(key) = got.value  BY <1>1, <1>4, <1>5 DEF Overlay!seen
<1>7. UNCHANGED seenAll  BY <1>1, <1>2, SameOverlay
<1> QED  BY <1>2, <1>4, <1>6, <1>7 DEF Overlay!Read, seenAll

\* A write to the view.
LEMMA ViewWriteRefines ==
  ASSUME StorageAssumption, CachesInv, NEW key \in Keys, NEW v \in Values[key], ViewWrite(key, v)
  PROVE  Overlay!Write(key, v)
<1> DEFINE got == get_value_no_log(key)
           added == with(view.modified_storage_keys, key, v)
<1>1. /\ got.value = IF key \in DOMAIN view.modified_storage_keys
                      THEN view.modified_storage_keys[key] ELSE overlay(inner.state)[key]
      /\ got.view \in Views /\ got.view.modified_storage_keys = view.modified_storage_keys
      /\ got.inner.state = inner.state /\ got.inner.factory_deps = inner.factory_deps
  BY ViewReadsOverlay DEF CachesInv, ViewWrite
<1>2. /\ view # None /\ inner' = got.inner
      /\ view' = [got.view EXCEPT !.modified_storage_keys = added]
      /\ answer' = [op |-> "write", key |-> key, original |-> got.value]
      /\ UNCHANGED <<fork, snapshot>>
  BY <1>1 DEF ViewWrite
<1> HIDE DEF got
<1>3. /\ view.modified_storage_keys \in MapsTo(Nat) /\ v \in Nat
  BY <1>2 DEF CachesInv, ViewOK, Views, StorageAssumption
<1>4. added \in MapsTo(Nat)  BY <1>3, WithMap
<1> HIDE DEF added
<1>5. view' \in Views /\ view'.modified_storage_keys = added  BY <1>1, <1>2, <1>4 DEF Views
<1>6. view' # None  BY <1>5 DEF StorageAssumption
<1>7. /\ pending = view.modified_storage_keys /\ pending # None /\ pending' = added
  BY NoneIsNoMap, <1>2, <1>3, <1>5, <1>6 DEF pending, StorageAssumption
<1>8. Overlay!seen(key) = got.value  BY <1>1, <1>7 DEF Overlay!seen
<1>9. UNCHANGED seenAll  BY <1>1, <1>2, SameOverlay
<1>10. added = [k \in DOMAIN pending \cup {key} |-> IF k = key THEN v ELSE pending[k]]
  BY <1>7 DEF added, with
<1> QED  BY <1>2, <1>7, <1>8, <1>9, <1>10 DEF Overlay!Write, seenAll

\* Whether a write would be the first.
LEMMA InitialRefines ==
  ASSUME StorageAssumption, CachesInv, NEW key \in Keys, ViewIsWriteInitial(key)
  PROVE  Overlay!AskInitial(key)
<1> DEFINE initial == overlay(inner.state)[key] = 0 /\ key \notin DOMAIN inner.state
<1>1. view # None /\ UNCHANGED <<fork, snapshot>>  BY DEF ViewIsWriteInitial
<1>2. view \in Views  BY <1>1 DEF CachesInv, ViewOK
<1>3. /\ answer' = [op |-> "initial", key |-> key, initial |-> initial]
      /\ view' \in Views /\ view'.modified_storage_keys = view.modified_storage_keys
      /\ inner'.state = inner.state /\ inner'.factory_deps = inner.factory_deps
  <2>1. CASE key \in DOMAIN view.initial_writes_cache
    <3>1. /\ answer' = [op |-> "initial", key |-> key, initial |-> view.initial_writes_cache[key]]
          /\ UNCHANGED <<view, inner>>
      BY <2>1 DEF ViewIsWriteInitial
    <3>2. view.initial_writes_cache[key] = initial
      BY <1>1, <2>1, Zenon DEF CachesInv, ViewOK
    <3>3. answer' = [op |-> "initial", key |-> key, initial |-> initial]
      BY <3>1, <3>2, Zenon
    <3> QED  BY <1>2, <3>1, <3>3
  <2>2. CASE key \notin DOMAIN view.initial_writes_cache
    <3> DEFINE read == read_value_internal(key)
               is == read.value = 0 /\ key \notin DOMAIN inner.state
               added == with(view.initial_writes_cache, key, is)
    <3>1. /\ read.value = overlay(inner.state)[key]
          /\ read.inner.state = inner.state /\ read.inner.factory_deps = inner.factory_deps
      BY ReadsOverlay DEF CachesInv
    <3>2. /\ answer' = [op |-> "initial", key |-> key, initial |-> is]
          /\ view' = [view EXCEPT !.initial_writes_cache = added]
          /\ inner' = read.inner
      BY <2>2 DEF ViewIsWriteInitial, is_write_initial_internal
    <3>3. is = initial  BY <3>1, Zenon
    <3>4. is \in BOOLEAN  OBVIOUS
    <3> HIDE DEF read, is
    <3>5. added \in MapsTo(BOOLEAN)
      BY <1>2, <3>4, WithMap, Zenon DEF Views
    <3> HIDE DEF added
    <3>6. view' \in Views /\ view'.modified_storage_keys = view.modified_storage_keys
      BY <1>2, <3>2, <3>5 DEF Views
    <3>7. answer' = [op |-> "initial", key |-> key, initial |-> initial]
      BY <3>2, <3>3, Zenon
    <3> QED  BY <3>1, <3>2, <3>6, <3>7
  <2> QED  BY <2>1, <2>2
<1>4. view' # None  BY <1>3 DEF StorageAssumption
<1>5. UNCHANGED pending  BY <1>1, <1>3, <1>4 DEF pending
<1>6. UNCHANGED seenAll  BY <1>1, <1>3, SameOverlay
<1> QED  BY <1>3, <1>5, <1>6, Zenon DEF Overlay!AskInitial, seenAll

\* The writes of a batch appear together.
LEMMA CommitRefines == ASSUME CachesInv, StorageAssumption, Commit PROVE Overlay!Commit
<1> DEFINE mods == view.modified_storage_keys
           state == [k \in DOMAIN inner.state \cup DOMAIN mods |->
                       IF k \in DOMAIN mods THEN mods[k] ELSE inner.state[k]]
<1>1. /\ inner' = [inner EXCEPT !.state = state]
      /\ view # None /\ view' = None /\ UNCHANGED <<fork, snapshot, answer>>
  BY DEF Commit
<1>2. /\ inner \in Stores /\ view \in Views /\ mods \in MapsTo(Nat)
  BY <1>1 DEF CachesInv, StoreOK, ViewOK, Views
<1>3. /\ pending = mods /\ pending # None /\ pending' = None
  BY NoneIsNoMap, <1>1, <1>2 DEF pending, StorageAssumption
<1>4. DOMAIN mods \subseteq Keys  BY <1>2, MapShape
<1>5. /\ DOMAIN state = DOMAIN inner.state \cup DOMAIN mods
      /\ \A k \in DOMAIN state : state[k] = IF k \in DOMAIN mods THEN mods[k] ELSE inner.state[k]
  OBVIOUS
<1> HIDE DEF mods, state
<1>6. /\ inner'.state = state /\ inner'.factory_deps = inner.factory_deps
  BY <1>1, <1>2 DEF Stores
<1>7. overlay(inner.state)' = [k \in Keys |->
         IF k \notin DOMAIN mods THEN overlay(inner.state)[k]
         ELSE IF mods[k] = 0 THEN base[k] ELSE mods[k]]
  <2> SUFFICES ASSUME NEW k \in Keys
               PROVE  overlay(inner.state)'[k] =
                        IF k \notin DOMAIN mods THEN overlay(inner.state)[k]
                        ELSE IF mods[k] = 0 THEN base[k] ELSE mods[k]
    BY DEF overlay
  <2>1. overlay(inner.state)'[k]
          = LET here == IF k \in DOMAIN state THEN state[k] ELSE 0
            IN  IF fork /\ here = 0 THEN RemoteValue[k] ELSE here
    BY <1>1, <1>6 DEF overlay
  <2>2. CASE k \in DOMAIN mods
    BY <1>5, <2>1, <2>2 DEF base, CachesInv
  <2>3. CASE k \notin DOMAIN mods
    BY <1>5, <2>1, <2>3 DEF overlay
  <2> QED  BY <2>2, <2>3
<1>8. base' = base /\ saved' = saved  BY <1>1 DEF base, saved, overlay
<1>9. DOMAIN inner'.state = DOMAIN inner.state \cup DOMAIN pending  BY <1>3, <1>5, <1>6
<1> QED  BY <1>1, <1>3, <1>6, <1>7, <1>8, <1>9 DEF Overlay!Commit

\* A snapshot is taken, and restored.
LEMMA SnapshotRefines ==
  ASSUME CachesInv, StorageAssumption
  PROVE  /\ Snapshot => Overlay!Save
         /\ RestoreSnapshot => Overlay!Restore
<1>1. \A store \in Stores :
        [value |-> overlay(store.state), written |-> DOMAIN store.state, codes |-> store.factory_deps] # None
  <2> SUFFICES ASSUME NEW store \in Stores
               PROVE  [value |-> overlay(store.state), written |-> DOMAIN store.state,
                       codes |-> store.factory_deps] # None
    OBVIOUS
  <2>1. store.state \in MapsTo(Nat) /\ store.factory_deps \in SUBSET Hashes  BY DEF Stores
  <2>2. DOMAIN store.state \subseteq Keys /\ store.state \in [DOMAIN store.state -> Nat]
    BY <2>1, MapShape
  <2>3. overlay(store.state) \in [Keys -> Nat]
    BY <2>2 DEF overlay, StorageAssumption
  <2> QED  BY <2>1, <2>2, <2>3 DEF StorageAssumption
<1>2. inner \in Stores /\ (snapshot # None => snapshot \in Stores)  BY DEF CachesInv, StoreOK
<1>3. ASSUME Snapshot PROVE Overlay!Save
  <2>1. /\ view = None /\ snapshot' = inner
        /\ UNCHANGED <<fork, inner, view, answer>>
    BY <1>3 DEF Snapshot
  <2>2. snapshot' # None  BY <1>2, <2>1 DEF StorageAssumption
  <2>3. saved' = [value |-> overlay(inner.state), written |-> DOMAIN inner.state,
                  codes |-> inner.factory_deps]
    BY <2>1, <2>2 DEF saved, overlay
  <2>4. UNCHANGED <<base, overlay(inner.state), pending>> /\ pending = None
    BY <2>1 DEF base, overlay, pending
  <2> QED  BY <2>1, <2>3, <2>4 DEF Overlay!Save
<1>4. ASSUME RestoreSnapshot PROVE Overlay!Restore
  <2>1. /\ view = None /\ snapshot # None /\ inner' = snapshot /\ snapshot' = None
        /\ UNCHANGED <<fork, view, answer>>
    BY <1>4 DEF RestoreSnapshot
  <2>2. saved = [value |-> overlay(snapshot.state), written |-> DOMAIN snapshot.state,
                 codes |-> snapshot.factory_deps]
    BY <2>1 DEF saved
  <2>3. saved # None  BY <1>1, <1>2, <2>1, <2>2
  <2>4. overlay(inner.state)' = overlay(snapshot.state)  BY <2>1 DEF overlay
  <2>5. UNCHANGED <<base, pending>> /\ pending = None /\ saved' = None
    BY <2>1 DEF base, pending, saved
  <2> QED  BY <2>1, <2>2, <2>3, <2>4, <2>5 DEF Overlay!Restore
<1> QED  BY <1>3, <1>4

\* A batch begins, or is thrown away; a bytecode is stored.
LEMMA BatchRefines ==
  ASSUME StorageAssumption, CachesInv
  PROVE  /\ NewView => Overlay!Begin
         /\ Discard => Overlay!Discard
         /\ \A hash \in Hashes : StoreFactoryDep(hash) => Overlay!Store(hash)
<1>1. ASSUME NewView PROVE Overlay!Begin
  <2>1. /\ view = None /\ UNCHANGED <<fork, inner, snapshot, answer>>
        /\ view' = [modified_storage_keys |-> <<>>, read_storage_keys |-> <<>>,
                    initial_writes_cache |-> <<>>]
    BY <1>1 DEF NewView
  <2>2. <<>> \in MapsTo(Nat) /\ <<>> \in MapsTo(BOOLEAN)  BY EmptyMap
  <2>3. view' \in Views  BY <2>1, <2>2 DEF Views
  <2>4. view' # None  BY <2>3 DEF StorageAssumption
  <2>5. pending = None /\ pending' = <<>>  BY <2>1, <2>4 DEF pending
  <2>6. UNCHANGED seenAll  BY <2>1, SameOverlay
  <2> QED  BY <2>1, <2>5, <2>6 DEF Overlay!Begin, seenAll
<1>2. ASSUME Discard PROVE Overlay!Discard
  <2>1. /\ view # None /\ view' = None /\ UNCHANGED <<fork, inner, snapshot, answer>>
    BY <1>2 DEF Discard
  <2>2. pending # None /\ pending' = None
    BY NoneIsNoMap, <2>1 DEF pending, StorageAssumption, CachesInv, ViewOK, Views
  <2>3. UNCHANGED seenAll  BY <2>1, SameOverlay
  <2> QED  BY <2>1, <2>2, <2>3 DEF Overlay!Discard, seenAll
<1>3. ASSUME NEW hash \in Hashes, StoreFactoryDep(hash) PROVE Overlay!Store(hash)
  <2>1. /\ inner' = [inner EXCEPT !.factory_deps = @ \cup {hash}]
        /\ UNCHANGED <<fork, view, snapshot, answer>> /\ inner \in Stores
    BY <1>3 DEF StoreFactoryDep, CachesInv, StoreOK
  <2>2. inner'.state = inner.state /\ inner'.factory_deps = inner.factory_deps \cup {hash}
    BY <2>1 DEF Stores
  <2>3. UNCHANGED <<base, overlay(inner.state), pending, saved>>
    BY <2>1, <2>2 DEF base, overlay, pending, saved
  <2> QED  BY <2>1, <2>2, <2>3 DEF Overlay!Store
<1> QED  BY <1>1, <1>2, <1>3

\* A request that fails throws the batch away, if there is one.
LEMMA FailureRefines ==
  ASSUME StorageAssumption, CachesInv, RequestFails
  PROVE  Overlay!Discard \/ UNCHANGED Overlay!vars
<1>1. view' = None /\ UNCHANGED <<fork, inner, snapshot, answer>>  BY DEF RequestFails
<1>2. UNCHANGED seenAll  BY <1>1, SameOverlay
<1>3. pending' = None  BY <1>1 DEF pending
<1>4. CASE pending = None
  BY <1>1, <1>2, <1>3, <1>4 DEF Overlay!vars, seenAll
<1>5. CASE pending # None
  BY <1>1, <1>2, <1>3, <1>5 DEF Overlay!Discard, seenAll
<1> QED  BY <1>4, <1>5

\* Every step is one of the overlay or is not seen.
LEMMA NextRefines ==
  ASSUME StorageAssumption, CachesInv, [Next]_vars
  PROVE  [Overlay!Next]_(Overlay!vars)
<1>1. ASSUME NEW key \in Keys, ReadValue(key) \/ ViewRead(key) PROVE Overlay!Next
  BY <1>1, ReadRefines, ViewReadRefines DEF Overlay!Next
<1>2. ASSUME NEW key \in Keys, GetCode(key) PROVE Overlay!Next
  BY <1>2, GetCodeRefines DEF Overlay!Next
<1>3. ASSUME NEW key \in Keys, ViewIsWriteInitial(key) PROVE Overlay!Next
  BY <1>3, InitialRefines DEF Overlay!Next
<1>4. ASSUME NEW key \in Keys, NEW value \in Values[key], ViewWrite(key, value) PROVE Overlay!Next
  BY <1>4, ViewWriteRefines DEF Overlay!Next
<1>5. ASSUME NEW hash \in Hashes, LoadFactoryDep(hash) \/ GetBytecodeByHash(hash) PROVE Overlay!Next
  BY <1>5, LoadRefines DEF Overlay!Next
<1>6. ASSUME NEW hash \in Hashes, StoreFactoryDep(hash) PROVE Overlay!Next
  BY <1>6, BatchRefines DEF Overlay!Next
<1>7. ASSUME NEW tokens \in SUBSET Keys, GetAllAccountBalances(tokens) PROVE Overlay!Next
  BY <1>7, BalancesRefine DEF Overlay!Next
<1>8. CASE NewView \/ Discard  BY <1>8, BatchRefines DEF Overlay!Next
<1>9. CASE Commit  BY <1>9, CommitRefines DEF Overlay!Next
<1>10. CASE Snapshot \/ RestoreSnapshot  BY <1>10, SnapshotRefines DEF Overlay!Next
<1>11. CASE RequestFails  BY <1>11, FailureRefines DEF Overlay!Next
<1>12. ASSUME NEW hash \in Hashes, Publish(hash) PROVE UNCHANGED Overlay!vars
  <2>1. UNCHANGED <<fork, inner, view, snapshot, answer>>  BY <1>12 DEF Publish
  <2> QED  BY <2>1, SameOverlay DEF Overlay!vars, seenAll, pending
<1>13. CASE UNCHANGED vars
  <2>1. UNCHANGED <<fork, inner, view, snapshot, answer>>  BY <1>13 DEF vars
  <2> QED  BY <2>1, SameOverlay DEF Overlay!vars, seenAll, pending
<1> QED
  BY <1>1, <1>2, <1>3, <1>4, <1>5, <1>6, <1>7, <1>8, <1>9, <1>10, <1>11, <1>12, <1>13 DEF Next

\* ForkStorage, StorageView and the requests that use them implement one store
\* of values with batches and snapshots: no cache is ever seen.
THEOREM StorageImplementsOverlay == ASSUME StorageAssumption PROVE Spec => ImplementsOverlay
<1>1. Init => Overlay!Init  BY InitRefines
<1>2. CachesInv /\ [Next]_vars => [Overlay!Next]_(Overlay!vars)  BY NextRefines
<1>3. Spec => []CachesInv  BY CachesAreRight
<1> QED  BY <1>1, <1>2, <1>3, PTL DEF Spec, ImplementsOverlay, Overlay!Spec

-----------------------------------------------------------------------------
(***************************************************************************)
(* What a forked node reads, for every set of networks, their transactions *)
(* and the moments at which they grow, every configuration and bound.      *)
(*                                                                         *)
(* A reader is told late, but never wrong, because what was cached is what *)
(* its network could have been told of its key, and stays so: a network    *)
(* only grows.  A file is empty or holds what was cached.                  *)
(***************************************************************************)
Operations ==
  {"transaction", "raw", "blockByHash", "blockByNumber", "latestBlock", "bridges", "tokens"}
BlockTypes == {"blocks_full", "blocks_min"}

Block == [transactions : SUBSET Source!Transactions, sealed : BOOLEAN]
Net == [blocks : Seq(Block), pending : SUBSET Source!Transactions, tokens : Nat]

RemoteInv ==
  /\ remote \in [Networks -> Net]
  /\ \A w \in Networks : Len(remote[w].blocks) <= MaxBlock

(* What network w has answered of an entry's key.                          *)
Possible(w, type, key) ==
  CASE type = "blocks_full" -> Source!given(w, "blockByHash", key, TRUE)
    [] type = "blocks_min" -> Source!given(w, "blockByHash", key, FALSE)
    [] type = "block_raw_transactions" -> Source!given(w, "raw", <<key>>, FALSE)
    [] type = "transactions" -> Source!given(w, "transaction", <<key>>, FALSE)
    [] type = "key_value" -> Source!given(w, "bridges", <<>>, FALSE)
    [] type = "confirmed_tokens" -> Source!given(w, "tokens", key, FALSE)

Entry(w, type, key, value) ==
  /\ w \in Networks /\ value \in Possible(w, type, key)
  /\ type \in BlockTypes => value.hash = key

(* Another network's entries are in the cache only if it is shared.        *)
EntriesInv ==
  /\ DOMAIN cache.entries = Source!Types
  /\ \A type \in Source!Types : \A key \in DOMAIN cache.entries[type] :
       \E w \in Networks :
         /\ Entry(w, type, key, cache.entries[type][key])
         /\ ~shared \/ type = "confirmed_tokens" => w = network

(* The number of a block leads to a block of that number.                  *)
IndexInv ==
  \A n \in DOMAIN cache.block_hashes :
    \E type \in BlockTypes :
      /\ cache.block_hashes[n] \in DOMAIN cache.entries[type]
      /\ cache.entries[type][cache.block_hashes[n]].number = n

(* A file is empty or holds what a network has answered.                   *)
DiskInv ==
  /\ DOMAIN disk = Source!Types /\ DOMAIN disk["confirmed_tokens"] = {}
  /\ \A type \in Source!Types : \A key \in DOMAIN disk[type] :
       disk[type][key] # Torn => \E w \in Networks : Entry(w, type, key, disk[type][key])

(* Every entry has its file, unless one could not be created.              *)
FilesInv ==
  config.kind = "disk" /\ ~lost =>
    \A type \in Source!Types \ {"confirmed_tokens"} : \A key \in DOMAIN cache.entries[type] :
      key \in DOMAIN disk[type] /\ disk[type][key] \in {Torn, cache.entries[type][key]}

(* What is being written was answered, and nothing later is cached.        *)
WritingInv ==
  writing # None =>
    LET type == writing.read.type
        key == writing.key
    IN  /\ writing.read.op \in Operations
        /\ writing.value \in Source!given(network, writing.read.op, writing.read.key,
                                          writing.read.full)
        /\ type \in Source!Types \ {"confirmed_tokens"}
        /\ Entry(network, type, key, writing.value)
        /\ key \in DOMAIN disk[type] /\ disk[type][key] = Torn
        /\ key \in DOMAIN cache.entries[type] =>
             Source!later(type, cache.entries[type][key], writing.value)

SourceInv ==
  /\ network \in Networks /\ shared \in BOOLEAN /\ runs \in Nat
  /\ RemoteInv /\ EntriesInv /\ IndexInv /\ DiskInv /\ FilesInv /\ WritingInv

-----------------------------------------------------------------------------
(***************************************************************************)
(* Networks.                                                               *)
(***************************************************************************)

(* What a network has answered it does not take back.                      *)
Grows ==
  \A w \in Networks :
    /\ DOMAIN remote[w].blocks \subseteq DOMAIN remote'[w].blocks
    /\ \A n \in DOMAIN remote[w].blocks :
         /\ remote'[w].blocks[n].transactions = remote[w].blocks[n].transactions
         /\ remote[w].blocks[n].sealed => remote'[w].blocks[n].sealed
    /\ remote[w].pending \subseteq
         remote'[w].pending \cup UNION {remote'[w].blocks[n].transactions :
                                          n \in DOMAIN remote'[w].blocks}
    /\ remote[w].tokens <= remote'[w].tokens

\* The shape of a network.
LEMMA ShapeOfNet ==
  ASSUME NEW net \in Net
  PROVE  /\ net.blocks \in Seq(Block) /\ Len(net.blocks) \in Nat
         /\ DOMAIN net.blocks = 1 .. Len(net.blocks)
         /\ \A n \in DOMAIN net.blocks : net.blocks[n] \in Block
         /\ net.pending \subseteq Source!Transactions /\ net.tokens \in Nat
<1>1. net.blocks \in Seq(Block)  BY DEF Net
<1> QED  BY <1>1 DEF Net

\* Of a network that is as it was nothing is taken back.
LEMMA SameGrows == ASSUME RemoteInv, UNCHANGED remote PROVE RemoteInv' /\ Grows
<1>1. RemoteInv'  BY DEF RemoteInv
<1>2. \A w \in Networks : remote[w].tokens <= remote[w].tokens  BY DEF RemoteInv, Net
<1> QED  BY <1>1, <1>2 DEF Grows

\* A network with one of its parts replaced.
LEMMA NetUpdates ==
  ASSUME NEW o \in Net, NEW b, NEW p, NEW c, NEW n
  PROVE  /\ [o EXCEPT !.pending = p] = [blocks |-> o.blocks, pending |-> p, tokens |-> o.tokens]
         /\ [o EXCEPT !.tokens = c] = [blocks |-> o.blocks, pending |-> o.pending, tokens |-> c]
         /\ [o EXCEPT !.blocks = b] = [blocks |-> b, pending |-> o.pending, tokens |-> o.tokens]
         /\ [o EXCEPT !.blocks[n].sealed = TRUE]
              = [blocks |-> [o.blocks EXCEPT ![n].sealed = TRUE],
                 pending |-> o.pending, tokens |-> o.tokens]
<1>1. \A b1 : [o EXCEPT !.blocks = b1]
               = [blocks |-> b1, pending |-> o.pending, tokens |-> o.tokens]
  BY DEF Net
<1>2. [o EXCEPT !.pending = p] = [blocks |-> o.blocks, pending |-> p, tokens |-> o.tokens]
  BY DEF Net
<1>3. [o EXCEPT !.tokens = c] = [blocks |-> o.blocks, pending |-> o.pending, tokens |-> c]
  BY DEF Net
<1>5. [o EXCEPT !.blocks[n].sealed = TRUE]
        = [blocks |-> [o.blocks EXCEPT ![n].sealed = TRUE],
           pending |-> o.pending, tokens |-> o.tokens]
  <2> DEFINE bs == [o.blocks EXCEPT ![n].sealed = TRUE]
  <2>1. [o EXCEPT !.blocks[n].sealed = TRUE] = [o EXCEPT !.blocks = bs]  BY DEF Net
  <2> HIDE DEF bs
  <2>2. [o EXCEPT !.blocks = bs] = [blocks |-> bs, pending |-> o.pending, tokens |-> o.tokens]
    BY <1>1
  <2> QED  BY <2>1, <2>2 DEF bs
<1> QED  BY <1>1, <1>2, <1>3, <1>5

\* One network that grows is enough.
LEMMA OneGrows ==
  ASSUME RemoteInv, NEW w \in Networks, NEW r \in Net, remote' = [remote EXCEPT ![w] = r],
         Len(r.blocks) <= MaxBlock,
         DOMAIN remote[w].blocks \subseteq DOMAIN r.blocks,
         \A n \in DOMAIN remote[w].blocks :
           /\ r.blocks[n].transactions = remote[w].blocks[n].transactions
           /\ remote[w].blocks[n].sealed => r.blocks[n].sealed,
         remote[w].pending \subseteq
           r.pending \cup UNION {r.blocks[n].transactions : n \in DOMAIN r.blocks},
         remote[w].tokens <= r.tokens
  PROVE  RemoteInv' /\ Grows
<1>1. remote \in [Networks -> Net]  BY DEF RemoteInv
<1>2. remote' \in [Networks -> Net] /\ remote'[w] = r
      /\ \A v \in Networks : v # w => remote'[v] = remote[v]
  BY <1>1
<1>3. \A v \in Networks : remote[v].tokens <= remote[v].tokens
  BY <1>1 DEF Net
<1>4. RemoteInv'  BY <1>1, <1>2 DEF RemoteInv
<1>5. Grows  BY <1>2, <1>3 DEF Grows
<1> QED  BY <1>4, <1>5

\* Networks grow.
LEMMA GrowGrows ==
  ASSUME RemoteInv, Source!Grow PROVE RemoteInv' /\ Grows
<1>1. PICK w \in Growing :
        \/ \E t \in TransactionsOf[w] : Source!Submit(w, t)
        \/ Source!Mine(w)
        \/ \E n \in DOMAIN remote[w].blocks : Source!Seal(w, n)
        \/ Source!ListToken(w)
  BY DEF Source!Grow
<1>2. w \in Networks  BY NetworkAssumption DEF Source!NetworkAssumption
<1> DEFINE old == remote[w]
<1>3. /\ old \in Net /\ old.blocks \in Seq(Block) /\ old.pending \subseteq Source!Transactions
      /\ old.tokens \in Nat /\ Len(old.blocks) <= MaxBlock /\ MaxBlock \in Nat
      /\ Len(old.blocks) \in Nat
      /\ old = [blocks |-> old.blocks, pending |-> old.pending, tokens |-> old.tokens]
  BY <1>2, NetworkAssumption DEF RemoteInv, Source!NetworkAssumption, Net
<1>4. ASSUME NEW t \in TransactionsOf[w], Source!Submit(w, t) PROVE RemoteInv' /\ Grows
  <2> DEFINE r == [blocks |-> old.blocks, pending |-> old.pending \cup {t}, tokens |-> old.tokens]
  <2>0. [old EXCEPT !.pending = @ \cup {t}] = r  BY <1>3, NetUpdates
  <2>1. remote' = [remote EXCEPT ![w] = r]
    BY <2>0, <1>4 DEF Source!Submit, Source!grow
  <2>2. t \in Source!Transactions  BY <1>2 DEF Source!Transactions
  <2>3. r \in Net  BY <1>3, <2>2 DEF Net
  <2>4. r.blocks = old.blocks /\ old.pending \subseteq r.pending /\ r.tokens = old.tokens
    OBVIOUS
  <2> HIDE DEF r
  <2>5. old.tokens <= r.tokens  BY <1>3, <2>4
  <2> QED  BY <1>2, <1>3, <2>1, <2>3, <2>4, <2>5, OneGrows
<1>5. CASE Source!Mine(w)
  <2> DEFINE b == [transactions |-> old.pending, sealed |-> FALSE]
             r == [blocks |-> Append(old.blocks, b), pending |-> {}, tokens |-> old.tokens]
  <2>0. [old EXCEPT !.blocks = Append(@, b), !.pending = {}] = r
    <3> DEFINE bs == Append(old.blocks, b)
    <3> HIDE DEF bs
    <3>1. old \in Net  BY <1>3
    <3>2. [old EXCEPT !.blocks = bs, !.pending = {}]
            = [[old EXCEPT !.blocks = bs] EXCEPT !.pending = {}]
      BY <3>1 DEF Net
    <3>3. @ = [[blocks |-> bs, pending |-> old.pending, tokens |-> old.tokens]
                 EXCEPT !.pending = {}]
      BY <3>1, NetUpdates
    <3>4. [old EXCEPT !.blocks = bs, !.pending = {}]
            = [blocks |-> bs, pending |-> {}, tokens |-> old.tokens]
      BY <3>2, <3>3
    <3> QED  BY <3>4 DEF bs
  <2>1. remote' = [remote EXCEPT ![w] = r] /\ Len(old.blocks) < MaxBlock
    BY <2>0, <1>5 DEF Source!Mine, Source!grow
  <2>2. b \in Block  BY <1>3 DEF Block
  <2>3. /\ Append(old.blocks, b) \in Seq(Block)
        /\ Len(Append(old.blocks, b)) = Len(old.blocks) + 1
        /\ \A n \in 1 .. Len(old.blocks) : Append(old.blocks, b)[n] = old.blocks[n]
        /\ Append(old.blocks, b)[Len(old.blocks) + 1] = b
    BY <1>3, <2>2
  <2>4. DOMAIN old.blocks = 1 .. Len(old.blocks)
        /\ DOMAIN Append(old.blocks, b) = 1 .. (Len(old.blocks) + 1)
    BY <1>3, <2>3
  <2>5. r \in Net  BY <1>3, <2>3 DEF Net
  <2>6. old.pending \subseteq UNION {r.blocks[n].transactions : n \in DOMAIN r.blocks}
    <3>1. Len(old.blocks) + 1 \in DOMAIN r.blocks
          /\ r.blocks[Len(old.blocks) + 1].transactions = old.pending
      BY <1>3, <2>3, <2>4
    <3> QED  BY <3>1
  <2>7. Len(r.blocks) <= MaxBlock  BY <1>3, <2>1, <2>3
  <2>8. DOMAIN old.blocks \subseteq DOMAIN r.blocks  BY <1>3, <2>4
  <2>9. \A n \in DOMAIN old.blocks : r.blocks[n] = old.blocks[n]  BY <2>3, <2>4
  <2> HIDE DEF r
  <2>10. old.tokens <= r.tokens  BY <1>3 DEF r
  <2> QED  BY <1>2, <1>3, <2>1, <2>5, <2>6, <2>7, <2>8, <2>9, <2>10, OneGrows
<1>6. ASSUME NEW n \in DOMAIN old.blocks, Source!Seal(w, n) PROVE RemoteInv' /\ Grows
  <2> DEFINE bs == [old.blocks EXCEPT ![n].sealed = TRUE]
             r == [blocks |-> bs, pending |-> old.pending, tokens |-> old.tokens]
  <2>0. [old EXCEPT !.blocks[n].sealed = TRUE] = r  BY <1>3, NetUpdates
  <2>1. remote' = [remote EXCEPT ![w] = r]
    BY <2>0, <1>6 DEF Source!Seal, Source!grow
  <2>2. \A m \in DOMAIN old.blocks : old.blocks[m] \in Block  BY <1>3
  <2>3. bs \in [DOMAIN old.blocks -> Block]
        /\ \A m \in DOMAIN old.blocks :
             /\ bs[m].transactions = old.blocks[m].transactions
             /\ old.blocks[m].sealed => bs[m].sealed
    BY <2>2 DEF Block
  <2>4. bs \in Seq(Block) /\ Len(bs) = Len(old.blocks)
    <3> HIDE DEF bs
    <3> QED  BY <1>3, <2>3
  <2>5. r \in Net  BY <1>3, <2>4 DEF Net
  <2>6. r.blocks = bs /\ r.pending = old.pending /\ r.tokens = old.tokens  OBVIOUS
  <2> HIDE DEF bs, r
  <2>7. old.tokens <= r.tokens  BY <1>3, <2>6
  <2> QED  BY <1>2, <1>3, <2>1, <2>3, <2>4, <2>5, <2>6, <2>7, OneGrows
<1>7. CASE Source!ListToken(w)
  <2> DEFINE r == [blocks |-> old.blocks, pending |-> old.pending, tokens |-> old.tokens + 1]
  <2>0. [old EXCEPT !.tokens = @ + 1] = r  BY <1>3, NetUpdates
  <2>1. remote' = [remote EXCEPT ![w] = r]
    BY <2>0, <1>7 DEF Source!ListToken, Source!grow
  <2>2. r \in Net  BY <1>3 DEF Net
  <2>3. r.blocks = old.blocks /\ r.pending = old.pending /\ r.tokens = old.tokens + 1  OBVIOUS
  <2> HIDE DEF r
  <2>4. old.tokens <= r.tokens  BY <1>3, <2>3
  <2> QED  BY <1>2, <1>3, <2>1, <2>2, <2>3, <2>4, OneGrows
<1> QED  BY <1>1, <1>4, <1>5, <1>6, <1>7

\* What is possible of a key stays so.
LEMMA GivenGrows ==
  ASSUME RemoteInv, RemoteInv', Grows, NEW w \in Networks, NEW op \in Operations,
         NEW key, NEW full
  PROVE  Source!given(w, op, key, full) \subseteq Source!given(w, op, key, full)'
<1> DEFINE old == remote[w].blocks
           new == remote'[w].blocks
<1>1. /\ DOMAIN old \subseteq DOMAIN new
      /\ \A n \in DOMAIN old : new[n].transactions = old[n].transactions
                               /\ (old[n].sealed => new[n].sealed)
      /\ \A n \in DOMAIN old : old[n].sealed \in BOOLEAN
      /\ \A n \in DOMAIN new : new[n].sealed \in BOOLEAN
      /\ remote[w].tokens \in Nat /\ remote'[w].tokens \in Nat
      /\ remote[w].tokens <= remote'[w].tokens
  <2>1. /\ \A n \in DOMAIN new : new[n] \in Block
        /\ remote'[w].tokens \in Nat
    BY ShapeOfNet DEF RemoteInv
  <2>2. /\ \A n \in DOMAIN old : old[n] \in Block
        /\ remote[w].tokens \in Nat
    BY ShapeOfNet DEF RemoteInv
  <2> QED  BY <2>1, <2>2 DEF Grows, Block
<1>2. \A n \in DOMAIN old :
        {Source!block(w, n, s, full) : s \in {FALSE, old[n].sealed}}
          \subseteq {Source!block(w, n, s, full)' : s \in {FALSE, new[n].sealed}}
  BY <1>1 DEF Source!block
<1>3. CASE op = "transaction"
  <2>1. Source!minedAt(w, key[1]) \subseteq Source!minedAt(w, key[1])'
    BY <1>1 DEF Source!minedAt
  <2>2. key[1] \in remote[w].pending =>
          key[1] \in remote'[w].pending \/ Source!minedAt(w, key[1])' # {}
    BY DEF Grows, Source!minedAt
  <2> QED  BY <1>3, <2>1, <2>2 DEF Source!given, Source!transaction
<1>4. CASE op = "raw"  BY <1>1, <1>4 DEF Source!given
<1>5. CASE op \in {"blockByHash", "blockByNumber"}
  BY <1>1, <1>2, <1>5 DEF Source!given
<1>6. CASE op = "latestBlock"
  <2> DEFINE olds(n) == {Source!block(w, n, s, full) : s \in {FALSE, old[n].sealed}}
             news(n) == {Source!block(w, n, s, full)' : s \in {FALSE, new[n].sealed}}
  <2>1. /\ Source!given(w, op, key, full) = UNION {olds(n) : n \in DOMAIN old}
        /\ Source!given(w, op, key, full)' = UNION {news(n) : n \in DOMAIN new}
    BY <1>6 DEF Source!given
  <2>2. \A n \in DOMAIN old : olds(n) \subseteq news(n) /\ n \in DOMAIN new  BY <1>1, <1>2
  <2> HIDE DEF olds, news
  <2> QED  BY <2>1, <2>2
<1>7. CASE op = "bridges"  BY <1>7 DEF Source!given
<1>8. CASE op = "tokens"  BY <1>1, <1>8 DEF Source!given, Source!page
<1> QED  BY <1>3, <1>4, <1>5, <1>6, <1>7, <1>8 DEF Operations

\* What a network answers now it has answered so far.
LEMMA TruthGiven ==
  ASSUME RemoteInv, NEW w \in Networks, NEW op \in Operations, NEW key, NEW full,
         Source!truth(w, op, key, full) # None
  PROVE  Source!truth(w, op, key, full) \in Source!given(w, op, key, full)
<1>1. DOMAIN remote[w].blocks = 1 .. Len(remote[w].blocks) /\ Len(remote[w].blocks) \in Nat
      /\ remote[w].tokens \in Nat
  BY ShapeOfNet DEF RemoteInv
<1>2. CASE op = "transaction"
  <2>1. CASE Source!minedAt(w, key[1]) # {}
    <3> DEFINE n == CHOOSE n \in Source!minedAt(w, key[1]) : TRUE
    <3>1. n \in Source!minedAt(w, key[1])  BY <2>1
    <3> HIDE DEF n
    <3>2. Source!truth(w, op, key, full) = Source!transaction(w, key[1], n)
      BY <1>2, <2>1 DEF Source!truth, n
    <3> QED  BY <1>2, <3>1, <3>2 DEF Source!given
  <2>2. CASE Source!minedAt(w, key[1]) = {}
    BY <1>2, <2>2 DEF Source!truth, Source!given
  <2> QED  BY <2>1, <2>2
<1>3. CASE op = "raw"  BY <1>1, <1>3 DEF Source!truth, Source!given
<1>4. CASE op \in {"blockByHash", "blockByNumber"}
  BY <1>1, <1>4 DEF Source!truth, Source!given
<1>5. CASE op = "latestBlock"
  <2> DEFINE n == Len(remote[w].blocks)
  <2>1. n > 0 /\ Source!truth(w, op, key, full)
                    = Source!block(w, n, remote[w].blocks[n].sealed, full)
    BY <1>1, <1>5 DEF Source!truth
  <2>2. n \in DOMAIN remote[w].blocks  BY <1>1, <2>1
  <2> DEFINE all(m) == {Source!block(w, m, s, full) : s \in {FALSE, remote[w].blocks[m].sealed}}
  <2>3. Source!truth(w, op, key, full) \in all(n)  BY <2>1
  <2>4. Source!given(w, op, key, full) = UNION {all(m) : m \in DOMAIN remote[w].blocks}
    BY <1>5 DEF Source!given
  <2> HIDE DEF all, n
  <2> QED  BY <2>2, <2>3, <2>4
<1>6. CASE op = "bridges"  BY <1>6 DEF Source!truth, Source!given
<1>7. CASE op = "tokens"  BY <1>1, <1>7 DEF Source!truth, Source!given
<1> QED  BY <1>2, <1>3, <1>4, <1>5, <1>6, <1>7 DEF Operations

-----------------------------------------------------------------------------
(***************************************************************************)
(* Entries.                                                                *)
(***************************************************************************)

\* The types of entries.
LEMMA TypeNames ==
  Source!Types = {"blocks_full", "blocks_min", "block_raw_transactions", "transactions",
                  "key_value", "confirmed_tokens"}
<1> DEFINE D == Source!DiskTypes
<1>1. /\ DOMAIN D = 1 .. 5
      /\ D[1] = "blocks_full" /\ D[2] = "blocks_min" /\ D[3] = "block_raw_transactions"
      /\ D[4] = "transactions" /\ D[5] = "key_value"
  BY DEF Source!DiskTypes
<1>2. DOMAIN D = {1, 2, 3, 4, 5}  BY <1>1
<1> HIDE DEF D
<1> QED  BY <1>1, <1>2 DEF Source!Types, D

\* An entry stays one.
LEMMA EntryGrows ==
  ASSUME RemoteInv, RemoteInv', Grows, NEW w, NEW type \in Source!Types, NEW key, NEW value,
         Entry(w, type, key, value)
  PROVE  Entry(w, type, key, value)'
<1>1. w \in Networks  BY DEF Entry
<1>2. \A op \in Operations : \A k, full :
        Source!given(w, op, k, full) \subseteq Source!given(w, op, k, full)'
  BY <1>1, GivenGrows
<1>3. Possible(w, type, key) \subseteq Possible(w, type, key)'
  BY <1>2, TypeNames DEF Possible, Operations
<1> QED  BY <1>3 DEF Entry

(* A block in the cache is one that its network has told, sealed or not.   *)
BlockEntry(w, type, key, value) ==
  /\ value.number \in DOMAIN remote[w].blocks /\ value.number \in 1 .. MaxBlock
  /\ key = <<w, value.number>>
  /\ value = Source!block(w, value.number, value.sealed, type = "blocks_full")
  /\ value.sealed \in BOOLEAN
  /\ value.sealed => remote[w].blocks[value.number].sealed

\* An entry tells its network.
LEMMA EntryFacts ==
  ASSUME RemoteInv, NEW w, NEW type \in Source!Types, NEW key, NEW value,
         Entry(w, type, key, value)
  PROVE  /\ type # "confirmed_tokens" => Source!networkOf(type, value) = w
         /\ type \in BlockTypes => BlockEntry(w, type, key, value)
<1>1. /\ w \in Networks /\ value \in Possible(w, type, key)
      /\ type \in BlockTypes => value.hash = key
  BY DEF Entry
<1>2. CASE type \in BlockTypes
  <2> DEFINE full == type = "blocks_full"
             n == key[2]
  <2>1. value \in Source!given(w, "blockByHash", key, full)
    BY <1>1, <1>2 DEF Possible, BlockTypes
  <2>2. n \in DOMAIN remote[w].blocks
        /\ \E s \in {FALSE, remote[w].blocks[n].sealed} : value = Source!block(w, n, s, full)
    BY <2>1 DEF Source!given
  <2>3. PICK s \in {FALSE, remote[w].blocks[n].sealed} : value = Source!block(w, n, s, full)
    BY <2>2
  <2>4. /\ value.network = w /\ value.number = n /\ value.hash = Source!blockHash(w, n)
        /\ value.sealed = s
    BY <2>3 DEF Source!block
  <2>5. remote[w] \in Net /\ Len(remote[w].blocks) <= MaxBlock  BY <1>1 DEF RemoteInv
  <2>6. /\ DOMAIN remote[w].blocks = 1 .. Len(remote[w].blocks)
        /\ Len(remote[w].blocks) \in Nat /\ remote[w].blocks[n].sealed \in BOOLEAN
    BY <2>2, <2>5, ShapeOfNet DEF Block
  <2>7. n \in 1 .. MaxBlock
    BY <2>2, <2>5, <2>6, NetworkAssumption DEF Source!NetworkAssumption
  <2>8. Source!networkOf(type, value) = w  BY <1>2, <2>4 DEF Source!networkOf, BlockTypes
  <2>9. key = <<w, value.number>>  BY <1>1, <1>2, <2>4 DEF Source!blockHash
  <2> HIDE DEF n
  <2>10. BlockEntry(w, type, key, value)
    BY <2>2, <2>3, <2>4, <2>6, <2>7, <2>9 DEF BlockEntry
  <2> QED  BY <1>2, <2>8, <2>10
<1>3. CASE type = "block_raw_transactions"
  <2>1. value.network = w  BY <1>1, <1>3 DEF Possible, Source!given
  <2> QED  BY <1>3, <2>1 DEF Source!networkOf, BlockTypes
<1>4. CASE type = "transactions"
  <2>1. value \in Source!given(w, "transaction", <<key>>, FALSE)
    BY <1>1, <1>4 DEF Possible
  <2>2. \E n : value = Source!transaction(w, <<key>>[1], n)
    BY <2>1 DEF Source!given
  <2>3. value.network = w  BY <2>2 DEF Source!transaction
  <2> QED  BY <1>4, <2>3 DEF Source!networkOf, BlockTypes
<1>5. CASE type = "key_value"
  <2>1. value = w  BY <1>1, <1>5 DEF Possible, Source!given
  <2> QED  BY <1>5, <2>1 DEF Source!networkOf, BlockTypes
<1>6. CASE type = "confirmed_tokens"  BY <1>6 DEF BlockTypes
<1> QED  BY <1>2, <1>3, <1>4, <1>5, <1>6, TypeNames DEF BlockTypes

\* A block that is fetched now is later than any that is cached of its hash.
LEMMA FetchedIsLater ==
  ASSUME RemoteInv, NEW w, NEW type \in BlockTypes, NEW key, NEW old, NEW new,
         Entry(w, type, key, old), Entry(network, type, key, new),
         NEW n, new = Source!block(network, n, remote[network].blocks[n].sealed,
                                   type = "blocks_full")
  PROVE  Source!later(type, old, new)
<1>1. type \in Source!Types  BY TypeNames DEF BlockTypes
<1>2. BlockEntry(w, type, key, old) /\ BlockEntry(network, type, key, new)
  BY <1>1, EntryFacts
<1>3. new.number = n  BY DEF Source!block
<1>4. w = network /\ old.number = n  BY <1>2, <1>3 DEF BlockEntry
<1>5. remote[w].blocks[n].sealed \in BOOLEAN
  <2>1. remote[w] \in Net  BY DEF RemoteInv, Entry
  <2> QED  BY <1>2, <1>4, <2>1, ShapeOfNet DEF Block, BlockEntry
<1>6. old.sealed => new = old  BY <1>2, <1>4, <1>5 DEF BlockEntry
<1> QED  BY <1>6 DEF Source!later, BlockTypes, Source!isBlockType

-----------------------------------------------------------------------------
(***************************************************************************)
(* Reads.                                                                  *)
(***************************************************************************)

\* What is read, and how.
LEMMA ReadKinds ==
  ASSUME NEW read \in Source!Reads
  PROVE  \/ \E hash : read = Source!get_transaction_by_hash(hash)
         \/ \E number : read = Source!get_raw_block_transactions(number)
         \/ \E hash : \E full \in BOOLEAN : read = Source!get_block_by_hash(hash, full)
         \/ \E number : \E full \in BOOLEAN : read = Source!get_block_by_number(number, full)
         \/ \E full \in BOOLEAN : read = Source!get_latest_block(full)
         \/ read = Source!get_bridge_contracts
         \/ \E from, limit : read = Source!get_tokens(from, limit)
         \/ \E op \in Operations : \E key : read = Source!passedOn(op, key)
<1> DEFINE hashes == {Source!blockHash(w, n) : w \in Networks, n \in 1 .. MaxBlock}
<1> DEFINE transactions == {Source!get_transaction_by_hash(t) : t \in Source!Transactions}
           raws == {Source!get_raw_block_transactions(n) : n \in 1 .. MaxBlock}
           byHash == {Source!get_block_by_hash(h, full) : h \in hashes, full \in BOOLEAN}
           byNumber == {Source!get_block_by_number(n, full) : n \in 1 .. MaxBlock, full \in BOOLEAN}
           latest == {Source!get_latest_block(full) : full \in BOOLEAN}
           ofHash(h) == {Source!get_block_transaction_count_by_hash(h),
                         Source!get_transaction_by_block_hash_and_index(h)}
           ofNumber(n) == {Source!get_block_transaction_count_by_number(n),
                           Source!get_block_details(n),
                           Source!get_transaction_by_block_number_and_index(n)}
           ofHashes == UNION {ofHash(h) : h \in hashes}
           ofNumbers == UNION {ofNumber(n) : n \in 1 .. MaxBlock}
           details == {Source!get_transaction_details(t) : t \in Source!Transactions}
           tokens == {Source!get_tokens(p[1], p[2]) : p \in Pages}
<1>1. \/ read \in transactions \/ read \in raws \/ read \in byHash \/ read \in byNumber
      \/ read \in latest \/ read = Source!get_bridge_contracts
      \/ read \in ofHashes \/ read \in ofNumbers \/ read \in details \/ read \in tokens
  <2>1. Source!Reads =
          {Source!get_transaction_by_hash(t) : t \in Source!Transactions}
          \cup {Source!get_raw_block_transactions(n) : n \in 1 .. MaxBlock}
          \cup byHash \cup byNumber
          \cup {Source!get_latest_block(full) : full \in BOOLEAN}
          \cup {Source!get_bridge_contracts}
          \cup (UNION {ofHash(h) : h \in hashes})
          \cup (UNION {ofNumber(n) : n \in 1 .. MaxBlock})
          \cup {Source!get_transaction_details(t) : t \in Source!Transactions}
          \cup {Source!get_tokens(p[1], p[2]) : p \in Pages}
    BY DEF Source!Reads
  <2>2. /\ transactions = {Source!get_transaction_by_hash(t) : t \in Source!Transactions}
        /\ raws = {Source!get_raw_block_transactions(n) : n \in 1 .. MaxBlock}
        /\ latest = {Source!get_latest_block(full) : full \in BOOLEAN}
        /\ details = {Source!get_transaction_details(t) : t \in Source!Transactions}
        /\ tokens = {Source!get_tokens(p[1], p[2]) : p \in Pages}
    OBVIOUS
  <2>3. ofHashes = UNION {ofHash(h) : h \in hashes}
        /\ ofNumbers = UNION {ofNumber(n) : n \in 1 .. MaxBlock}
    OBVIOUS
  <2> HIDE DEF hashes, byHash, byNumber, ofHash, ofNumber, transactions, raws, latest, details,
               tokens, ofHashes, ofNumbers
  <2> QED  BY <2>1, <2>2, <2>3
<1>2. ASSUME read \in ofHashes \cup ofNumbers \cup details
      PROVE  \E op \in Operations : \E key : read = Source!passedOn(op, key)
  <2>1. \/ \E h \in hashes : read \in ofHash(h)
        \/ \E n \in 1 .. MaxBlock : read \in ofNumber(n)
        \/ \E t : read = Source!get_transaction_details(t)
    BY <1>2
  <2>2. {"blockByHash", "blockByNumber", "transaction"} \subseteq Operations  BY DEF Operations
  <2>3. ASSUME NEW h \in hashes, read \in ofHash(h)
        PROVE  read = Source!passedOn("blockByHash", h)
    BY <2>3 DEF Source!get_block_transaction_count_by_hash,
                Source!get_transaction_by_block_hash_and_index
  <2>4. ASSUME NEW n \in 1 .. MaxBlock, read \in ofNumber(n)
        PROVE  read = Source!passedOn("blockByNumber", <<n>>)
    BY <2>4 DEF Source!get_block_transaction_count_by_number, Source!get_block_details,
                Source!get_transaction_by_block_number_and_index
  <2>5. ASSUME NEW t, read = Source!get_transaction_details(t)
        PROVE  read = Source!passedOn("transaction", <<t>>)
    BY <2>5 DEF Source!get_transaction_details
  <2> HIDE DEF hashes, ofHash, ofNumber
  <2> QED  BY <2>1, <2>2, <2>3, <2>4, <2>5
<1>3. /\ read \in transactions => \E hash : read = Source!get_transaction_by_hash(hash)
      /\ read \in raws => \E number : read = Source!get_raw_block_transactions(number)
      /\ read \in byHash =>
           \E hash : \E full \in BOOLEAN : read = Source!get_block_by_hash(hash, full)
      /\ read \in byNumber =>
           \E number : \E full \in BOOLEAN : read = Source!get_block_by_number(number, full)
      /\ read \in latest => \E full \in BOOLEAN : read = Source!get_latest_block(full)
      /\ read \in tokens => \E from, limit : read = Source!get_tokens(from, limit)
  OBVIOUS
<1> HIDE DEF transactions, raws, byHash, byNumber, latest, ofHashes, ofNumbers, details, tokens
<1> QED  BY <1>1, <1>2, <1>3

\* The block that is fetched, whatever it is asked by.
LEMMA FetchedBlock ==
  ASSUME RemoteInv, NEW w \in Networks, NEW key, NEW full,
         NEW op \in {"blockByHash", "blockByNumber", "latestBlock"},
         Source!truth(w, op, key, full) # None
  PROVE  \E n \in DOMAIN remote[w].blocks :
           Source!truth(w, op, key, full) = Source!block(w, n, remote[w].blocks[n].sealed, full)
<1>1. DOMAIN remote[w].blocks = 1 .. Len(remote[w].blocks) /\ Len(remote[w].blocks) \in Nat
  BY ShapeOfNet DEF RemoteInv
<1>2. CASE op = "blockByHash"  BY <1>1, <1>2 DEF Source!truth
<1>3. CASE op = "blockByNumber"  BY <1>1, <1>3 DEF Source!truth
<1>4. CASE op = "latestBlock"
  <2> DEFINE n == Len(remote[w].blocks)
  <2>1. n > 0 /\ Source!truth(w, op, key, full)
                    = Source!block(w, n, remote[w].blocks[n].sealed, full)
    BY <1>1, <1>4 DEF Source!truth
  <2>2. n \in DOMAIN remote[w].blocks  BY <1>1, <2>1
  <2> QED  BY <2>1, <2>2
<1> QED  BY <1>2, <1>3, <1>4

\* A block of a network is an entry under its hash.
LEMMA BlockIsEntry ==
  ASSUME NEW w \in Networks, NEW full \in BOOLEAN, NEW n \in DOMAIN remote[w].blocks,
         NEW value, value = Source!block(w, n, remote[w].blocks[n].sealed, full)
  PROVE  Entry(w, Source!blockType(full), value.hash, value)
<1>1. value.hash = <<w, n>>  BY DEF Source!block, Source!blockHash
<1>2. value \in Source!given(w, "blockByHash", <<w, n>>, full)  BY DEF Source!given
<1>3. Source!blockType(full) = IF full THEN "blocks_full" ELSE "blocks_min"
  BY DEF Source!blockType
<1>4. value \in Possible(w, Source!blockType(full), <<w, n>>)
  <2>1. CASE full = TRUE  BY <1>2, <1>3, <2>1 DEF Possible
  <2>2. CASE full = FALSE  BY <1>2, <1>3, <2>2 DEF Possible
  <2> QED  BY <2>1, <2>2
<1> QED  BY <1>1, <1>4 DEF Entry

(* What is kept of a read: something given, under its key.                 *)
Kept(read, type, key, value) ==
  /\ read.op \in Operations
  /\ value \in Source!given(network, read.op, read.key, read.full)
  /\ type \in Source!Types /\ Entry(network, type, key, value)
  /\ key \in DOMAIN cache.entries[type] =>
       Source!later(type, cache.entries[type][key], value)

\* What is kept was given and is not known yet, or only as it was before.
LEMMA KeptFacts ==
  ASSUME network \in Networks, RemoteInv, EntriesInv,
         NEW read \in Source!Reads, Source!kept(read), read.cached = {}
  PROVE  Kept(read, read.type, Source!keyFor(read), Source!fetched(read))
<1> DEFINE V == Source!fetched(read)
           K == Source!keyFor(read)
<1>1. /\ Source!enabled /\ read.type # None /\ V # None
      /\ V = Source!truth(network, read.op, read.key, read.full)
  BY DEF Source!kept, Source!fetched
<1>2. read.op \in Operations => V \in Source!given(network, read.op, read.key, read.full)
  BY <1>1, TruthGiven
<1>3. \A type, key : Source!lookup(type, key) = {} => key \notin DOMAIN cache.entries[type]
  BY <1>1 DEF Source!lookup
<1>4. CASE \E hash : read = Source!get_transaction_by_hash(hash)
  <2>1. PICK hash : read = Source!get_transaction_by_hash(hash)  BY <1>4
  <2>2. /\ read.op = "transaction" /\ read.key = <<hash>> /\ read.full = FALSE
        /\ read.type = "transactions" /\ read.cached = Source!lookup("transactions", hash)
    BY <2>1 DEF Source!get_transaction_by_hash, Source!get_transaction
  <2>3. K = hash  BY <2>2 DEF Source!keyFor, Source!isBlockType
  <2>4. V \in Possible(network, "transactions", hash)  BY <1>2, <2>2 DEF Possible, Operations
  <2> QED  BY <1>2, <1>3, <2>2, <2>3, <2>4, TypeNames DEF Kept, Entry, Operations, BlockTypes
<1>5. CASE \E number : read = Source!get_raw_block_transactions(number)
  <2>1. PICK number : read = Source!get_raw_block_transactions(number)  BY <1>5
  <2>2. /\ read.op = "raw" /\ read.key = <<number>> /\ read.full = FALSE
        /\ read.type = "block_raw_transactions"
        /\ read.cached = Source!lookup("block_raw_transactions", number)
    BY <2>1 DEF Source!get_raw_block_transactions, Source!get_block_raw_transactions
  <2>3. K = number  BY <2>2 DEF Source!keyFor, Source!isBlockType
  <2>4. V \in Possible(network, "block_raw_transactions", number)
    BY <1>2, <2>2 DEF Possible, Operations
  <2> QED  BY <1>2, <1>3, <2>2, <2>3, <2>4, TypeNames DEF Kept, Entry, Operations, BlockTypes
<1>6. ASSUME NEW full \in BOOLEAN, read.full = full, read.type = Source!blockType(full),
             read.op \in {"blockByHash", "blockByNumber", "latestBlock"}
      PROVE  Kept(read, read.type, K, V)
  <2>1. PICK n \in DOMAIN remote[network].blocks :
          V = Source!block(network, n, remote[network].blocks[n].sealed, full)
    BY <1>1, <1>6, FetchedBlock
  <2>2. read.type \in BlockTypes /\ (full <=> read.type = "blocks_full")
    BY <1>6 DEF Source!blockType, BlockTypes
  <2>3. K = V.hash  BY <2>2 DEF Source!keyFor, Source!isBlockType, BlockTypes
  <2>4. Entry(network, read.type, K, V)  BY <1>6, <2>1, <2>3, BlockIsEntry
  <2>5. ASSUME K \in DOMAIN cache.entries[read.type]
        PROVE  Source!later(read.type, cache.entries[read.type][K], V)
    <3>1. PICK w \in Networks : Entry(w, read.type, K, cache.entries[read.type][K])
      BY <2>2, <2>5, TypeNames DEF EntriesInv, BlockTypes
    <3>2. full = (read.type = "blocks_full")  BY <2>2
    <3>3. V = Source!block(network, n, remote[network].blocks[n].sealed,
                           read.type = "blocks_full")
      BY <2>1, <3>2
    <3> HIDE DEF V, K
    <3> QED  BY <2>2, <2>4, <3>1, <3>3, FetchedIsLater
  <2> HIDE DEF V, K
  <2> QED  BY <1>2, <1>6, <2>2, <2>4, <2>5, TypeNames DEF Kept, Operations, BlockTypes
<1>7. CASE \E hash : \E full \in BOOLEAN : read = Source!get_block_by_hash(hash, full)
  BY <1>6, <1>7 DEF Source!get_block_by_hash
<1>8. CASE \E number : \E full \in BOOLEAN : read = Source!get_block_by_number(number, full)
  BY <1>6, <1>8 DEF Source!get_block_by_number
<1>9. CASE \E full \in BOOLEAN : read = Source!get_latest_block(full)
  <2>1. PICK full \in BOOLEAN : read = Source!get_latest_block(full)  BY <1>9
  <2>2. read.full = full /\ read.type = Source!blockType(full) /\ read.op = "latestBlock"
    BY <2>1 DEF Source!get_latest_block
  <2> QED  BY <1>6, <2>2
<1>10. CASE read = Source!get_bridge_contracts
  <2>1. /\ read.op = "bridges" /\ read.key = <<>> /\ read.full = FALSE
        /\ read.type = "key_value"
        /\ read.cached = Source!lookup("key_value", "bridge_addresses")
    BY <1>10 DEF Source!get_bridge_contracts, Source!get_bridge_addresses
  <2>2. K = "bridge_addresses"  BY <2>1 DEF Source!keyFor, Source!isBlockType
  <2>3. V \in Possible(network, "key_value", "bridge_addresses")
    BY <1>2, <2>1 DEF Possible, Operations
  <2> QED  BY <1>2, <1>3, <2>1, <2>2, <2>3, TypeNames DEF Kept, Entry, Operations, BlockTypes
<1>11. CASE \E from, limit : read = Source!get_tokens(from, limit)
  <2>1. PICK from, limit : read = Source!get_tokens(from, limit)  BY <1>11
  <2>2. /\ read.op = "tokens" /\ read.key = <<from, limit>> /\ read.full = FALSE
        /\ read.type = "confirmed_tokens"
        /\ read.cached = Source!lookup("confirmed_tokens", <<from, limit>>)
    BY <2>1 DEF Source!get_tokens, Source!get_confirmed_tokens
  <2>3. K = <<from, limit>>  BY <2>2 DEF Source!keyFor, Source!isBlockType
  <2>4. V \in Possible(network, "confirmed_tokens", <<from, limit>>)
    BY <1>2, <2>2 DEF Possible, Operations
  <2> QED  BY <1>2, <1>3, <2>2, <2>3, <2>4, TypeNames DEF Kept, Entry, Operations, BlockTypes
<1>12. CASE \E op \in Operations : \E key : read = Source!passedOn(op, key)
  BY <1>1, <1>12 DEF Source!passedOn
<1> QED  BY <1>4, <1>5, <1>7, <1>8, <1>9, <1>10, <1>11, <1>12, ReadKinds

\* What the cache answers was given by the network, or by another that shared it.
LEMMA HitFacts ==
  ASSUME network \in Networks, RemoteInv, EntriesInv, IndexInv,
         NEW read \in Source!Reads, NEW value \in read.cached
  PROVE  /\ read.op \in Operations
         /\ \E w \in Networks : /\ value \in Source!given(w, read.op, read.key, read.full)
                                /\ ~shared => w = network
<1>1. ASSUME NEW type \in Source!Types, NEW key, value \in Source!lookup(type, key)
      PROVE  /\ key \in DOMAIN cache.entries[type] /\ value = cache.entries[type][key]
             /\ \E w \in Networks : /\ Entry(w, type, key, value)
                                    /\ ~shared => w = network
  BY <1>1 DEF Source!lookup, EntriesInv
<1>2. CASE \E hash : read = Source!get_transaction_by_hash(hash)
  <2>1. PICK hash : read = Source!get_transaction_by_hash(hash)  BY <1>2
  <2>2. /\ read.op = "transaction" /\ read.key = <<hash>> /\ read.full = FALSE
        /\ read.cached = Source!lookup("transactions", hash)
    BY <2>1 DEF Source!get_transaction_by_hash, Source!get_transaction
  <2>3. "transactions" \in Source!Types  BY TypeNames
  <2> QED  BY <1>1, <2>2, <2>3 DEF Entry, Possible, Operations
<1>3. CASE \E number : read = Source!get_raw_block_transactions(number)
  <2>1. PICK number : read = Source!get_raw_block_transactions(number)  BY <1>3
  <2>2. /\ read.op = "raw" /\ read.key = <<number>> /\ read.full = FALSE
        /\ read.cached = Source!lookup("block_raw_transactions", number)
    BY <2>1 DEF Source!get_raw_block_transactions, Source!get_block_raw_transactions
  <2>3. "block_raw_transactions" \in Source!Types  BY TypeNames
  <2> QED  BY <1>1, <2>2, <2>3 DEF Entry, Possible, Operations
<1>4. ASSUME NEW full \in BOOLEAN, NEW hash, value \in Source!get_block(hash, full)
      PROVE  \E w \in Networks : /\ Entry(w, Source!blockType(full), hash, value)
                                 /\ value \in Source!given(w, "blockByHash", hash, full)
                                 /\ ~shared => w = network
  <2> DEFINE type == Source!blockType(full)
  <2>1. type \in Source!Types  BY TypeNames DEF Source!blockType
  <2>2. PICK w \in Networks : Entry(w, type, hash, value) /\ (~shared => w = network)
    BY <1>1, <1>4, <2>1 DEF Source!get_block
  <2>3. value \in Source!given(w, "blockByHash", hash, full)
    <3>1. CASE full = TRUE  BY <2>2, <3>1 DEF Entry, Possible, Source!blockType
    <3>2. CASE full = FALSE  BY <2>2, <3>2 DEF Entry, Possible, Source!blockType
    <3> QED  BY <3>1, <3>2
  <2> QED  BY <2>2, <2>3
<1>5. CASE \E hash : \E full \in BOOLEAN : read = Source!get_block_by_hash(hash, full)
  <2>0. PICK hash : \E full \in BOOLEAN : read = Source!get_block_by_hash(hash, full)  BY <1>5
  <2>1. PICK full \in BOOLEAN : read = Source!get_block_by_hash(hash, full)  BY <2>0
  <2>2. /\ read.op = "blockByHash" /\ read.key = hash /\ read.full = full
        /\ read.cached = Source!get_block(hash, full)
    BY <2>1 DEF Source!get_block_by_hash
  <2> QED  BY <1>4, <2>2 DEF Operations
<1>6. CASE \E number : \E full \in BOOLEAN : read = Source!get_block_by_number(number, full)
  <2>0. PICK number : \E full \in BOOLEAN : read = Source!get_block_by_number(number, full)
    BY <1>6
  <2>1. PICK full \in BOOLEAN : read = Source!get_block_by_number(number, full)  BY <2>0
  <2>2. /\ read.op = "blockByNumber" /\ read.key = <<number>> /\ read.full = full
        /\ read.cached = UNION {Source!get_block(hash, full) :
                                  hash \in Source!get_block_hash(number)}
    BY <2>1 DEF Source!get_block_by_number
  <2>3. PICK hash \in Source!get_block_hash(number) : value \in Source!get_block(hash, full)
    BY <2>2
  <2>4. number \in DOMAIN cache.block_hashes /\ hash = cache.block_hashes[number]
    BY <2>3 DEF Source!get_block_hash
  <2>5. PICK other \in BlockTypes :
          hash \in DOMAIN cache.entries[other] /\ cache.entries[other][hash].number = number
    BY <2>4 DEF IndexInv
  <2>6. hash[2] = number
    <3>1. other \in Source!Types  BY TypeNames DEF BlockTypes
    <3>2. PICK v \in Networks : Entry(v, other, hash, cache.entries[other][hash])
      BY <2>5, <3>1 DEF EntriesInv
    <3>3. BlockEntry(v, other, hash, cache.entries[other][hash])  BY <3>1, <3>2, EntryFacts
    <3> QED  BY <2>5, <3>3 DEF BlockEntry
  <2>7. PICK w \in Networks : /\ value \in Source!given(w, "blockByHash", hash, full)
                              /\ ~shared => w = network
    BY <1>4, <2>3
  <2>8. value \in Source!given(w, "blockByNumber", <<number>>, full)
    BY <2>6, <2>7 DEF Source!given
  <2> QED  BY <2>2, <2>7, <2>8 DEF Operations
<1>7. CASE read = Source!get_bridge_contracts
  <2>1. /\ read.op = "bridges" /\ read.key = <<>> /\ read.full = FALSE
        /\ read.cached = Source!lookup("key_value", "bridge_addresses")
    BY <1>7 DEF Source!get_bridge_contracts, Source!get_bridge_addresses
  <2>2. "key_value" \in Source!Types  BY TypeNames
  <2>3. PICK w \in Networks : Entry(w, "key_value", "bridge_addresses", value)
                             /\ (~shared => w = network)
    BY <1>1, <2>1, <2>2
  <2>4. value \in Source!given(w, "bridges", <<>>, FALSE)  BY <2>3 DEF Entry, Possible
  <2> QED  BY <2>1, <2>3, <2>4 DEF Operations
<1>8. CASE \E from, limit : read = Source!get_tokens(from, limit)
  <2>1. PICK from, limit : read = Source!get_tokens(from, limit)  BY <1>8
  <2>2. /\ read.op = "tokens" /\ read.key = <<from, limit>> /\ read.full = FALSE
        /\ read.cached = Source!lookup("confirmed_tokens", <<from, limit>>)
    BY <2>1 DEF Source!get_tokens, Source!get_confirmed_tokens
  <2>3. "confirmed_tokens" \in Source!Types  BY TypeNames
  <2>4. PICK w \in Networks : Entry(w, "confirmed_tokens", <<from, limit>>, value)
                             /\ (~shared => w = network)
    BY <1>1, <2>2, <2>3
  <2>5. value \in Source!given(w, "tokens", <<from, limit>>, FALSE)  BY <2>4 DEF Entry, Possible
  <2> QED  BY <2>2, <2>4, <2>5 DEF Operations
<1>9. read.cached # {}  OBVIOUS
<1>10. CASE \E full \in BOOLEAN : read = Source!get_latest_block(full)
  BY <1>9, <1>10 DEF Source!get_latest_block
<1>11. CASE \E op \in Operations : \E key : read = Source!passedOn(op, key)
  BY <1>9, <1>11 DEF Source!passedOn
<1> QED  BY <1>2, <1>3, <1>5, <1>6, <1>7, <1>8, <1>10, <1>11, ReadKinds

-----------------------------------------------------------------------------
(***************************************************************************)
(* The cache and its files.                                                *)
(***************************************************************************)

(* What is cached is replaced by nothing but what is later.                *)
NeverRegresses ==
  /\ \A type \in Source!Types : \A key \in DOMAIN cache.entries[type] :
        /\ key \in DOMAIN cache'.entries[type]
        /\ Source!later(type, cache.entries[type][key], cache'.entries[type][key])
  /\ ~shared => \A n \in DOMAIN cache.block_hashes :
        n \in DOMAIN cache'.block_hashes /\ cache'.block_hashes[n] = cache.block_hashes[n]

\* What is the same is as late.
LEMMA SameIsLater ==
  ASSUME NEW type, NEW value PROVE Source!later(type, value, value)
  BY DEF Source!later

\* A cache that is as it was.
LEMMA SameCache ==
  ASSUME RemoteInv, RemoteInv', Grows, EntriesInv, IndexInv, UNCHANGED <<network, shared, cache>>
  PROVE  EntriesInv' /\ IndexInv' /\ NeverRegresses
<1>1. EntriesInv'
  <2>1. ASSUME NEW w, NEW type \in Source!Types, NEW key, NEW value, Entry(w, type, key, value)
        PROVE  Entry(w, type, key, value)'
    BY <2>1, EntryGrows
  <2> QED  BY <2>1 DEF EntriesInv
<1>2. IndexInv'  BY DEF IndexInv
<1> QED  BY <1>1, <1>2, SameIsLater DEF NeverRegresses

\* An entry that is inserted.
LEMMA InsertKeeps ==
  ASSUME network \in Networks, RemoteInv, EntriesInv, IndexInv,
         UNCHANGED <<remote, network, shared>>,
         NEW type \in Source!Types, NEW key, NEW value, Entry(network, type, key, value),
         key \in DOMAIN cache.entries[type] =>
           Source!later(type, cache.entries[type][key], value),
         cache' = Source!inserted(type, key, value)
  PROVE  /\ EntriesInv' /\ IndexInv' /\ NeverRegresses
         /\ \A t \in Source!Types : t # type => cache'.entries[t] = cache.entries[t]
         /\ \A k \in DOMAIN cache'.entries[type] :
              k # key => /\ k \in DOMAIN cache.entries[type]
                         /\ cache'.entries[type][k] = cache.entries[type][k]
         /\ key \in DOMAIN cache'.entries[type] /\ cache'.entries[type][key] = value
<1>1. /\ cache'.entries = [cache.entries EXCEPT ![type] = Source!with(@, key, value)]
      /\ cache'.block_hashes = IF type \in BlockTypes
                                 THEN Source!with(cache.block_hashes, value.number, value.hash)
                                 ELSE cache.block_hashes
  BY DEF Source!inserted, Source!isBlockType, BlockTypes
<1>2. DOMAIN cache.entries = Source!Types  BY DEF EntriesInv
<1>3. /\ DOMAIN cache'.entries = Source!Types
      /\ \A t \in Source!Types : t # type => cache'.entries[t] = cache.entries[t]
      /\ cache'.entries[type] = Source!with(cache.entries[type], key, value)
  BY <1>1, <1>2
<1>4. /\ DOMAIN cache'.entries[type] = DOMAIN cache.entries[type] \cup {key}
      /\ \A k \in DOMAIN cache.entries[type] :
           k # key => cache'.entries[type][k] = cache.entries[type][k]
      /\ cache'.entries[type][key] = value
  BY <1>3 DEF Source!with
<1>5. RemoteInv' /\ Grows  BY SameGrows
<1>6. EntriesInv'
  <2>1. ASSUME NEW w, NEW t \in Source!Types, NEW k, NEW v, Entry(w, t, k, v)
        PROVE  Entry(w, t, k, v)'
    BY <1>5, <2>1, EntryGrows
  <2>2. ASSUME NEW t \in Source!Types, NEW k \in DOMAIN cache'.entries[t]
        PROVE  \E w \in Networks : /\ Entry(w, t, k, cache.entries[t][k])'
                                   /\ ~shared' \/ t = "confirmed_tokens" => w = network'
    <3>1. CASE t = type /\ k = key
      <4>1. Entry(network, t, k, cache.entries[t][k])'  BY <1>4, <2>1, <3>1
      <4> QED  BY <4>1
    <3>2. CASE t # type \/ k # key
      <4>1. k \in DOMAIN cache.entries[t] /\ cache'.entries[t][k] = cache.entries[t][k]
        BY <1>3, <1>4, <2>2, <3>2
      <4>2. PICK w \in Networks : /\ Entry(w, t, k, cache.entries[t][k])
                                  /\ ~shared \/ t = "confirmed_tokens" => w = network
        BY <4>1 DEF EntriesInv
      <4>3. Entry(w, t, k, cache.entries[t][k])'  BY <2>1, <4>1, <4>2
      <4> QED  BY <4>2, <4>3
    <3> QED  BY <3>1, <3>2
  <2> QED  BY <1>3, <2>2 DEF EntriesInv
<1>7. type \in BlockTypes =>
        /\ value.hash = key /\ BlockEntry(network, type, key, value)
        /\ DOMAIN cache'.block_hashes = DOMAIN cache.block_hashes \cup {value.number}
        /\ cache'.block_hashes[value.number] = key
        /\ \A n \in DOMAIN cache.block_hashes :
             n # value.number => cache'.block_hashes[n] = cache.block_hashes[n]
  <2> SUFFICES ASSUME type \in BlockTypes
               PROVE  /\ value.hash = key /\ BlockEntry(network, type, key, value)
                      /\ DOMAIN cache'.block_hashes = DOMAIN cache.block_hashes \cup {value.number}
                      /\ cache'.block_hashes[value.number] = key
                      /\ \A n \in DOMAIN cache.block_hashes :
                           n # value.number => cache'.block_hashes[n] = cache.block_hashes[n]
    OBVIOUS
  <2>1. value.hash = key /\ BlockEntry(network, type, key, value)  BY EntryFacts DEF Entry
  <2>2. cache'.block_hashes = Source!with(cache.block_hashes, value.number, key)
    BY <1>1, <2>1
  <2> QED  BY <2>1, <2>2 DEF Source!with
<1>8. ASSUME NEW n \in DOMAIN cache.block_hashes
      PROVE  \E t \in BlockTypes :
               /\ cache.block_hashes[n] \in DOMAIN cache.entries[t]
               /\ cache.entries[t][cache.block_hashes[n]].number = n
               /\ \E w \in Networks :
                    /\ cache.block_hashes[n] = <<w, n>>
                    /\ ~shared => w = network
  <2>1. PICK t \in BlockTypes : /\ cache.block_hashes[n] \in DOMAIN cache.entries[t]
                                /\ cache.entries[t][cache.block_hashes[n]].number = n
    BY <1>8 DEF IndexInv
  <2>2. t \in Source!Types  BY TypeNames DEF BlockTypes
  <2>3. PICK w \in Networks :
          /\ Entry(w, t, cache.block_hashes[n], cache.entries[t][cache.block_hashes[n]])
          /\ ~shared => w = network
    BY <2>1, <2>2 DEF EntriesInv
  <2>4. BlockEntry(w, t, cache.block_hashes[n], cache.entries[t][cache.block_hashes[n]])
    BY <2>1, <2>2, <2>3, EntryFacts
  <2>5. cache.block_hashes[n] = <<w, n>>  BY <2>1, <2>4 DEF BlockEntry
  <2> QED  BY <2>1, <2>3, <2>5
<1>9. IndexInv'
  <2> SUFFICES ASSUME NEW n \in DOMAIN cache'.block_hashes
               PROVE  \E t \in BlockTypes :
                        /\ cache'.block_hashes[n] \in DOMAIN cache'.entries[t]
                        /\ cache'.entries[t][cache'.block_hashes[n]].number = n
    BY DEF IndexInv
  <2>1. CASE type \in BlockTypes /\ n = value.number
    BY <1>4, <1>7, <2>1
  <2>2. CASE ~(type \in BlockTypes /\ n = value.number)
    <3>1. n \in DOMAIN cache.block_hashes /\ cache'.block_hashes[n] = cache.block_hashes[n]
      BY <1>1, <1>7, <2>2
    <3>2. PICK t \in BlockTypes :
            /\ cache.block_hashes[n] \in DOMAIN cache.entries[t]
            /\ cache.entries[t][cache.block_hashes[n]].number = n
            /\ \E w \in Networks : cache.block_hashes[n] = <<w, n>>
      BY <1>8, <3>1
    <3>3. ~(t = type /\ cache.block_hashes[n] = key)
      BY <1>7, <2>2, <3>2 DEF BlockEntry
    <3>4. t \in Source!Types  BY TypeNames DEF BlockTypes
    <3>5. /\ cache.block_hashes[n] \in DOMAIN cache'.entries[t]
          /\ cache'.entries[t][cache.block_hashes[n]] = cache.entries[t][cache.block_hashes[n]]
      BY <1>3, <1>4, <3>2, <3>3, <3>4
    <3> QED  BY <3>1, <3>2, <3>5
  <2> QED  BY <2>1, <2>2
<1>10. NeverRegresses
  <2>1. ASSUME NEW t \in Source!Types, NEW k \in DOMAIN cache.entries[t]
        PROVE  /\ k \in DOMAIN cache'.entries[t]
               /\ Source!later(t, cache.entries[t][k], cache'.entries[t][k])
    <3>1. CASE t = type /\ k = key  BY <1>4, <2>1, <3>1
    <3>2. CASE t # type \/ k # key
      <4>1. k \in DOMAIN cache'.entries[t] /\ cache'.entries[t][k] = cache.entries[t][k]
        BY <1>3, <1>4, <2>1, <3>2
      <4> QED  BY <4>1, SameIsLater
    <3> QED  BY <3>1, <3>2
  <2>2. ASSUME ~shared, NEW n \in DOMAIN cache.block_hashes
        PROVE  n \in DOMAIN cache'.block_hashes /\ cache'.block_hashes[n] = cache.block_hashes[n]
    <3>1. cache.block_hashes[n] = <<network, n>>  BY <1>8, <2>2
    <3>2. CASE type \in BlockTypes  BY <1>7, <2>2, <3>1, <3>2 DEF BlockEntry
    <3>3. CASE type \notin BlockTypes  BY <1>1, <2>2, <3>3
    <3> QED  BY <3>2, <3>3
  <2> QED  BY <2>1, <2>2 DEF NeverRegresses
<1> QED  BY <1>3, <1>4, <1>6, <1>9, <1>10

(* One file is written, or created.                                        *)
FileWritten(type, key, content) ==
  /\ DOMAIN disk' = DOMAIN disk
  /\ \A t \in DOMAIN disk : t # type => disk'[t] = disk[t]
  /\ DOMAIN disk'[type] = DOMAIN disk[type] \cup {key}
  /\ \A k \in DOMAIN disk[type] : k # key => disk'[type][k] = disk[type][k]
  /\ disk'[type][key] = content

\* Files that are as they were.
LEMMA SameDisk ==
  ASSUME RemoteInv, RemoteInv', Grows, DiskInv, UNCHANGED disk PROVE DiskInv'
<1>1. ASSUME NEW w, NEW type \in Source!Types, NEW key, NEW value, Entry(w, type, key, value)
      PROVE  Entry(w, type, key, value)'
  BY <1>1, EntryGrows
<1> QED  BY <1>1 DEF DiskInv

\* A file that is written.
LEMMA WriteKeeps ==
  ASSUME RemoteInv, RemoteInv', Grows, DiskInv,
         NEW type \in Source!Types \ {"confirmed_tokens"}, NEW key, NEW content,
         FileWritten(type, key, content),
         content # Torn => \E w \in Networks : Entry(w, type, key, content)
  PROVE  DiskInv'
<1>1. ASSUME NEW w, NEW t \in Source!Types, NEW k, NEW value, Entry(w, t, k, value)
      PROVE  Entry(w, t, k, value)'
  BY <1>1, EntryGrows
<1>2. /\ DOMAIN disk' = Source!Types
      /\ \A t \in Source!Types : t # type => disk'[t] = disk[t]
      /\ DOMAIN disk'[type] = DOMAIN disk[type] \cup {key}
      /\ \A k \in DOMAIN disk[type] : k # key => disk'[type][k] = disk[type][k]
      /\ disk'[type][key] = content
  BY DEF FileWritten, DiskInv
<1>3. DOMAIN disk'["confirmed_tokens"] = {}  BY <1>2, TypeNames DEF DiskInv
<1>4. ASSUME NEW t \in Source!Types, NEW k \in DOMAIN disk'[t], disk'[t][k] # Torn
      PROVE  \E w \in Networks : Entry(w, t, k, disk[t][k])'
  <2>1. CASE t = type /\ k = key  BY <1>1, <1>2, <1>4, <2>1
  <2>2. CASE t # type \/ k # key
    <3>1. k \in DOMAIN disk[t] /\ disk'[t][k] = disk[t][k]  BY <1>2, <1>4, <2>2
    <3> QED  BY <1>1, <1>4, <3>1 DEF DiskInv
  <2> QED  BY <2>1, <2>2
<1> QED  BY <1>2, <1>3, <1>4 DEF DiskInv

-----------------------------------------------------------------------------
(***************************************************************************)
(* What is loaded.                                                         *)
(***************************************************************************)

\* Only whole files are loaded, and all of them if every file is whole.
LEMMA LoadedKeys ==
  ASSUME NEW files, DOMAIN files = Source!Types,
         NEW part \in {{}} \cup Source!parts(files)
  PROVE  LET loaded == Source!loadedKeys(files, part)
         IN  /\ \A type \in Source!Types : loaded[type] \subseteq Source!whole(files, type)
             /\ loaded["confirmed_tokens"] = {}
             /\ Source!tornTypes(files) = {} =>
                  \A type \in Source!Types \ {"confirmed_tokens"} :
                    loaded[type] = DOMAIN files[type]
<1> DEFINE loaded == Source!loadedKeys(files, part)
           D == Source!DiskTypes
           torn == Source!tornTypes(files)
           first(i) == i \in torn /\ \A k \in torn : i <= k
<1>1. /\ DOMAIN D = 1 .. 5
      /\ \A i \in DOMAIN D : D[i] # "confirmed_tokens"
      /\ \A type \in Source!Types \ {"confirmed_tokens"} : \E i \in DOMAIN D : type = D[i]
      /\ \A i, j \in DOMAIN D : D[i] = D[j] => i = j
  <2>1. /\ DOMAIN D = 1 .. 5 /\ DOMAIN D = {1, 2, 3, 4, 5}
        /\ D[1] = "blocks_full" /\ D[2] = "blocks_min" /\ D[3] = "block_raw_transactions"
        /\ D[4] = "transactions" /\ D[5] = "key_value"
    BY DEF Source!DiskTypes
  <2> HIDE DEF D
  <2> QED  BY <2>1, TypeNames
<1>2. torn \subseteq DOMAIN D  BY DEF Source!tornTypes
<1>3. \A type \in Source!Types :
        loaded[type] =
          IF \E i \in DOMAIN D : type = D[i] /\ Source!complete(files, i)
            THEN Source!whole(files, type)
            ELSE IF \E i \in torn : type = D[i] /\ (\A k \in torn : i <= k) THEN part ELSE {}
  BY DEF Source!loadedKeys
<1>4. part # {} => \E i : first(i) /\ part \subseteq Source!whole(files, D[i])
  <2>1. CASE part \in Source!parts(files)
    <3>1. PICK i \in {j \in torn : \A k \in torn : j <= k} :
            part \in SUBSET Source!whole(files, D[i])
      BY <2>1 DEF Source!parts
    <3> QED  BY <3>1
  <2> QED  BY <2>1
<1> HIDE DEF loaded, D, torn
<1>5. ASSUME NEW type \in Source!Types PROVE loaded[type] \subseteq Source!whole(files, type)
  <2>1. CASE \E i \in torn : type = D[i] /\ (\A k \in torn : i <= k)
    <3>1. PICK i \in torn : type = D[i] /\ (\A k \in torn : i <= k)  BY <2>1
    <3>2. part # {} => part \subseteq Source!whole(files, type)
      <4>1. ASSUME NEW j, first(j), part \subseteq Source!whole(files, D[j])
            PROVE  part \subseteq Source!whole(files, type)
        <5>1. i \in DOMAIN D /\ j \in DOMAIN D /\ i <= j /\ j <= i
          BY <1>2, <3>1, <4>1
        <5>2. i = j  BY <1>1, <5>1
        <5> QED  BY <3>1, <4>1, <5>2
      <4> QED  BY <1>4, <4>1
    <3> QED  BY <1>3, <3>2
  <2> QED  BY <1>3, <2>1
<1>6. loaded["confirmed_tokens"] = {}
  <2>1. "confirmed_tokens" \in Source!Types  BY TypeNames
  <2> QED  BY <1>1, <1>2, <1>3, <2>1
<1>7. ASSUME torn = {}, NEW type \in Source!Types \ {"confirmed_tokens"}
      PROVE  loaded[type] = DOMAIN files[type]
  <2>1. PICK i \in DOMAIN D : type = D[i]  BY <1>1
  <2>2. Source!complete(files, i)  BY <1>7 DEF Source!complete, torn
  <2>3. Source!whole(files, type) = DOMAIN files[type]
    BY <1>7, <2>1 DEF Source!tornTypes, torn, D
  <2> QED  BY <1>3, <2>1, <2>2, <2>3
<1> QED  BY <1>5, <1>6, <1>7 DEF loaded, torn

(* What Cache::new makes of the files.                                     *)
Loads(files, loaded) ==
  /\ \A type \in Source!Types : loaded[type] \subseteq Source!whole(files, type)
  /\ loaded["confirmed_tokens"] = {}
  /\ Source!tornTypes(files) = {} =>
       \A type \in Source!Types \ {"confirmed_tokens"} : loaded[type] = DOMAIN files[type]
  /\ cache'.entries = Source!loadedEntries(files, loaded)
  /\ Source!isIndex(files, loaded, cache'.block_hashes)
  /\ DOMAIN cache'.block_hashes \subseteq 1 .. MaxBlock

\* Files that hold what was answered are loaded as entries.
LEMMA LoadedIsGiven ==
  ASSUME RemoteInv, RemoteInv', Grows, DiskInv', network' \in Networks,
         shared' = Source!foreign(network'), UNCHANGED remote,
         NEW loaded, Loads(disk', loaded)
  PROVE  EntriesInv' /\ IndexInv'
<1>1. /\ DOMAIN cache'.entries = Source!Types
      /\ \A type \in Source!Types :
           /\ DOMAIN cache'.entries[type] = loaded[type]
           /\ \A key \in loaded[type] : cache'.entries[type][key] = disk'[type][key]
  BY DEF Loads, Source!loadedEntries
<1>2. ASSUME NEW type \in Source!Types, NEW key \in DOMAIN cache'.entries[type]
      PROVE  \E w \in Networks : /\ Entry(w, type, key, cache.entries[type][key])'
                                 /\ ~shared' \/ type = "confirmed_tokens" => w = network'
  <2>1. key \in DOMAIN disk'[type] /\ disk'[type][key] # Torn
        /\ cache'.entries[type][key] = disk'[type][key]
    BY <1>1, <1>2 DEF Loads, Source!whole
  <2>2. PICK w \in Networks : Entry(w, type, key, disk[type][key])'
    BY <2>1 DEF DiskInv
  <2>3. Entry(w, type, key, cache.entries[type][key])'  BY <2>1, <2>2
  <2>4. type # "confirmed_tokens"  BY <1>1, <1>2 DEF Loads
  <2>5. ASSUME ~shared' PROVE w = network'
    <3> DEFINE value == cache'.entries[type][key]
    <3>1. Source!networkOf(type, value) = network'
      BY <1>2, <2>4, <2>5 DEF Source!foreign
    <3>2. \A v : Entry(w, type, key, v)' => Source!networkOf(type, v) = w
      <4>1. ASSUME NEW v, Entry(w, type, key, v)' PROVE Entry(w, type, key, v)
        BY <4>1 DEF Entry, Possible, Source!given, Source!block, Source!minedAt
      <4> QED  BY <4>1, <2>4, EntryFacts
    <3> QED  BY <2>3, <3>1, <3>2
  <2> QED  BY <2>3, <2>4, <2>5
<1>3. EntriesInv'  BY <1>1, <1>2 DEF EntriesInv
<1>4. IndexInv'
  <2> SUFFICES ASSUME NEW n \in DOMAIN cache'.block_hashes
               PROVE  \E type \in BlockTypes :
                        /\ cache'.block_hashes[n] \in DOMAIN cache'.entries[type]
                        /\ cache'.entries[type][cache'.block_hashes[n]].number = n
    BY DEF IndexInv
  <2>1. n \in 1 .. MaxBlock  BY DEF Loads
  <2>2. PICK type \in BlockTypes :
          cache'.block_hashes[n] \in Source!hashesOf(disk', loaded, type, n)
    <3> DEFINE full == Source!hashesOf(disk', loaded, "blocks_full", n)
               min == Source!hashesOf(disk', loaded, "blocks_min", n)
    <3>1. cache'.block_hashes[n] \in IF min # {} THEN min ELSE full
      BY <2>1 DEF Loads, Source!isIndex
    <3> QED  BY <3>1 DEF BlockTypes
  <2>3. type \in Source!Types  BY TypeNames DEF BlockTypes
  <2> QED  BY <1>1, <2>2, <2>3 DEF Source!hashesOf
<1> QED  BY <1>3, <1>4

\* A node that starts.
LEMMA StartLoads ==
  ASSUME NEW c, Source!Start(c), c.kind = "disk", DiskInv
  PROVE  /\ disk' = IF c.reset THEN Source!Empty ELSE disk
         /\ \E loaded : Loads(disk', loaded)
<1>1. PICK part \in {{}} \cup Source!parts(disk') :
        LET loaded == Source!loadedKeys(disk', part)
        IN  \E block_hashes \in {b \in Source!Indexes : Source!isIndex(disk', loaded, b)} :
              cache' = [block_hashes |-> block_hashes,
                        entries |-> Source!loadedEntries(disk', loaded)]
  BY DEF Source!Start
<1> DEFINE loaded == Source!loadedKeys(disk', part)
<1>2. PICK block_hashes \in {b \in Source!Indexes : Source!isIndex(disk', loaded, b)} :
        cache' = [block_hashes |-> block_hashes, entries |-> Source!loadedEntries(disk', loaded)]
  BY <1>1
<1>3. disk' = IF c.reset THEN Source!Empty ELSE disk  BY DEF Source!Start, Source!filesAtStart
<1>4. DOMAIN disk' = Source!Types  BY <1>3 DEF DiskInv, Source!Empty
<1>5. DOMAIN block_hashes \subseteq 1 .. MaxBlock  BY DEF Source!Indexes
<1>6. /\ \A type \in Source!Types : loaded[type] \subseteq Source!whole(disk', type)
      /\ loaded["confirmed_tokens"] = {}
      /\ Source!tornTypes(disk') = {} =>
           \A type \in Source!Types \ {"confirmed_tokens"} : loaded[type] = DOMAIN disk'[type]
  BY <1>4, LoadedKeys
<1> HIDE DEF loaded
<1>7. Loads(disk', loaded)  BY <1>2, <1>5, <1>6 DEF Loads
<1> QED  BY <1>3, <1>7

-----------------------------------------------------------------------------
(***************************************************************************)
(* Steps.                                                                  *)
(***************************************************************************)

(* The step of RestartKeepsCache. *)
RestartKeeps ==
  runs' # runs /\ config.kind = "disk" /\ config'.kind = "disk" /\ ~config'.reset
    /\ ~lost /\ Source!tornTypes(disk) = {} =>
  /\ \A type \in Source!Types \ {"confirmed_tokens"} :
       Source!entriesOf(cache, type) \subseteq Source!entriesOf(cache', type)
  /\ DOMAIN cache.block_hashes \subseteq DOMAIN cache'.block_hashes

(* What every step does. *)
GoodStep ==
  /\ SourceInv'
  /\ Source!ReadStep \/ UNCHANGED <<remote, network, shared, told>>
  /\ runs' = runs => NeverRegresses
  /\ RestartKeeps

\* The source begins with nothing.
LEMMA SourceStarts == ASSUME Source!Init PROVE SourceInv
<1>1. /\ Source!RemoteInit
      /\ cache = [block_hashes |-> <<>>, entries |-> Source!Empty]
      /\ disk = Source!Empty /\ writing = None /\ runs = 1
  BY DEF Source!Init
<1>2. /\ network \in Networks /\ shared = FALSE
      /\ remote = [v \in Networks |->
           IF v \in Growing THEN [blocks |-> <<>>, pending |-> {}, tokens |-> 0]
           ELSE [blocks |-> <<[transactions |-> TransactionsOf[v], sealed |-> TRUE]>>,
                 pending |-> {}, tokens |-> MaxTokens]]
  BY <1>1 DEF Source!RemoteInit
<1>3. MaxBlock \in Nat /\ 1 <= MaxBlock /\ MaxTokens \in Nat
  BY NetworkAssumption DEF Source!NetworkAssumption
<1>4. ASSUME NEW v \in Networks
      PROVE  remote[v] \in Net /\ Len(remote[v].blocks) <= MaxBlock
  <2>1. CASE v \in Growing
    <3>1. remote[v] = [blocks |-> <<>>, pending |-> {}, tokens |-> 0]  BY <1>2, <2>1
    <3>2. <<>> \in Seq(Block) /\ Len(<<>>) = 0  OBVIOUS
    <3> QED  BY <1>3, <3>1, <3>2 DEF Net
  <2>2. CASE v \notin Growing
    <3> DEFINE b == [transactions |-> TransactionsOf[v], sealed |-> TRUE]
    <3>1. remote[v] = [blocks |-> <<b>>, pending |-> {}, tokens |-> MaxTokens]
      BY <1>2, <2>2
    <3>2. b \in Block  BY DEF Block, Source!Transactions
    <3> HIDE DEF b
    <3>3. <<b>> \in Seq(Block) /\ Len(<<b>>) = 1  BY <3>2
    <3> QED  BY <1>3, <3>1, <3>3 DEF Net
  <2> QED  BY <2>1, <2>2
<1>5. RemoteInv  BY <1>2, <1>4 DEF RemoteInv
<1>6. /\ DOMAIN Source!Empty = Source!Types
      /\ \A type \in Source!Types : DOMAIN Source!Empty[type] = {}
  BY DEF Source!Empty
<1>7. cache.entries = Source!Empty /\ DOMAIN cache.block_hashes = {}  BY <1>1
<1>8. EntriesInv  BY <1>6, <1>7 DEF EntriesInv
<1>9. IndexInv  BY <1>7 DEF IndexInv
<1>10. DiskInv  BY <1>1, <1>6, TypeNames DEF DiskInv
<1>11. FilesInv  BY <1>6, <1>7 DEF FilesInv
<1>12. WritingInv  BY <1>1 DEF WritingInv
<1> QED  BY <1>1, <1>2, <1>5, <1>8, <1>9, <1>10, <1>11, <1>12 DEF SourceInv

\* What is told was given, or is answered now.
LEMMA Tells ==
  ASSUME UNCHANGED <<remote, network, shared>>, NEW op, NEW key, NEW full, NEW value,
         told' = [op |-> op, key |-> key, full |-> full, value |-> value],
         \/ value = Source!truth(network, op, key, full)
         \/ \E w \in Networks : /\ value \in Source!given(w, op, key, full)
                                /\ ~shared => w = network
  PROVE  Source!ReadStep
<1>1. told' # <<>>
  <2>1. "op" \in DOMAIN told' /\ DOMAIN <<>> = {}  OBVIOUS
  <2> QED  BY <2>1
<1>2. /\ told'.op = op /\ told'.key = key /\ told'.full = full  OBVIOUS
<1>3. value \in {Source!truth(network, op, key, full)} \cup Source!given(network, op, key, full)
                  \cup (IF shared THEN UNION {Source!given(w, op, key, full) : w \in Networks}
                        ELSE {})
  OBVIOUS
<1>4. Source!Tell(op, key, full)  BY <1>3 DEF Source!Tell
<1>5. Source!Tell(told'.op, told'.key, told'.full)  BY <1>2, <1>4
<1> QED  BY <1>1, <1>5 DEF Source!ReadStep

\* What is being written stays given.
LEMMA SameWriting ==
  ASSUME network \in Networks, RemoteInv, RemoteInv', Grows, WritingInv,
         UNCHANGED <<network, cache, disk, writing>>
  PROVE  WritingInv'
<1> SUFFICES ASSUME writing # None PROVE WritingInv'  BY DEF WritingInv
<1> DEFINE type == writing.read.type
           key == writing.key
           given == Source!given(network, writing.read.op, writing.read.key, writing.read.full)
<1>1. /\ writing.read.op \in Operations /\ writing.value \in given
      /\ type \in Source!Types \ {"confirmed_tokens"}
      /\ Entry(network, type, key, writing.value)
      /\ key \in DOMAIN disk[type] /\ disk[type][key] = Torn
      /\ key \in DOMAIN cache.entries[type] =>
           Source!later(type, cache.entries[type][key], writing.value)
  BY DEF WritingInv
<1>2. given \subseteq given'  BY <1>1, GivenGrows
<1>3. Entry(network, type, key, writing.value)'  BY <1>1, EntryGrows
<1> HIDE DEF given
<1>4. writing.value \in given'  BY <1>1, <1>2
<1> QED  BY <1>1, <1>3, <1>4 DEF WritingInv, given

\* A step that leaves the networks, the cache and its files alone.
LEMMA QuietStep ==
  ASSUME SourceInv,
         UNCHANGED <<remote, network, shared, config, cache, disk, writing, lost, runs>>
  PROVE  SourceInv' /\ NeverRegresses /\ RestartKeeps
<1>1. RemoteInv' /\ Grows  BY SameGrows DEF SourceInv
<1>2. EntriesInv' /\ IndexInv' /\ NeverRegresses  BY <1>1, SameCache DEF SourceInv
<1>3. DiskInv'  BY <1>1, SameDisk DEF SourceInv
<1>4. FilesInv'  BY DEF SourceInv, FilesInv
<1>5. WritingInv'  BY <1>1, SameWriting DEF SourceInv
<1> QED  BY <1>1, <1>2, <1>3, <1>4, <1>5 DEF SourceInv, RestartKeeps

\* Nothing happens, or a request fails.
LEMMA StutterIsGood == ASSUME SourceInv, UNCHANGED Source!vars PROVE GoodStep
<1>1. UNCHANGED <<remote, network, shared, told, config, cache, disk, writing, lost, runs>>
  BY DEF Source!vars
<1> QED  BY <1>1, QuietStep DEF GoodStep

\* A read that the cache answers.
LEMMA HitIsGood ==
  ASSUME SourceInv, NEW read \in Source!Reads, Source!Hit(read) PROVE GoodStep
<1>1. /\ UNCHANGED <<remote, network, shared, config, cache, disk, writing, lost, runs>>
      /\ \E value \in read.cached : Source!answered(read, value)
  BY DEF Source!Hit
<1>2. PICK value \in read.cached :
        told' = [op |-> read.op, key |-> read.key, full |-> read.full, value |-> value]
  BY <1>1 DEF Source!answered
<1>3. \E w \in Networks : /\ value \in Source!given(w, read.op, read.key, read.full)
                          /\ ~shared => w = network
  BY HitFacts DEF SourceInv
<1>4. Source!ReadStep  BY <1>1, <1>2, <1>3, Tells
<1> QED  BY <1>1, <1>4, QuietStep DEF GoodStep

\* A read whose answer is not kept.
LEMMA PassOnIsGood ==
  ASSUME SourceInv, NEW read \in Source!Reads, Source!PassOn(read) PROVE GoodStep
<1>1. /\ UNCHANGED <<remote, network, shared, config, cache, disk, writing, lost, runs>>
      /\ Source!answered(read, Source!fetched(read))
  BY DEF Source!PassOn
<1>2. told' = [op |-> read.op, key |-> read.key, full |-> read.full,
               value |-> Source!truth(network, read.op, read.key, read.full)]
  BY <1>1 DEF Source!answered, Source!fetched
<1>3. Source!ReadStep  BY <1>1, <1>2, Tells
<1> QED  BY <1>1, <1>3, QuietStep DEF GoodStep

\* A network grows.
LEMMA GrowIsGood ==
  ASSUME SourceInv, Source!Grow,
         UNCHANGED <<network, shared, told, config, cache, disk, writing, lost, inserts, runs>>
  PROVE  GoodStep
<1>1. RemoteInv' /\ Grows  BY GrowGrows DEF SourceInv
<1>2. EntriesInv' /\ IndexInv' /\ NeverRegresses  BY <1>1, SameCache DEF SourceInv
<1>3. DiskInv'  BY <1>1, SameDisk DEF SourceInv
<1>4. FilesInv'  BY DEF SourceInv, FilesInv
<1>5. WritingInv'  BY <1>1, SameWriting DEF SourceInv
<1>6. SourceInv'  BY <1>1, <1>2, <1>3, <1>4, <1>5 DEF SourceInv
<1>7. Source!ReadStep \/ UNCHANGED <<remote, network, shared, told>>
  BY DEF Source!ReadStep
<1> QED  BY <1>2, <1>6, <1>7 DEF GoodStep, RestartKeeps

\* An answer that is kept in memory and in no file.
LEMMA KeepInMemoryIsGood ==
  ASSUME SourceInv, NEW read \in Source!Reads, Source!KeepInMemory(read) PROVE GoodStep
<1> DEFINE type == read.type
           key == Source!keyFor(read)
           value == Source!fetched(read)
<1>1. /\ Source!idle /\ read.cached = {} /\ Source!kept(read) /\ ~Source!onDisk(type)
      /\ UNCHANGED <<remote, network, shared, config, disk, writing, lost, runs>>
      /\ Source!answered(read, value) /\ cache' = Source!inserted(type, key, value)
  BY DEF Source!KeepInMemory, Source!Keep
<1>2. Kept(read, type, key, value)  BY <1>1, KeptFacts DEF SourceInv
<1> HIDE DEF type, key
<1>3. /\ EntriesInv' /\ IndexInv' /\ NeverRegresses
      /\ \A t \in Source!Types : t # type => cache'.entries[t] = cache.entries[t]
  <2> HIDE DEF value
  <2> QED  BY <1>1, <1>2, InsertKeeps DEF SourceInv, Kept
<1>4. RemoteInv' /\ Grows  BY <1>1, SameGrows DEF SourceInv
<1>5. DiskInv'  BY <1>1, <1>4, SameDisk DEF SourceInv
<1>6. FilesInv'
  <2>1. config.kind = "disk" => type = "confirmed_tokens"  BY <1>1 DEF Source!onDisk
  <2> QED  BY <1>1, <1>3, <2>1 DEF SourceInv, FilesInv
<1>7. WritingInv'  BY <1>1 DEF WritingInv, Source!idle
<1>8. SourceInv'  BY <1>1, <1>3, <1>4, <1>5, <1>6, <1>7 DEF SourceInv
<1>9. Source!ReadStep
  <2>1. told' = [op |-> read.op, key |-> read.key, full |-> read.full,
                 value |-> Source!truth(network, read.op, read.key, read.full)]
    BY <1>1 DEF Source!answered, Source!fetched
  <2> QED  BY <1>1, <2>1, Tells
<1> QED  BY <1>1, <1>3, <1>8, <1>9 DEF GoodStep, RestartKeeps

\* An answer whose file cannot be created.
LEMMA CreateFailsIsGood ==
  ASSUME SourceInv, NEW read \in Source!Reads, Source!CreateFails(read) PROVE GoodStep
<1> DEFINE type == read.type
           key == Source!keyFor(read)
           value == Source!fetched(read)
<1>1. /\ Source!idle /\ read.cached = {} /\ Source!kept(read) /\ lost' = TRUE
      /\ UNCHANGED <<remote, network, shared, config, disk, writing, runs>>
      /\ Source!answered(read, value) /\ cache' = Source!inserted(type, key, value)
  BY DEF Source!CreateFails, Source!Keep
<1>2. Kept(read, type, key, value)  BY <1>1, KeptFacts DEF SourceInv
<1> HIDE DEF type, key
<1>3. EntriesInv' /\ IndexInv' /\ NeverRegresses
  <2> HIDE DEF value
  <2> QED  BY <1>1, <1>2, InsertKeeps DEF SourceInv, Kept
<1>4. RemoteInv' /\ Grows  BY <1>1, SameGrows DEF SourceInv
<1>5. DiskInv'  BY <1>1, <1>4, SameDisk DEF SourceInv
<1>6. FilesInv'  BY <1>1 DEF FilesInv
<1>7. WritingInv'  BY <1>1 DEF WritingInv, Source!idle
<1>8. SourceInv'  BY <1>1, <1>3, <1>4, <1>5, <1>6, <1>7 DEF SourceInv
<1>9. Source!ReadStep
  <2>1. told' = [op |-> read.op, key |-> read.key, full |-> read.full,
                 value |-> Source!truth(network, read.op, read.key, read.full)]
    BY <1>1 DEF Source!answered, Source!fetched
  <2> QED  BY <1>1, <2>1, Tells
<1> QED  BY <1>1, <1>3, <1>8, <1>9 DEF GoodStep, RestartKeeps

\* A file that is created, and is empty as yet.
LEMMA CreateFileIsGood ==
  ASSUME SourceInv, NEW read \in Source!Reads, Source!CreateFile(read) PROVE GoodStep
<1> SUFFICES ASSUME NEW type, type = read.type, NEW key, key = Source!keyFor(read),
                    NEW value, value = Source!fetched(read)
             PROVE  GoodStep
  OBVIOUS
<1>1. /\ Source!idle /\ read.cached = {} /\ Source!kept(read) /\ Source!onDisk(type)
      /\ UNCHANGED <<remote, network, shared, told, config, cache, lost, runs>>
      /\ disk' = [disk EXCEPT ![type] = Source!with(@, key, Torn)]
      /\ writing' = [read |-> read, key |-> key, value |-> value]
  BY DEF Source!CreateFile, Source!Keep
<1>2. Kept(read, type, key, value)  BY <1>1, KeptFacts DEF SourceInv
<1>3. type \in Source!Types \ {"confirmed_tokens"}
  BY <1>1, <1>2 DEF Source!onDisk, Kept
<1>4. RemoteInv' /\ Grows  BY <1>1, SameGrows DEF SourceInv
<1>5. EntriesInv' /\ IndexInv' /\ NeverRegresses  BY <1>1, <1>4, SameCache DEF SourceInv
<1>6. FileWritten(type, key, Torn)
  <2>1. DOMAIN disk = Source!Types  BY DEF SourceInv, DiskInv
  <2>2. /\ DOMAIN disk' = DOMAIN disk
        /\ \A t \in DOMAIN disk : t # type => disk'[t] = disk[t]
        /\ disk'[type] = Source!with(disk[type], key, Torn)
    BY <1>1, <1>3, <2>1
  <2> QED  BY <2>2 DEF FileWritten, Source!with
<1>7. DiskInv'  BY <1>3, <1>4, <1>6, WriteKeeps DEF SourceInv
<1>8. FilesInv'
  <2> SUFFICES ASSUME config.kind = "disk", ~lost,
                      NEW t \in Source!Types \ {"confirmed_tokens"},
                      NEW k \in DOMAIN cache.entries[t]
               PROVE  k \in DOMAIN disk'[t] /\ disk'[t][k] \in {Torn, cache.entries[t][k]}
    BY <1>1 DEF FilesInv
  <2>1. k \in DOMAIN disk[t] /\ disk[t][k] \in {Torn, cache.entries[t][k]}
    BY DEF SourceInv, FilesInv
  <2>2. t \in DOMAIN disk  BY DEF SourceInv, DiskInv
  <2> QED  BY <1>6, <2>1, <2>2 DEF FileWritten
<1>9. WritingInv'
  <2>1. writing'.read = read /\ writing'.key = key /\ writing'.value = value  BY <1>1
  <2>2. value \in Source!given(network, read.op, read.key, read.full)'
    <3>1. value \in Source!given(network, read.op, read.key, read.full) /\ read.op \in Operations
      BY <1>2 DEF Kept
    <3>2. Source!given(network, read.op, read.key, read.full)
            \subseteq Source!given(network, read.op, read.key, read.full)'
      <4>1. network \in Networks  BY DEF SourceInv
      <4>2. Source!given(network, read.op, read.key, read.full)
              = Source!given(network, read.op, read.key, read.full)'
        BY <1>1 DEF Source!given, Source!block, Source!minedAt
      <4> QED  BY <4>2
    <3> QED  BY <3>1, <3>2
  <2>3. Entry(network, type, key, value)'
    <3>1. Entry(network, type, key, value)  BY <1>2 DEF Kept
    <3>2. Entry(network, type, key, value)'
      BY <1>1, <1>3, <1>4, <3>1, EntryGrows DEF SourceInv
    <3> QED  BY <3>2
  <2>4. key \in DOMAIN disk'[type] /\ disk'[type][key] = Torn  BY <1>6 DEF FileWritten
  <2>5. key \in DOMAIN cache'.entries[type] =>
          Source!later(type, cache'.entries[type][key], value)
    BY <1>1, <1>2 DEF Kept
  <2>6. read.op \in Operations  BY <1>2 DEF Kept
  <2> QED  BY <1>3, <2>1, <2>2, <2>3, <2>4, <2>5, <2>6 DEF WritingInv
<1>10. SourceInv'  BY <1>1, <1>4, <1>5, <1>7, <1>8, <1>9 DEF SourceInv
<1> QED  BY <1>1, <1>5, <1>10 DEF GoodStep, RestartKeeps

\* A read that ends, its file written or not.
LEMMA FinishReadIsGood ==
  ASSUME SourceInv, NEW writes \in BOOLEAN, Source!FinishRead(writes) PROVE GoodStep
<1> SUFFICES ASSUME NEW read, read = writing.read, NEW type, type = read.type,
                    NEW key, key = writing.key, NEW value, value = writing.value
             PROVE  GoodStep
  OBVIOUS
<1>1. /\ writing # None /\ writing' = None
      /\ UNCHANGED <<remote, network, shared, config, lost, runs>>
      /\ Source!answered(read, value) /\ cache' = Source!inserted(type, key, value)
      /\ disk' = IF writes THEN [disk EXCEPT ![type][key] = value] ELSE disk
  BY DEF Source!FinishRead, Source!idle
<1>2. /\ read.op \in Operations
      /\ value \in Source!given(network, read.op, read.key, read.full)
      /\ type \in Source!Types \ {"confirmed_tokens"} /\ Entry(network, type, key, value)
      /\ key \in DOMAIN disk[type] /\ disk[type][key] = Torn
      /\ key \in DOMAIN cache.entries[type] =>
           Source!later(type, cache.entries[type][key], value)
  BY <1>1 DEF SourceInv, WritingInv
<1>3. /\ EntriesInv' /\ IndexInv' /\ NeverRegresses
      /\ \A t \in Source!Types : t # type => cache'.entries[t] = cache.entries[t]
      /\ \A k \in DOMAIN cache'.entries[type] :
           k # key => /\ k \in DOMAIN cache.entries[type]
                      /\ cache'.entries[type][k] = cache.entries[type][k]
      /\ key \in DOMAIN cache'.entries[type] /\ cache'.entries[type][key] = value
  BY <1>1, <1>2, InsertKeeps DEF SourceInv
<1>4. RemoteInv' /\ Grows  BY <1>1, SameGrows DEF SourceInv
<1>5. /\ DOMAIN disk = Source!Types
      /\ DOMAIN disk' = DOMAIN disk
      /\ \A t \in DOMAIN disk : t # type => disk'[t] = disk[t]
      /\ DOMAIN disk'[type] = DOMAIN disk[type]
      /\ \A k \in DOMAIN disk[type] : k # key => disk'[type][k] = disk[type][k]
      /\ disk'[type][key] = IF writes THEN value ELSE Torn
  <2>1. DOMAIN disk = Source!Types  BY DEF SourceInv, DiskInv
  <2>2. CASE writes = TRUE
    <3>1. disk' = [disk EXCEPT ![type] = [disk[type] EXCEPT ![key] = value]]  BY <1>1, <2>2
    <3>2. disk'[type] = [disk[type] EXCEPT ![key] = value]  BY <1>2, <2>1, <3>1
    <3>3. DOMAIN disk'[type] = DOMAIN disk[type]  BY <3>2
    <3>4. disk'[type][key] = value  BY <1>2, <3>2
    <3>5. \A k \in DOMAIN disk[type] : k # key => disk'[type][k] = disk[type][k]  BY <3>2
    <3>6. DOMAIN disk' = DOMAIN disk /\ \A t \in DOMAIN disk : t # type => disk'[t] = disk[t]
      BY <3>1
    <3> QED  BY <2>1, <2>2, <3>3, <3>4, <3>5, <3>6
  <2>3. CASE writes = FALSE  BY <1>1, <1>2, <2>1, <2>3
  <2> QED  BY <2>2, <2>3
<1>6. DiskInv'
  <2>1. CASE writes = TRUE
    <3>1. FileWritten(type, key, value)  BY <1>2, <1>5, <2>1 DEF FileWritten
    <3>2. network \in Networks  BY DEF SourceInv
    <3> QED  BY <1>2, <1>4, <3>1, <3>2, WriteKeeps DEF SourceInv
  <2>2. CASE writes = FALSE  BY <1>1, <1>4, <2>2, SameDisk DEF SourceInv
  <2> QED  BY <2>1, <2>2
<1>7. FilesInv'
  <2> SUFFICES ASSUME config.kind = "disk", ~lost,
                      NEW t \in Source!Types \ {"confirmed_tokens"},
                      NEW k \in DOMAIN cache'.entries[t]
               PROVE  k \in DOMAIN disk'[t] /\ disk'[t][k] \in {Torn, cache'.entries[t][k]}
    BY <1>1 DEF FilesInv
  <2>1. CASE t = type /\ k = key  BY <1>2, <1>3, <1>5, <2>1
  <2>2. CASE t # type \/ k # key
    <3>1. k \in DOMAIN cache.entries[t] /\ cache'.entries[t][k] = cache.entries[t][k]
      BY <1>3, <2>2
    <3>2. k \in DOMAIN disk[t] /\ disk[t][k] \in {Torn, cache.entries[t][k]}
      BY <3>1 DEF SourceInv, FilesInv
    <3>3. k \in DOMAIN disk'[t] /\ disk'[t][k] = disk[t][k]
      BY <1>5, <2>2, <3>2
    <3> QED  BY <3>1, <3>2, <3>3
  <2> QED  BY <2>1, <2>2
<1>8. WritingInv'  BY <1>1 DEF WritingInv
<1>9. SourceInv'  BY <1>1, <1>3, <1>4, <1>6, <1>7, <1>8 DEF SourceInv
<1>10. Source!ReadStep
  <2>1. told' = [op |-> read.op, key |-> read.key, full |-> read.full, value |-> value]
    BY <1>1 DEF Source!answered
  <2>2. network \in Networks  BY DEF SourceInv
  <2> QED  BY <1>1, <1>2, <2>1, <2>2, Tells
<1> QED  BY <1>1, <1>3, <1>9, <1>10 DEF GoodStep, RestartKeeps

\* A node that starts with a disk cache, on the files as they are or on none.
LEMMA RestartIsGood ==
  ASSUME SourceInv, NEW w \in Networks, NEW c \in Configs, Source!Restart(w, c)
  PROVE  GoodStep
<1>1. /\ Source!Start(c) /\ network' = w /\ config' = c /\ shared' = Source!foreign(w)
      /\ told' = <<>> /\ writing' = None /\ lost' = FALSE /\ runs' = runs + 1
      /\ UNCHANGED remote
  BY DEF Source!Restart
<1>2. RemoteInv' /\ Grows  BY <1>1, SameGrows DEF SourceInv
<1>3. runs' \in Nat /\ runs' # runs /\ network' \in Networks  BY <1>1 DEF SourceInv
<1>4. shared' \in BOOLEAN  BY <1>1 DEF Source!foreign
<1>5. Source!ReadStep  BY <1>1, <1>3, <1>4 DEF Source!ReadStep, Source!Reopen
<1>6. WritingInv'  BY <1>1 DEF WritingInv
<1>7. CASE c.kind # "disk"
  <2>1. disk' = disk /\ cache' = [block_hashes |-> <<>>, entries |-> Source!Empty]
    BY <1>1, <1>7 DEF Source!Start
  <2>2. /\ DOMAIN Source!Empty = Source!Types
        /\ \A type \in Source!Types : DOMAIN Source!Empty[type] = {}
    BY DEF Source!Empty
  <2>3. cache'.entries = Source!Empty /\ DOMAIN cache'.block_hashes = {}  BY <2>1
  <2>4. EntriesInv'  BY <2>2, <2>3 DEF EntriesInv
  <2>5. IndexInv'  BY <2>3 DEF IndexInv
  <2>6. DiskInv'  BY <1>2, <2>1, SameDisk DEF SourceInv
  <2>7. FilesInv'  BY <1>1, <1>7 DEF FilesInv
  <2>8. SourceInv'  BY <1>2, <1>3, <1>4, <1>6, <2>4, <2>5, <2>6, <2>7 DEF SourceInv
  <2> QED  BY <1>1, <1>3, <1>5, <1>7, <2>8 DEF GoodStep, RestartKeeps
<1>8. CASE c.kind = "disk"
  <2>1. disk' = IF c.reset THEN Source!Empty ELSE disk  BY <1>1, <1>8, StartLoads DEF SourceInv
  <2>2. PICK loaded : Loads(disk', loaded)  BY <1>1, <1>8, StartLoads DEF SourceInv
  <2>3. DiskInv'
    <3>1. CASE c.reset
      <4>1. disk' = Source!Empty  BY <2>1, <3>1
      <4>2. /\ DOMAIN Source!Empty = Source!Types
            /\ \A type \in Source!Types : DOMAIN Source!Empty[type] = {}
        BY DEF Source!Empty
      <4> QED  BY <4>1, <4>2, TypeNames DEF DiskInv
    <3>2. CASE ~c.reset  BY <1>2, <2>1, <3>2, SameDisk DEF SourceInv
    <3> QED  BY <3>1, <3>2
  <2>4. shared' = Source!foreign(network')  BY <1>1
  <2>5. EntriesInv' /\ IndexInv'
    BY <1>1, <1>2, <1>3, <2>2, <2>3, <2>4, LoadedIsGiven DEF SourceInv
  <2>6. /\ DOMAIN cache'.entries = Source!Types
        /\ \A type \in Source!Types :
             /\ DOMAIN cache'.entries[type] = loaded[type]
             /\ loaded[type] \subseteq DOMAIN disk'[type]
             /\ \A key \in loaded[type] : cache'.entries[type][key] = disk'[type][key]
    BY <2>2 DEF Loads, Source!loadedEntries, Source!whole
  <2>7. FilesInv'  BY <2>6 DEF FilesInv
  <2>8. SourceInv'  BY <1>2, <1>3, <1>4, <1>6, <2>3, <2>5, <2>7 DEF SourceInv
  <2>9. RestartKeeps
    <3> SUFFICES ASSUME config.kind = "disk", ~c.reset, ~lost, Source!tornTypes(disk) = {}
                 PROVE  /\ \A type \in Source!Types \ {"confirmed_tokens"} :
                             Source!entriesOf(cache, type) \subseteq Source!entriesOf(cache', type)
                        /\ DOMAIN cache.block_hashes \subseteq DOMAIN cache'.block_hashes
      BY <1>1 DEF RestartKeeps
    <3>1. disk' = disk  BY <2>1
    <3>2. ASSUME NEW type \in Source!Types \ {"confirmed_tokens"},
                 NEW key \in DOMAIN cache.entries[type]
          PROVE  /\ key \in loaded[type] /\ key \in DOMAIN cache'.entries[type]
                 /\ cache'.entries[type][key] = cache.entries[type][key]
                 /\ disk[type][key] = cache.entries[type][key]
      <4>1. key \in DOMAIN disk[type] /\ disk[type][key] \in {Torn, cache.entries[type][key]}
        BY <3>2 DEF SourceInv, FilesInv
      <4>2. loaded[type] = DOMAIN disk[type]  BY <2>2, <3>1, <3>2 DEF Loads
      <4>3. loaded[type] \subseteq Source!whole(disk, type)  BY <2>2, <3>1 DEF Loads
      <4>4. disk[type][key] # Torn  BY <4>1, <4>2, <4>3 DEF Source!whole
      <4> QED  BY <2>6, <3>1, <4>1, <4>2, <4>4
    <3>3. ASSUME NEW type \in Source!Types \ {"confirmed_tokens"}
          PROVE  Source!entriesOf(cache, type) \subseteq Source!entriesOf(cache', type)
      BY <3>2 DEF Source!entriesOf
    <3>4. ASSUME NEW n \in DOMAIN cache.block_hashes PROVE n \in DOMAIN cache'.block_hashes
      <4> DEFINE hash == cache.block_hashes[n]
      <4>1. PICK type \in BlockTypes :
              hash \in DOMAIN cache.entries[type] /\ cache.entries[type][hash].number = n
        BY DEF SourceInv, IndexInv
      <4>2. type \in Source!Types \ {"confirmed_tokens"}  BY TypeNames DEF BlockTypes
      <4>3. PICK v \in Networks : Entry(v, type, hash, cache.entries[type][hash])
        BY <4>1, <4>2 DEF SourceInv, EntriesInv
      <4>4. BlockEntry(v, type, hash, cache.entries[type][hash])
        BY <4>2, <4>3, EntryFacts DEF SourceInv
      <4>5. n \in 1 .. MaxBlock  BY <4>1, <4>4 DEF BlockEntry
      <4>6. hash \in loaded[type] /\ disk[type][hash] = cache.entries[type][hash]
        BY <3>2, <4>1, <4>2
      <4>7. hash \in Source!hashesOf(disk, loaded, type, n)
        BY <4>1, <4>6 DEF Source!hashesOf
      <4> DEFINE full == Source!hashesOf(disk, loaded, "blocks_full", n)
                 min == Source!hashesOf(disk, loaded, "blocks_min", n)
      <4>8. hash \in min \cup full  BY <4>7 DEF BlockTypes
      <4>9. n \notin DOMAIN cache'.block_hashes => min \cup full = {}
        BY <2>2, <3>1, <4>5 DEF Loads, Source!isIndex
      <4> QED  BY <4>8, <4>9
    <3> QED  BY <3>3, <3>4
  <2> QED  BY <1>3, <1>5, <2>8, <2>9 DEF GoodStep
<1> QED  BY <1>7, <1>8

\* Every step is one of these.
LEMMA EveryStepIsGood ==
  ASSUME SourceInv, [Source!Next]_(Source!vars) PROVE GoodStep
<1>1. ASSUME NEW read \in Source!Reads,
             \/ Source!Hit(read) \/ Source!PassOn(read) \/ Source!KeepInMemory(read)
             \/ Source!CreateFile(read) \/ Source!CreateFails(read)
      PROVE  GoodStep
  BY <1>1, HitIsGood, PassOnIsGood, KeepInMemoryIsGood, CreateFileIsGood, CreateFailsIsGood
<1>2. CASE Source!RequestFails  BY <1>2, StutterIsGood DEF Source!RequestFails
<1>3. CASE \E writes \in BOOLEAN : Source!FinishRead(writes)  BY <1>3, FinishReadIsGood
<1>4. CASE \E w \in Networks, c \in Configs : Source!Restart(w, c)  BY <1>4, RestartIsGood
<1>5. CASE Source!Grow /\ UNCHANGED <<network, shared, told, config, cache, disk, writing,
                                     lost, inserts, runs>>
  BY <1>5, GrowIsGood
<1>6. CASE UNCHANGED Source!vars  BY <1>6, StutterIsGood
<1> QED  BY <1>1, <1>2, <1>3, <1>4, <1>5, <1>6 DEF Source!Next

-----------------------------------------------------------------------------
(***************************************************************************)
(* Theorems.                                                               *)
(***************************************************************************)

(* Whatever is cached, lost, torn or loaded again: what HttpForkSource     *)
(* keeps in memory and in files is what its network answered of the key.   *)
THEOREM SourceInvariant == Source!Spec => []SourceInv
<1>1. Source!Init => SourceInv  BY SourceStarts
<1>2. SourceInv /\ [Source!Next]_(Source!vars) => SourceInv'  BY EveryStepIsGood DEF GoodStep
<1> QED  BY <1>1, <1>2, PTL DEF Source!Spec

(* HttpForkSource with its Cache is a reader of the network it forks: it   *)
(* tells nothing the network does not answer or has not answered.          *)
THEOREM SourceIsReader == Source!Spec => Reader
<1>1. Source!Init => Source!RemoteInit  BY DEF Source!Init
<1>2. SourceInv /\ [Source!Next]_(Source!vars)
        => [Source!ReadStep]_<<remote, network, shared, told>>
  BY EveryStepIsGood DEF GoodStep
<1> QED  BY <1>1, <1>2, SourceInvariant, PTL DEF Source!Spec, Reader, Source!Reader

(* Cache::new on the directory of an earlier run finds every entry that    *)
(* was cached and whose file was written.                                  *)
THEOREM RestartsKeepCache == Source!Spec => RestartKeepsCache
<1>1. SourceInv /\ [Source!Next]_(Source!vars) => [RestartKeeps]_(Source!vars)
  BY EveryStepIsGood DEF GoodStep
<1> QED
  BY <1>1, SourceInvariant, PTL
  DEF Source!Spec, RestartKeepsCache, Source!RestartKeepsCache, RestartKeeps

(* Within a run the Cache goes back to no earlier answer.                  *)
THEOREM CacheNeverGoesBack == Source!Spec => CacheNeverRegresses
<1>1. SourceInv /\ [Source!Next]_(Source!vars)
        => [runs' = runs => NeverRegresses]_(Source!vars)
  BY EveryStepIsGood DEF GoodStep
<1> QED
  BY <1>1, SourceInvariant, PTL
  DEF Source!Spec, CacheNeverRegresses, Source!CacheNeverRegresses, NeverRegresses
=============================================================================
