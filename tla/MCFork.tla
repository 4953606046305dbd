------------------------------- MODULE MCFork -------------------------------
(***************************************************************************)
(* What a forked node reads.                                               *)
(*                                                                         *)
(* ForkStorage with a key that is written over the network's zero, and one *)
(* of the node's genesis that is set to zero over a value of the network.  *)
(*                                                                         *)
(* ForkSource for a network that grows and one that does not, of a block   *)
(* and a transaction each, and a directory they may come to share.         *)
(***************************************************************************)
EXTENDS ForkStorage

CONSTANTS networkA, networkB, txA, txB, key1, key2, hash1

CONSTANTS Networks, TransactionsOf, Growing, Pages, Configs,
          MaxBlock, MaxTokens, MaxInserts, MaxRuns, Torn   \* of ForkSource

VARIABLES remote, network, shared, told, config, cache, disk, writing, lost, inserts, runs

ASSUME StorageAssumption

MCKeys == {key1, key2}
MCRemoteValue == [k \in MCKeys |-> IF k = key2 THEN 2 ELSE 0]
MCGenesisState == [k \in {key2} |-> 1]
MCValues == [k \in MCKeys |-> IF k = key1 THEN {3} ELSE {0}]
MCHashOf == [v \in {3} |-> hash1]

MCTransactionsOf == [w \in {networkA, networkB} |-> IF w = networkA THEN {txA} ELSE {txB}]
MCPages == {<<0, 1>>}
MCConfigs == {[kind |-> "none", reset |-> FALSE],
              [kind |-> "disk", reset |-> FALSE], [kind |-> "disk", reset |-> TRUE]}

Source == INSTANCE ForkSource WITH answer <- told

ASSUME NetworkAssumption == Source!NetworkAssumption

-----------------------------------------------------------------------------
sourceVars == <<remote, network, shared, told, config, cache, disk, writing, lost, inserts, runs>>

(* Nothing is read through the one or through the other. *)
NoSource == /\ Source!RemoteInit /\ network = networkA
            /\ config = [kind |-> "none", reset |-> FALSE]
            /\ cache = [block_hashes |-> <<>>, entries |-> Source!Empty]
            /\ disk = Source!Empty /\ writing = None /\ lost = FALSE /\ inserts = 0 /\ runs = 0
NoStorage == /\ fork = FALSE /\ published = {} /\ view = None /\ snapshot = None
             /\ inner = [state |-> GenesisState, factory_deps |-> GenesisDeps,
                         value_read_cache |-> <<>>, factory_dep_cache |-> <<>>]
             /\ poisoned = FALSE /\ answer = None /\ asked = <<>>

(* A second run without a cache would be as a first one, and one on the    *)
(* network that does not grow would be told less than one on the other.    *)
MCNext ==
  \/ /\ runs # 0 /\ Source!Next /\ UNCHANGED vars
     /\ runs' # runs => config'.kind = "disk" /\ network' = networkA
  \/ runs = 0 /\ Next /\ UNCHANGED sourceVars

(* The directory of the first run is empty: there is nothing to reset. *)
MCSpec ==
  /\ (Source!Init /\ ~config.reset /\ NoStorage) \/ (NoSource /\ Init)
  /\ [][MCNext]_<<vars, sourceVars>>

-----------------------------------------------------------------------------
(* A forked node is told what the network answers or answered.             *)
Reader == Source!Reader

(* A restart on the same directory finds what was written.                 *)
RestartKeepsCache == Source!RestartKeepsCache

(* What was told is replaced only by what is later.                        *)
CacheNeverRegresses == Source!CacheNeverRegresses
=============================================================================
