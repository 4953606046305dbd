--------------------------- MODULE OverlayStorage ---------------------------
(***************************************************************************)
(* What the storage of a test node promises: a value and a code for each   *)
(* key, private writes while a batch is executed, which are taken over all *)
(* together or not at all, and snapshots.  Where the values come from, the *)
(* local storage, the fork or a cache, is not seen.                        *)
(*                                                                         *)
(* One exception is part of the promise: on a fork, a key that is set to   *)
(* zero is read as the fork's value.                                       *)
(***************************************************************************)
EXTENDS Integers

CONSTANTS Keys,
          Values,           \* [Keys -> what is written]
          Hashes,           \* of bytecodes
          RemoteValue,      \* [Keys -> Nat], at the forked block
          GenesisState,     \* the values a node starts with
          GenesisDeps,      \* the bytecodes it starts with
          HashOf,           \* [the values that are hashes of bytecodes -> Hashes]
          None

VARIABLES
  base,      \* [Keys -> Nat]: what a key reads as when it holds zero
  value,     \* [Keys -> Nat]
  written,   \* the keys that were written here
  codes,     \* the bytecodes that were stored here
  pending,   \* the writes of the batch that is executed, or None
  saved,     \* a snapshot, or None
  answer     \* the last answer

vars == <<base, value, written, codes, pending, saved, answer>>

Init ==
  /\ base \in {[k \in Keys |-> 0], RemoteValue}
  /\ written = DOMAIN GenesisState
  /\ value = [k \in Keys |-> IF k \in written /\ GenesisState[k] # 0 THEN GenesisState[k] ELSE base[k]]
  /\ codes = GenesisDeps
  /\ pending = None /\ saved = None /\ answer = None

seen(key) == IF pending # None /\ key \in DOMAIN pending THEN pending[key] ELSE value[key]

Read(key) ==
  /\ answer' = [op |-> "read", key |-> key, value |-> seen(key)]
  /\ UNCHANGED <<base, value, written, codes, pending, saved>>

(* Whether a write would be the first: the writes of the batch do not count. *)
AskInitial(key) ==
  /\ answer' = [op |-> "initial", key |-> key, initial |-> value[key] = 0 /\ key \notin written]
  /\ UNCHANGED <<base, value, written, codes, pending, saved>>

(* A bytecode that was stored is found; of others the fork decides. *)
Load(hash) ==
  /\ \E found \in BOOLEAN :
       /\ hash \in codes => found
       /\ answer' = [op |-> "load", hash |-> hash, found |-> found]
  /\ UNCHANGED <<base, value, written, codes, pending, saved>>

(* The bytecode a key's value is the hash of. *)
ReadCode(key) ==
  /\ \E found \in BOOLEAN :
       /\ IF value[key] \in DOMAIN HashOf THEN HashOf[value[key]] \in codes => found ELSE ~found
       /\ answer' = [op |-> "code", key |-> key, found |-> found]
  /\ UNCHANGED <<base, value, written, codes, pending, saved>>

(* Several keys, as they are at one time. *)
ReadBalances(keys) ==
  /\ answer' = [op |-> "balances", of |-> [k \in {k \in keys : value[k] # 0} |-> value[k]]]
  /\ UNCHANGED <<base, value, written, codes, pending, saved>>

Store(hash) ==
  /\ codes' = codes \cup {hash}
  /\ UNCHANGED <<base, value, written, pending, saved, answer>>

Begin ==
  /\ pending = None /\ pending' = <<>>
  /\ UNCHANGED <<base, value, written, codes, saved, answer>>

Write(key, v) ==
  /\ pending # None
  /\ pending' = [k \in DOMAIN pending \cup {key} |-> IF k = key THEN v ELSE pending[k]]
  /\ answer' = [op |-> "write", key |-> key, original |-> seen(key)]
  /\ UNCHANGED <<base, value, written, codes, saved>>

Commit ==
  /\ pending # None
  /\ value' = [k \in Keys |-> IF k \notin DOMAIN pending THEN value[k]
                              ELSE IF pending[k] = 0 THEN base[k] ELSE pending[k]]
  /\ written' = written \cup DOMAIN pending
  /\ pending' = None
  /\ UNCHANGED <<base, codes, saved, answer>>

Discard ==
  /\ pending # None /\ pending' = None
  /\ UNCHANGED <<base, value, written, codes, saved, answer>>

Save ==
  /\ pending = None
  /\ saved' = [value |-> value, written |-> written, codes |-> codes]
  /\ UNCHANGED <<base, value, written, codes, pending, answer>>

Restore ==
  /\ pending = None /\ saved # None
  /\ value' = saved.value /\ written' = saved.written /\ codes' = saved.codes
  /\ saved' = None
  /\ UNCHANGED <<base, pending, answer>>

Next ==
  \/ \E key \in Keys : Read(key) \/ ReadCode(key) \/ AskInitial(key) \/ \E v \in Values[key] : Write(key, v)
  \/ \E hash \in Hashes : Load(hash) \/ Store(hash)
  \/ \E keys \in SUBSET Keys : ReadBalances(keys)
  \/ Begin \/ Commit \/ Discard \/ Save \/ Restore

Spec == Init /\ [][Next]_vars
=============================================================================
