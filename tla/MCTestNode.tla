----------------------------- MODULE MCTestNode -----------------------------
(***************************************************************************)
(* TestNode on its own, on a fork and replaying a transaction: two signed  *)
(* transactions that overwrite each other's slot and log at different      *)
(* addresses, one for an impersonated account that writes zero, one whose *)
(* gas limit is too high, and a network of four blocks: the third holds    *)
(* the first two the other way round, the last one that paid less than the *)
(* node's base fee.  The second has no chain id in its bytes, the last is  *)
(* without them.                                                           *)
(***************************************************************************)
EXTENDS NodeApi, TLC

CONSTANTS t1, t2, t3, t4, r0, r1, alice, bob, carol, a1, a2, topicA, topicB

MCTransactions == {t1, t2, t3, t4, r0, r1}
MCSent == {t1, t2, t3, t4}
MCSigned == {t1, t2, t4, r0, r1}
MCAccounts == {alice, bob, carol}
MCFrom == (t1 :> alice) @@ (t2 :> bob) @@ (t3 :> carol) @@ (t4 :> alice) @@ (r0 :> carol) @@ (r1 :> carol)
MCNonce == [t \in MCTransactions |-> IF t = r1 THEN 1 ELSE 0]
MCFee ==
    [t \in MCTransactions |->
        [gas_limit |-> IF t = t4 THEN 2 ELSE 1, gas_per_pubdata |-> 1,
         max_fee |-> IF t = r1 THEN 0 ELSE 1, max_priority |-> 0]]
MCWrites ==
    (t1 :> (bob :> 1)) @@ (t2 :> (bob :> 2)) @@ (t3 :> (bob :> 0))
    @@ (t4 :> (bob :> 4)) @@ (r0 :> (bob :> 7)) @@ (r1 :> (bob :> 8))

MCLogs ==
    (t1 :> <<[address |-> a1, topics |-> <<topicA>>], [address |-> a2, topics |-> <<>>]>>)
    @@ (t2 :> <<[address |-> a1, topics |-> <<topicA, topicB>>]>>)
    @@ (t3 :> <<>>) @@ (t4 :> <<>>) @@ (r0 :> <<>>) @@ (r1 :> <<>>)

MCInput ==
    [t \in MCTransactions |->
        IF t = r1 THEN {} ELSE {[chain_id |-> IF t = t2 THEN {} ELSE {260}]}]

MCRemoteGenesis == [s \in MCAccounts |-> 0]
MCRemoteBlocks ==
    <<[transactions |-> <<>>, timestamp |-> 3, batch |-> 1],
      [transactions |-> <<r0>>, timestamp |-> 5, batch |-> 2],
      [transactions |-> <<t2, t1>>, timestamp |-> 7, batch |-> 2],
      [transactions |-> <<r1>>, timestamp |-> 9, batch |-> 3]>>

MCStarts == {[command |-> "run", contracts |-> "BuiltIn"],
             [command |-> "fork", contracts |-> "Local", at |-> {2}],
             [command |-> "replay", contracts |-> "BuiltInWithoutSecurity", tx |-> t1],
             [command |-> "replay", contracts |-> "BuiltIn", tx |-> r1]}

MCBounds ==
    [run |-> [blocks |-> 5, events |-> 4, settings |-> 1, filters |-> 1, snapshots |-> 1],
     fork |-> [blocks |-> 4, events |-> 5, settings |-> 1, filters |-> 0, snapshots |-> 2],
     replay |-> [blocks |-> 5, events |-> 3, settings |-> 0, filters |-> 0, snapshots |-> 0]]

MCBalances == {<<bob, 3>>}
MCNonces == {<<alice, 1>>}
MCCodes == {<<alice, 1>>}

\* From a block on, with an address and two topics.
MCLogFilters ==
    {[from_block |-> [tag |-> "number", number |-> 2],
      to_block |-> [tag |-> "latest", number |-> 0],
      addresses |-> {a1}, topics |-> <<{topicA}, {topicB}>>]}

(* The network is one of those that ReplayReachesNetwork is proved of. *)
ASSUME ReplayAssumption == NetworkIsExecuted /\ NothingIsCleared
=============================================================================
