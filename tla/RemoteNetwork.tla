---------------------------- MODULE RemoteNetwork ----------------------------
(***************************************************************************)
(* The networks a test node can fork, and what a reader of the one it      *)
(* forked may be told.  A network grows while it is read: transactions     *)
(* wait, are mined, their block is sealed into a batch; tokens are listed. *)
(*                                                                         *)
(* The specification here is that of a fork source: a reader of network    *)
(* `network` is told what the network answers now or answered before.      *)
(***************************************************************************)
EXTENDS Integers, Sequences, FiniteSets

CONSTANTS Networks,
          TransactionsOf,   \* [Networks -> set of transaction hashes]
          Growing,          \* the networks that change while they are read
          MaxBlock, MaxTokens,
          Pages,            \* <<from, limit>> of get_confirmed_tokens
          None

(* What the constants are assumed to be. *)
NetworkAssumption ==
  /\ Growing \subseteq Networks /\ MaxBlock \in Nat \ {0} /\ MaxTokens \in Nat
  /\ \A v, w \in Networks : v # w => TransactionsOf[v] \cap TransactionsOf[w] = {}

VARIABLES
  remote,    \* [Networks -> [blocks, pending, tokens]]
  network,   \* the network that is read
  shared,    \* whether the reader was given what another network answered
  answer     \* the last answer, <<>> before there is one

Transactions == UNION {TransactionsOf[w] : w \in Networks}

-----------------------------------------------------------------------------
(* Answers.  They name the network they come from. *)
transaction(w, t, number) == [network |-> w, hash |-> t, number |-> number]
blockHash(w, number) == <<w, number>>
block(w, number, sealed, full) ==
  [network |-> w, hash |-> blockHash(w, number), number |-> number,
   transactions |-> remote[w].blocks[number].transactions,
   sealed |-> sealed, full |-> full]
page(w, count, range) ==
  {<<w, i>> : i \in {i \in 1..count : range[1] < i /\ i <= range[1] + range[2]}}

minedAt(w, t) == {n \in DOMAIN remote[w].blocks : t \in remote[w].blocks[n].transactions}

(* What network w has answered to a request so far, None left out. *)
given(w, op, key, full) ==
  LET exists(n) == n \in DOMAIN remote[w].blocks
      blocks(n) == {block(w, n, s, full) : s \in {FALSE, remote[w].blocks[n].sealed}}
  IN  CASE op = "transaction" ->
             {transaction(w, key[1], n) : n \in minedAt(w, key[1])}
             \cup (IF key[1] \in remote[w].pending \/ minedAt(w, key[1]) # {}
                     THEN {transaction(w, key[1], 0)} ELSE {})
        [] op = "raw" ->
             IF exists(key[1]) THEN {[network |-> w, number |-> key[1],
                                      transactions |-> remote[w].blocks[key[1]].transactions]}
             ELSE {}
        [] op = "blockByHash" -> IF key[1] = w /\ exists(key[2]) THEN blocks(key[2]) ELSE {}
        [] op = "blockByNumber" -> IF exists(key[1]) THEN blocks(key[1]) ELSE {}
        [] op = "latestBlock" -> UNION {blocks(n) : n \in DOMAIN remote[w].blocks}
        [] op = "bridges" -> {w}
        [] op = "tokens" -> {page(w, count, key) : count \in 0..remote[w].tokens}

(* What network w answers now. *)
truth(w, op, key, full) ==
  LET found(n) == block(w, n, remote[w].blocks[n].sealed, full)
      head == Len(remote[w].blocks)
      exists(n) == n \in 1..head
  IN  CASE op = "transaction" ->
             IF minedAt(w, key[1]) # {} THEN transaction(w, key[1], CHOOSE n \in minedAt(w, key[1]) : TRUE)
             ELSE IF key[1] \in remote[w].pending THEN transaction(w, key[1], 0) ELSE None
        [] op = "raw" ->
             IF exists(key[1]) THEN [network |-> w, number |-> key[1],
                                     transactions |-> remote[w].blocks[key[1]].transactions]
             ELSE None
        [] op = "blockByHash" -> IF key[1] = w /\ exists(key[2]) THEN found(key[2]) ELSE None
        [] op = "blockByNumber" -> IF exists(key[1]) THEN found(key[1]) ELSE None
        [] op = "latestBlock" -> IF head > 0 THEN found(head) ELSE None
        [] op = "bridges" -> w
        [] op = "tokens" -> page(w, remote[w].tokens, key)

-----------------------------------------------------------------------------
RemoteInit ==
  /\ \E w \in Networks :
       /\ network = w
       /\ remote = [v \in Networks |->
            IF v \in Growing THEN [blocks |-> <<>>, pending |-> {}, tokens |-> 0]
            ELSE [blocks |-> <<[transactions |-> TransactionsOf[v], sealed |-> TRUE]>>,
                  pending |-> {}, tokens |-> MaxTokens]]
  /\ shared = FALSE
  /\ answer = <<>>

grow(w, r) == remote' = [remote EXCEPT ![w] = r]

Submit(w, t) ==
  /\ t \notin remote[w].pending /\ minedAt(w, t) = {}
  /\ grow(w, [remote[w] EXCEPT !.pending = @ \cup {t}])

Mine(w) ==
  /\ Len(remote[w].blocks) < MaxBlock
  /\ grow(w, [remote[w] EXCEPT
                !.blocks = Append(@, [transactions |-> remote[w].pending, sealed |-> FALSE]),
                !.pending = {}])

Seal(w, n) ==
  /\ ~remote[w].blocks[n].sealed
  /\ grow(w, [remote[w] EXCEPT !.blocks[n].sealed = TRUE])

ListToken(w) ==
  /\ remote[w].tokens < MaxTokens
  /\ grow(w, [remote[w] EXCEPT !.tokens = @ + 1])

Grow ==
  /\ \E w \in Growing :
       \/ \E t \in TransactionsOf[w] : Submit(w, t)
       \/ Mine(w)
       \/ \E n \in DOMAIN remote[w].blocks : Seal(w, n)
       \/ ListToken(w)

-----------------------------------------------------------------------------
(***************************************************************************)
(* The fork source as its users know it.                                   *)
(***************************************************************************)

(* Absence is never remembered; anything else may be told late, and what   *)
(* another network answered only after its answers were taken over.        *)
Tell(op, key, full) ==
  /\ \E value \in {truth(network, op, key, full)} \cup given(network, op, key, full)
                  \cup (IF shared THEN UNION {given(w, op, key, full) : w \in Networks} ELSE {}) :
       answer' = [op |-> op, key |-> key, full |-> full, value |-> value]
  /\ UNCHANGED <<remote, network, shared>>

(* A reader starts again, for the same network or another. *)
Reopen ==
  /\ network' \in Networks /\ shared' \in BOOLEAN
  /\ answer' = <<>>
  /\ UNCHANGED remote
=============================================================================
