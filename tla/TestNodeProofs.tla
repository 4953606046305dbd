--------------------------- MODULE TestNodeProofs ---------------------------
(***************************************************************************)
(* Proofs about TestNode and NodeApi, for every program of transactions,   *)
(* every network it is forked from, every start, every argument and every  *)
(* bound: the chain and the snapshots first, then what the node remembers  *)
(* of what happened, its filters, receipts, nonces and archived states,    *)
(* the answers that are read from it, and last the replay of a block.      *)
(*                                                                         *)
(* Everything that is kept is said of a node n, not of the variable node,  *)
(* because it holds of the snapshots as well: a revert brings one back.    *)
(***************************************************************************)
EXTENDS NodeApi, WellFoundedInduction, FiniteSetTheorems, TLAPS

-----------------------------------------------------------------------------
(***************************************************************************)
(* Induction over the natural numbers is stated with a set where the       *)
(* library has an operator for a parameter: NatInduction takes the         *)
(* predicate, and no prover here can instantiate it.  It is used by taking *)
(* for S the set of the numbers that have the property.                    *)
(***************************************************************************)

(* A set with 0 and with the successor of each of its numbers has every    *)
(* natural number, for there is no least one without.                      *)
LEMMA SetInduction ==
  ASSUME NEW S, 0 \in S, \A n \in S : n + 1 \in S
  PROVE  Nat \subseteq S
<1>. DEFINE T == Nat \ S
            Less == {pair \in Nat \X Nat : pair[1] < pair[2]}
<1>. SUFFICES ASSUME T # {} PROVE FALSE
  OBVIOUS
<1>1. IsWellFoundedOn(Less, Nat)
  <2>1. IsWellFoundedOn(OpToRel(<, Nat), Nat)
    BY NatLessThanWellFounded
  <2>2. OpToRel(<, Nat) = Less
    BY DEF OpToRel
  <2>. QED BY <2>1, <2>2
<1>2. PICK m \in T : \A k \in T : ~(<<k, m>> \in Less)
  <2>1. T \subseteq Nat
    OBVIOUS
  <2>. HIDE DEF T, Less
  <2>. QED BY <1>1, <2>1, WFMin
<1>3. m - 1 \in Nat /\ m - 1 < m
  BY <1>2
<1>4. m - 1 \in S
  <2>. SUFFICES ASSUME m - 1 \in T PROVE FALSE
    BY <1>3
  <2>1. <<m - 1, m>> \in Nat \X Nat /\ <<m - 1, m>>[1] = m - 1 /\ <<m - 1, m>>[2] = m
    BY <1>2, <1>3
  <2>. QED BY <1>2, <1>3, <2>1
<1>. QED BY <1>2, <1>3, <1>4

-----------------------------------------------------------------------------
(***************************************************************************)
(* Shapes.  A record with these fields, whatever they hold.                *)
(***************************************************************************)
IsNode(n) ==
    DOMAIN n = {"current_timestamp", "current_batch", "current_miniblock",
                "current_miniblock_hash", "tx_results", "blocks", "block_hashes", "filters",
                "impersonated", "rich", "previous_states", "storage", "audit"}

IsAudit(a) ==
    DOMAIN a = {"events", "stateAt", "delivered", "installedAt", "rewound", "packed", "jumped",
                "settings"}

IsStorage(s) == DOMAIN s = {"slots", "nonces", "codes", "batch", "l2_block"}

IsSequence(s) == \E S : s \in Seq(S)

Shaped(n) == IsNode(n) /\ IsAudit(n.audit) /\ IsStorage(n.storage) /\ IsSequence(n.audit.events)

(***************************************************************************)
(* The parts of the inductive invariant.                                   *)
(***************************************************************************)
blockOf(n, k) == n.blocks[n.block_hashes[k]]

(* The maps of blocks: one block for each number from the first on, under  *)
(* a hash that holds its number, so that no block takes another's place.   *)
Numbered(n) ==
    /\ n.current_miniblock \in Nat /\ first <= n.current_miniblock
    /\ DOMAIN n.block_hashes = first..n.current_miniblock
    /\ DOMAIN n.blocks = {n.block_hashes[k] : k \in first..n.current_miniblock}
    /\ \A k \in first..n.current_miniblock :
          /\ n.block_hashes[k][1] = k
          /\ blockOf(n, k).number = k /\ blockOf(n, k).hash = n.block_hashes[k]
          /\ blockOf(n, k).batch \in Nat /\ blockOf(n, k).timestamp \in Nat

Linked(n) ==
    \A k \in (first + 1)..n.current_miniblock :
        /\ blockOf(n, k).parent_hash = blockOf(n, k - 1).hash \/ orphan(blockOf(n, k))
        /\ blockOf(n, k).batch - blockOf(n, k - 1).batch \in {0, 1}

(* A transaction's block is never the last: the fictive block ends it.     *)
EndsEmpty(n) ==
    \/ n.block_hashes[n.current_miniblock] = compute_hash(n.current_miniblock, NoTransaction)
    \/ fork # NoFork /\ n.current_miniblock = fork

(* Whether blocks were mined with no interval is an argument: the node     *)
(* says so only when all of them are there.                                *)
inOrder(before, block, packed) ==
    before.timestamp < block.timestamp \/ (packed /\ before.timestamp = block.timestamp)

Ordered(n, packed) ==
    ~n.audit.rewound =>
        \A k \in (first + 1)..n.current_miniblock : inOrder(blockOf(n, k - 1), blockOf(n, k), packed)

Chain(n, packed) == Numbered(n) /\ Linked(n) /\ Ordered(n, packed)

(* The storage has the node's numbers, also before the first batch.        *)
Counted(n) ==
    /\ n.current_batch \in Nat /\ n.current_timestamp \in Nat
    /\ n.storage.batch.number = n.current_batch
    /\ n.storage.l2_block.number = n.current_miniblock
    /\ n.storage.batch.timestamp \in Nat /\ n.storage.l2_block.timestamp \in Nat
    /\ n.current_batch = 0 => n.current_miniblock = 0

latest(n) == blockOf(n, n.current_miniblock)

(* The times of the storage and of the last block are not ahead of the     *)
(* clock's.                                                                *)
isBehind(n) ==
    /\ n.storage.batch.number > 0
    /\ Max({n.storage.batch.timestamp, n.storage.l2_block.timestamp}) > n.current_timestamp

InTime(n, packed) ==
    /\ isBehind(n) => n.audit.rewound \/ packed
    /\ ~n.audit.rewound => latest(n).timestamp <= n.current_timestamp

Sound(n, packed) ==
    /\ Shaped(n) /\ Chain(n, packed) /\ Counted(n) /\ InTime(n, packed) /\ EndsEmpty(n)
    /\ latest(n).batch = n.current_batch

Good(n) == Sound(n, n.audit.packed)

(* What the later of two states of a node has kept of the earlier.         *)
Extends(old, new) ==
    /\ IsSequence(new) /\ Len(old) <= Len(new)
    /\ \A i \in 1..Len(old) : new[i] = old[i]

KeepsHashes(old, new) ==
    \A k \in DOMAIN old.block_hashes :
        k \in DOMAIN new.block_hashes /\ new.block_hashes[k] = old.block_hashes[k]

Follows(old, new) == Extends(old.audit.events, new.audit.events) /\ KeepsHashes(old, new)

-----------------------------------------------------------------------------
(***************************************************************************)
(* Sequences, maps, and the larger of two or three numbers.                *)
(***************************************************************************)

(* Appending keeps the elements and adds one.                              *)
LEMMA AppendExtends ==
  ASSUME NEW s, NEW e, IsSequence(s)
  PROVE  /\ Extends(s, Append(s, e))
         /\ Len(Append(s, e)) = Len(s) + 1 /\ Append(s, e)[Len(s) + 1] = e
<1>1. PICK S : s \in Seq(S)
  BY DEF IsSequence
<1>2. s \in Seq(S \cup {e}) /\ Append(s, e) \in Seq(S \cup {e})
  BY <1>1
<1>. QED BY <1>2 DEF Extends, IsSequence

(* Extension is transitive, and reflexive on sequences.                    *)
LEMMA ExtendsTransitive ==
  ASSUME NEW r, NEW s, NEW t, IsSequence(r), Extends(r, s), Extends(s, t)
  PROVE  Extends(r, t)
<1>1. Len(r) \in Nat /\ Len(s) \in Nat /\ Len(t) \in Nat
  BY DEF Extends, IsSequence
<1>. QED BY <1>1 DEF Extends

LEMMA ExtendsReflexive ==
  ASSUME NEW s, IsSequence(s)
  PROVE  Extends(s, s)
<1>1. Len(s) \in Nat
  BY DEF IsSequence
<1>. QED BY <1>1 DEF Extends

(* The library's prefixes are the sequences that are extended.             *)
LEMMA ExtendsIsPrefix ==
  ASSUME NEW s, NEW t, IsSequence(s), Extends(s, t)
  PROVE  IsPrefix(s, t)
<1>1. PICK S : s \in Seq(S)
  BY DEF IsSequence
<1>2. PICK T : t \in Seq(T)
  BY DEF Extends, IsSequence
<1>3. Len(s) \in Nat /\ Len(t) \in Nat /\ Len(s) <= Len(t)
  BY <1>1, <1>2 DEF Extends
<1>4. s \in Seq(S \cup T) /\ t \in Seq(S \cup T)
  BY <1>1, <1>2
<1>5. SubSeq(s, 1, Len(s)) = [i \in 1..Len(s) |-> s[i]]
  BY <1>3, <1>4
<1>6. SubSeq(t, 1, Len(s)) = [i \in 1..Len(s) |-> t[i]]
  BY <1>3, <1>4
<1>. QED BY <1>3, <1>5, <1>6 DEF Extends, IsPrefix

(* The library's maximum of two and of three numbers.                      *)
LEMMA MaxOfTwo ==
  ASSUME NEW a \in Nat, NEW b \in Nat
  PROVE  Max({a, b}) = IF a >= b THEN a ELSE b
<1>. DEFINE m == IF a >= b THEN a ELSE b
<1>1. m \in {a, b} /\ \A y \in {a, b} : m >= y
  OBVIOUS
<1>2. \A x \in {a, b} : (\A y \in {a, b} : x >= y) => x = m
  OBVIOUS
<1>. QED BY <1>1, <1>2 DEF Max

LEMMA MaxOfThree ==
  ASSUME NEW a \in Nat, NEW b \in Nat, NEW c \in Nat
  PROVE  /\ Max({a, b, c}) \in Nat
         /\ Max({a, b, c}) >= c
         /\ Max({a, b, c}) = IF a > c \/ b > c THEN Max({a, b}) ELSE c
<1>. DEFINE m == IF a >= b THEN IF a >= c THEN a ELSE c ELSE IF b >= c THEN b ELSE c
<1>1. m \in {a, b, c} /\ \A y \in {a, b, c} : m >= y
  OBVIOUS
<1>2. \A x \in {a, b, c} : (\A y \in {a, b, c} : x >= y) => x = m
  OBVIOUS
<1>3. Max({a, b, c}) = m
  BY <1>1, <1>2 DEF Max
<1>. QED BY <1>3, MaxOfTwo

(* The first block's number is a natural number.                           *)
ForkInRange == fork \in {NoFork} \cup Nat

LEMMA FirstInNat ==
  ASSUME ForkInRange
  PROVE  first \in Nat
BY DEF ForkInRange, first, NoFork

-----------------------------------------------------------------------------
(***************************************************************************)
(* The chain.                                                              *)
(***************************************************************************)

(* The chain of m is that of n and one block more.                         *)
Adds(n, m, b) ==
    /\ DOMAIN m.block_hashes = first..(n.current_miniblock + 1)
    /\ \A k \in first..n.current_miniblock : m.block_hashes[k] = n.block_hashes[k]
    /\ m.block_hashes[n.current_miniblock + 1] = b.hash
    /\ DOMAIN m.blocks = DOMAIN n.blocks \cup {b.hash}
    /\ \A k \in first..n.current_miniblock : blockOf(m, k) = blockOf(n, k)
    /\ blockOf(m, n.current_miniblock + 1) = b

(* A block of the next number, under a hash that holds its number, takes   *)
(* the place of no other.                                                  *)
LEMMA AddedBlock ==
  ASSUME ForkInRange, NEW n, NEW m, NEW b, Numbered(n),
         b.number = n.current_miniblock + 1, b.hash[1] = b.number,
         m.block_hashes = with(n.block_hashes, b.number, b.hash),
         m.blocks = with(n.blocks, b.hash, b)
  PROVE  Adds(n, m, b)
<1>. DEFINE c == n.current_miniblock
<1>1. first \in Nat /\ c \in Nat /\ first <= c
  BY FirstInNat DEF Numbered
<1>2. \A k \in first..c : n.block_hashes[k][1] = k /\ n.block_hashes[k] \in DOMAIN n.blocks
  BY DEF Numbered
<1>3. \A k \in first..c : k # b.number /\ n.block_hashes[k] # b.hash
  BY <1>1, <1>2
<1>4. /\ DOMAIN m.block_hashes = first..(c + 1)
      /\ \A k \in first..c : m.block_hashes[k] = n.block_hashes[k]
      /\ m.block_hashes[c + 1] = b.hash
  BY <1>1, <1>3 DEF with, Numbered
<1>5. /\ DOMAIN m.blocks = DOMAIN n.blocks \cup {b.hash}
      /\ \A k \in first..c : m.blocks[n.block_hashes[k]] = n.blocks[n.block_hashes[k]]
      /\ m.blocks[b.hash] = b
  BY <1>2, <1>3 DEF with
<1>6. \A k \in first..c : blockOf(m, k) = blockOf(n, k)
  BY <1>4, <1>5 DEF blockOf
<1>7. blockOf(m, c + 1) = b
  BY <1>4, <1>5 DEF blockOf
<1>. QED BY <1>4, <1>5, <1>6, <1>7 DEF Adds

(* A block of the next number, a child of the latest or an orphan, of its  *)
(* batch or the next: inserting it extends the chain.                      *)
LEMMA ChainExtends ==
  ASSUME ForkInRange, NEW n, NEW m, NEW b, NEW packed, Chain(n, packed),
         b.number = n.current_miniblock + 1, b.hash[1] = b.number,
         b.batch \in Nat, b.timestamp \in Nat,
         b.parent_hash = latest(n).hash \/ orphan(b),
         b.batch - latest(n).batch \in {0, 1},
         m.current_miniblock = b.number,
         m.block_hashes = with(n.block_hashes, b.number, b.hash),
         m.blocks = with(n.blocks, b.hash, b),
         m.audit.rewound = n.audit.rewound,
         ~n.audit.rewound => inOrder(latest(n), b, packed)
  PROVE  Chain(m, packed) /\ latest(m) = b /\ KeepsHashes(n, m)
<1>. DEFINE c == n.current_miniblock
<1>1. first \in Nat /\ c \in Nat /\ first <= c
  BY FirstInNat DEF Chain, Numbered
<1>2. Adds(n, m, b)
  <2>1. Numbered(n)
    BY DEF Chain
  <2>. QED BY <2>1, AddedBlock
<1>3. /\ DOMAIN m.block_hashes = first..(c + 1)
      /\ \A k \in first..c : m.block_hashes[k] = n.block_hashes[k]
      /\ m.block_hashes[c + 1] = b.hash
  BY <1>2 DEF Adds
<1>4. DOMAIN m.blocks = DOMAIN n.blocks \cup {b.hash}
  BY <1>2 DEF Adds
<1>5. \A k \in first..c : blockOf(m, k) = blockOf(n, k)
  BY <1>2 DEF Adds
<1>6. blockOf(m, c + 1) = b
  BY <1>2 DEF Adds
<1>7. Numbered(m)
  <2>1. DOMAIN m.blocks = {m.block_hashes[k] : k \in first..(c + 1)}
    <3>1. DOMAIN n.blocks = {n.block_hashes[k] : k \in first..c}
      BY DEF Chain, Numbered
    <3>2. DOMAIN n.blocks = {m.block_hashes[k] : k \in first..c}
      BY <3>1, <1>3
    <3>3. \A k : k \in first..(c + 1) <=> k \in first..c \/ k = c + 1
      BY <1>1
    <3>. QED BY <3>2, <3>3, <1>3, <1>4
  <2>2. \A k \in first..(c + 1) :
          /\ m.block_hashes[k][1] = k
          /\ blockOf(m, k).number = k /\ blockOf(m, k).hash = m.block_hashes[k]
          /\ blockOf(m, k).batch \in Nat /\ blockOf(m, k).timestamp \in Nat
    <3>. SUFFICES ASSUME NEW k \in first..(c + 1)
                  PROVE  /\ m.block_hashes[k][1] = k
                         /\ blockOf(m, k).number = k /\ blockOf(m, k).hash = m.block_hashes[k]
                         /\ blockOf(m, k).batch \in Nat /\ blockOf(m, k).timestamp \in Nat
      OBVIOUS
    <3>1. CASE k = c + 1
      BY <1>3, <1>6, <3>1
    <3>2. CASE k \in first..c
      BY <1>3, <1>5, <3>2 DEF Chain, Numbered
    <3>. QED BY <1>1, <3>1, <3>2
  <2>. QED BY <1>1, <1>3, <2>1, <2>2 DEF Numbered
<1>8. \A k \in (first + 1)..(c + 1) : \/ k = c + 1 /\ k - 1 = c
                                      \/ k \in (first + 1)..c /\ k - 1 \in first..c /\ k \in first..c
  BY <1>1
<1>9. Linked(m)
  BY <1>1, <1>5, <1>6, <1>8 DEF Linked, Chain, latest
<1>10. Ordered(m, packed)
  BY <1>1, <1>5, <1>6, <1>8 DEF Ordered, Chain, latest
<1>. QED BY <1>1, <1>3, <1>6, <1>7, <1>9, <1>10 DEF Chain, KeepsHashes, latest, Numbered

-----------------------------------------------------------------------------
(***************************************************************************)
(* What the operators on nodes do to the fields.                           *)
(***************************************************************************)

(* Archiving a state touches the archive only.                             *)
LEMMA ArchiveFields ==
  ASSUME NEW n, IsNode(n)
  PROVE  \E states : archive_state(n) = [n EXCEPT !.previous_states = states]
BY Zenon DEF archive_state

(* An event is added at the end of what happened.                          *)
LEMMA HappenedFields ==
  ASSUME NEW n, NEW e, Shaped(n)
  PROVE  LET m == happened(n, e)
         IN  /\ m = [n EXCEPT !.audit.events = Append(n.audit.events, e)]
             /\ Shaped(m) /\ Extends(n.audit.events, m.audit.events)
<1>. DEFINE m == happened(n, e)
<1>1. m = [n EXCEPT !.audit.events = Append(n.audit.events, e)]
  BY DEF happened
<1>2. IsNode(m) /\ IsAudit(m.audit) /\ IsStorage(m.storage)
      /\ m.audit.events = Append(n.audit.events, e)
  BY <1>1 DEF Shaped, IsNode, IsAudit, IsStorage
<1>3. Extends(n.audit.events, Append(n.audit.events, e))
  BY AppendExtends DEF Shaped
<1>. QED BY <1>1, <1>2, <1>3 DEF Shaped, Extends

(* The fields the two blocks of a transaction's batch leave alone.         *)
SameBatch(n, m) ==
    /\ m.current_batch = n.current_batch /\ m.storage = n.storage /\ m.tx_results = n.tx_results
    /\ m.audit.rewound = n.audit.rewound /\ m.audit.packed = n.audit.packed

isNext(n, b) ==
    /\ b.batch = n.current_batch
    /\ b.number = n.current_miniblock + 1
    /\ b.timestamp = n.current_timestamp + 1

(* The block a node expects is inserted, and any other ends the service,   *)
(* with the counters moved in both cases.                                  *)
LEMMA ProduceFields ==
  ASSUME NEW n, NEW b, Shaped(n)
  PROVE  LET s == produce([node |-> n, poisoned |-> FALSE], b)
         IN  /\ Shaped(s.node) /\ s.poisoned = IF isNext(n, b) THEN FALSE ELSE TRUE
             /\ SameBatch(n, s.node) /\ Extends(n.audit.events, s.node.audit.events)
             /\ s.node.current_miniblock = n.current_miniblock + 1
             /\ s.node.current_timestamp = n.current_timestamp + 1
             /\ isNext(n, b) => /\ s.node.block_hashes = with(n.block_hashes, b.number, b.hash)
                                /\ s.node.blocks = with(n.blocks, b.hash, b)
             /\ ~isNext(n, b) => s.node.block_hashes = n.block_hashes
<1>. DEFINE m == [archive_state(n) EXCEPT !.current_miniblock = @ + 1,
                                          !.current_timestamp = @ + 1]
            inserted == insertBlock([m EXCEPT !.current_miniblock_hash = b.hash], b)
            notified == [inserted EXCEPT !.filters = notify_new_block(@, b.hash)]
            event == [kind |-> "block", update |-> b.hash]
            s == produce([node |-> n, poisoned |-> FALSE], b)
<1>1. PICK states : archive_state(n) = [n EXCEPT !.previous_states = states]
  BY ArchiveFields DEF Shaped
<1>2. /\ Shaped(m) /\ SameBatch(n, m) /\ m.audit = n.audit
      /\ m.current_miniblock = n.current_miniblock + 1
      /\ m.current_timestamp = n.current_timestamp + 1
      /\ m.block_hashes = n.block_hashes /\ m.blocks = n.blocks
  BY <1>1 DEF Shaped, IsNode, IsAudit, IsStorage, SameBatch
<1>3. /\ Shaped(inserted) /\ SameBatch(n, inserted) /\ inserted.audit.events = n.audit.events
      /\ inserted.current_miniblock = n.current_miniblock + 1
      /\ inserted.current_timestamp = n.current_timestamp + 1
      /\ inserted.block_hashes = with(n.block_hashes, b.number, b.hash)
      /\ inserted.blocks = with(n.blocks, b.hash, b)
  <2>. HIDE DEF m
  <2>. QED BY <1>2 DEF insertBlock, Shaped, IsNode, IsAudit, IsStorage, SameBatch
<1>4. /\ Shaped(notified) /\ SameBatch(n, notified) /\ notified.audit.events = n.audit.events
      /\ notified.current_miniblock = n.current_miniblock + 1
      /\ notified.current_timestamp = n.current_timestamp + 1
      /\ notified.block_hashes = with(n.block_hashes, b.number, b.hash)
      /\ notified.blocks = with(n.blocks, b.hash, b)
  <2>. HIDE DEF inserted
  <2>. QED BY <1>3 DEF Shaped, IsNode, IsAudit, IsStorage, SameBatch
<1>5. LET r == happened(notified, event)
      IN  /\ Shaped(r) /\ SameBatch(n, r) /\ Extends(n.audit.events, r.audit.events)
          /\ r.current_miniblock = n.current_miniblock + 1
          /\ r.current_timestamp = n.current_timestamp + 1
          /\ r.block_hashes = with(n.block_hashes, b.number, b.hash)
          /\ r.blocks = with(n.blocks, b.hash, b)
  <2>. HIDE DEF notified, event
  <2>1. LET r == happened(notified, event)
        IN  /\ r = [notified EXCEPT !.audit.events = Append(notified.audit.events, event)]
            /\ Shaped(r) /\ Extends(notified.audit.events, r.audit.events)
    BY <1>4, HappenedFields
  <2>. QED BY <1>4, <2>1 DEF Shaped, IsNode, IsAudit, SameBatch
<1>6. isNext(n, b) <=> /\ b.batch = m.current_batch
                       /\ b.number = m.current_miniblock
                       /\ b.timestamp = m.current_timestamp
  BY <1>2 DEF isNext, SameBatch
<1>7. s = IF isNext(n, b) THEN [node |-> happened(notified, event), poisoned |-> FALSE]
          ELSE [node |-> m, poisoned |-> TRUE]
  BY <1>6 DEF produce
<1>8. Extends(n.audit.events, m.audit.events)
  BY <1>2, ExtendsReflexive DEF Shaped
<1>. HIDE DEF m, inserted, notified, event
<1>9. CASE isNext(n, b)
  <2>1. s.node = happened(notified, event) /\ s.poisoned = FALSE
    BY <1>7, <1>9
  <2>. QED BY <1>5, <1>9, <2>1
<1>10. CASE ~isNext(n, b)
  <2>1. s.node = m /\ s.poisoned = TRUE
    BY <1>7, <1>10
  <2>. QED BY <1>2, <1>8, <1>10, <2>1
<1>. QED BY <1>9, <1>10

(* Notices to the filters leave everything else alone, and tell what       *)
(* happened.                                                               *)
Told(n, m) ==
    /\ Shaped(m) /\ SameBatch(n, m) /\ Extends(n.audit.events, m.audit.events)
    /\ m.current_timestamp = n.current_timestamp
    /\ m.current_miniblock = n.current_miniblock
    /\ m.current_miniblock_hash = n.current_miniblock_hash
    /\ m.blocks = n.blocks /\ m.block_hashes = n.block_hashes
    /\ m.previous_states = n.previous_states /\ m.impersonated = n.impersonated
    /\ m.audit.stateAt = n.audit.stateAt /\ m.audit.jumped = n.audit.jumped

LEMMA ToldTransitive ==
  ASSUME NEW n, NEW m, NEW r, Shaped(n), Told(n, m), Told(m, r)
  PROVE  Told(n, r)
BY ExtendsTransitive DEF Told, Shaped, SameBatch

LEMMA TellFields ==
  ASSUME NEW n, NEW filters, NEW event, Shaped(n)
  PROVE  Told(n, happened([n EXCEPT !.filters = filters], event))
<1>. DEFINE m == [n EXCEPT !.filters = filters]
            r == happened(m, event)
<1>1. Shaped(m) /\ m.audit = n.audit /\ Told(n, m)
  BY ExtendsReflexive DEF Shaped, IsNode, Told, SameBatch
<1>2. /\ r = [m EXCEPT !.audit.events = Append(m.audit.events, event)]
      /\ Shaped(r) /\ Extends(m.audit.events, r.audit.events)
  <2>. HIDE DEF m
  <2>. QED BY <1>1, HappenedFields
<1>3. Told(m, r)
  <2>. HIDE DEF m, r
  <2>. QED BY <1>1, <1>2 DEF Told, Shaped, IsNode, IsAudit, SameBatch
<1>. QED BY <1>1, <1>3, ToldTransitive

(* However many logs a transaction has, one is told after the other.       *)
LEMMA NotifyLogsSteps ==
  ASSUME NEW n, NEW logs, Len(logs) \in Nat
  PROVE  \E f : /\ notifyLogs(n, logs) = f[Len(logs)] /\ f[0] = n
               /\ \A i \in 1..Len(logs) : f[i] = notifyLog(f[i - 1], logs[i])
<1>. DEFINE L == Len(logs)
            upTo(k, f) == f = [i \in 0..k |-> IF i = 0 THEN n ELSE notifyLog(f[i - 1], logs[i])]
            notified == CHOOSE f : upTo(L, f)
            S == {k \in Nat : \E f : upTo(k, f)}
<1>1. notifyLogs(n, logs) = notified[L]
  BY DEF notifyLogs
<1>2. 0 \in S
  <2>1. upTo(0, [i \in 0..0 |-> n])
    OBVIOUS
  <2>. HIDE DEF upTo
  <2>. QED BY <2>1
<1>3. ASSUME NEW k \in S PROVE k + 1 \in S
  <2>1. PICK f : upTo(k, f)
    <3>. HIDE DEF upTo
    <3>. QED OBVIOUS
  <2>2. upTo(k + 1, [i \in 0..(k + 1) |-> IF i = k + 1 THEN notifyLog(f[k], logs[k + 1]) ELSE f[i]])
    BY <2>1
  <2>. HIDE DEF upTo
  <2>. QED BY <2>2
<1>4. upTo(L, notified)
  <2>1. Nat \subseteq S
    <3>. HIDE DEF S
    <3>. QED BY <1>2, <1>3, SetInduction
  <2>2. \E f : upTo(L, f)
    BY <2>1
  <2>. HIDE DEF upTo
  <2>. QED BY <2>2
<1>. HIDE DEF notified
<1>. QED BY <1>1, <1>4

(* Notices of logs, one after the other.                                   *)
LEMMA NotifyLogsFields ==
  ASSUME NEW n, NEW logs, Shaped(n), Len(logs) \in Nat
  PROVE  Told(n, notifyLogs(n, logs))
<1>. DEFINE L == Len(logs)
<1>1. PICK f : /\ notifyLogs(n, logs) = f[L] /\ f[0] = n
               /\ \A i \in 1..L : f[i] = notifyLog(f[i - 1], logs[i])
  BY NotifyLogsSteps
<1>. DEFINE T == {k \in Nat : k <= L => Told(n, f[k])}
<1>2. 0 \in T
  BY <1>1, ExtendsReflexive DEF Told, Shaped, SameBatch
<1>3. ASSUME NEW k \in T PROVE k + 1 \in T
  <2>. SUFFICES ASSUME k + 1 <= L PROVE Told(n, f[k + 1])
    OBVIOUS
  <2>1. f[k + 1] = notifyLog(f[k], logs[k + 1])
    BY <1>1
  <2>2. Told(n, f[k])
    OBVIOUS
  <2>3. Told(f[k], notifyLog(f[k], logs[k + 1]))
    <3>1. Shaped(f[k])
      BY <2>2 DEF Told
    <3>. QED BY <3>1, TellFields DEF notifyLog
  <2>. QED BY <2>1, <2>2, <2>3, ToldTransitive
<1>4. Nat \subseteq T
  <2>. HIDE DEF T
  <2>. QED BY <1>2, <1>3, SetInduction
<1>. QED BY <1>1, <1>4

-----------------------------------------------------------------------------
(***************************************************************************)
(* A transaction's batch.                                                  *)
(***************************************************************************)

(* The chain of a node is the chain of every node with its blocks.         *)
LEMMA ChainFrame ==
  ASSUME NEW n, NEW m, NEW packed, Chain(n, packed),
         m.current_miniblock = n.current_miniblock,
         m.block_hashes = n.block_hashes, m.blocks = n.blocks,
         m.audit.rewound = n.audit.rewound
  PROVE  Chain(m, packed) /\ latest(m) = latest(n) /\ KeepsHashes(n, m)
         /\ (EndsEmpty(n) => EndsEmpty(m))
<1>1. \A k : blockOf(m, k) = blockOf(n, k)
  BY DEF blockOf
<1>2. Numbered(m)
  BY <1>1 DEF Chain, Numbered
<1>3. Linked(m)
  BY <1>1 DEF Chain, Linked
<1>4. Ordered(m, packed)
  BY <1>1 DEF Chain, Ordered
<1>. QED BY <1>1, <1>2, <1>3, <1>4 DEF Chain, latest, KeepsHashes, EndsEmpty

(* The next batch and block are numbered after the node's own, at a time   *)
(* that is the clock's next unless the clock is behind.                    *)
LEMMA BatchEnvFields ==
  ASSUME NEW n, Counted(n), n.current_miniblock \in Nat
  PROVE  LET ctx == create_l1_batch_env(n)
         IN  /\ ctx.batch = n.current_batch + 1 /\ ctx.miniblock = n.current_miniblock + 1
             /\ ctx.timestamp \in Nat /\ ctx.timestamp >= n.current_timestamp + 1
             /\ ~isBehind(n) => ctx.timestamp = n.current_timestamp + 1
<1>. DEFINE a == lastBatch(n).timestamp
            b == lastL2Block(n).timestamp
            c == n.current_timestamp
            top == Max({a, b, c})
<1>1. /\ lastBatch(n).number = n.current_batch /\ lastL2Block(n).number = n.current_miniblock
      /\ a \in Nat /\ b \in Nat /\ c \in Nat
  BY DEF Counted, lastBatch, lastL2Block
<1>2. /\ create_l1_batch_env(n).batch = n.current_batch + 1
      /\ create_l1_batch_env(n).miniblock = n.current_miniblock + 1
      /\ create_l1_batch_env(n).timestamp = top + 1
  <2>. HIDE DEF top
  <2>1. create_l1_batch_env(n) = new_batch(from_current(n.current_batch, n.current_miniblock, top))
    BY <1>1 DEF create_l1_batch_env, top
  <2>. QED BY <2>1 DEF new_batch, new_block, from_current
<1>. HIDE DEF a, b, c
<1>3. top \in Nat /\ top >= c /\ (a > c \/ b > c \/ top = c)
  BY <1>1, MaxOfThree
<1>4. a > c \/ b > c => isBehind(n)
  BY MaxOfTwo DEF Counted, isBehind, a, b, c, lastBatch, lastL2Block
<1>. QED BY <1>1, <1>2, <1>3, <1>4 DEF c

(* A step that ends a transaction's run.                                   *)
Commits(n, s) ==
    /\ Shaped(s.node) /\ Follows(n, s.node)
    /\ s.poisoned \in BOOLEAN /\ (s.poisoned => isBehind(n))
    /\ ~s.poisoned => Good(s.node)

LEMMA CommitFields ==
  ASSUME ForkInRange, NEW n, NEW p, NEW t \in Transactions, Good(n), Told(n, p)
  PROVE  Commits(n, commit(p, t, create_l1_batch_env(n)))
<1>. DEFINE ctx     == create_l1_batch_env(n)
            block   == transactionBlock(p, t, ctx)
            logs    == receiptLogs(t, block)
            written == [p EXCEPT !.storage = executeBatch(@, t, ctx)]
            logged  == notifyLogs(written, logs)
            receipt == [block_hash |-> block.hash, block_number |-> block.number,
                        batch |-> block.batch, logs |-> logs]
            ready   == [logged EXCEPT !.tx_results = with(@, t, receipt), !.current_batch = @ + 1]
            s1      == produce([node |-> ready, poisoned |-> FALSE], block)
            last    == fictiveBlock(block, new_block(ctx))
            s2      == produce(s1, last)
            packed  == n.audit.packed
<1>1. /\ Shaped(n) /\ Chain(n, packed) /\ Counted(n) /\ EndsEmpty(n)
      /\ latest(n).batch = n.current_batch
      /\ n.current_miniblock \in Nat /\ n.current_batch \in Nat /\ n.current_timestamp \in Nat
      /\ n.current_miniblock \in first..n.current_miniblock
  BY FirstInNat DEF Good, Sound, Chain, Numbered, Counted
<1>2. /\ ctx.batch = n.current_batch + 1 /\ ctx.miniblock = n.current_miniblock + 1
      /\ ctx.timestamp \in Nat /\ ctx.timestamp >= n.current_timestamp + 1
      /\ ~isBehind(n) => ctx.timestamp = n.current_timestamp + 1
  BY <1>1, BatchEnvFields
<1>. HIDE DEF ctx
<1>3. /\ block.hash = <<ctx.miniblock, t>> /\ block.hash[1] = ctx.miniblock
      /\ block.parent_hash = latest(n).hash
      /\ block.number = ctx.miniblock /\ block.timestamp = ctx.timestamp /\ block.batch = ctx.batch
  <2>1. p.block_hashes = n.block_hashes /\ n.current_miniblock \in DOMAIN n.block_hashes
        /\ latest(n).hash = n.block_hashes[n.current_miniblock]
    BY <1>1 DEF Told, Chain, Numbered, latest
  <2>. QED BY <1>1, <1>2, <2>1 DEF transactionBlock, compute_hash
<1>4. /\ last.hash = <<ctx.miniblock + 1, NoTransaction>> /\ last.hash[1] = ctx.miniblock + 1
      /\ last.parent_hash = block.hash
      /\ last.number = ctx.miniblock + 1 /\ last.timestamp = ctx.timestamp + 1
      /\ last.batch = ctx.batch
  <2>1. /\ new_block(ctx).miniblock = ctx.miniblock + 1
        /\ new_block(ctx).timestamp = ctx.timestamp + 1 /\ new_block(ctx).batch = ctx.batch
    BY DEF new_block, ctx, create_l1_batch_env, new_batch, from_current
  <2>. HIDE DEF block
  <2>. QED BY <2>1 DEF fictiveBlock, create_empty_block, compute_hash
<1>. HIDE DEF block, last
<1>5. Len(logs) \in Nat
  <2>1. Len(Logs[t]) \in Nat /\ DOMAIN Logs[t] = 1..Len(Logs[t])
    BY NodeAssumption
  <2>2. \E S : logs \in Seq(S)
    <3>1. logs \in [1..Len(Logs[t]) -> {logs[i] : i \in 1..Len(Logs[t])}]
      BY <2>1 DEF receiptLogs
    <3>. HIDE DEF logs
    <3>2. logs \in Seq({logs[i] : i \in 1..Len(Logs[t])})
      BY <2>1, <3>1
    <3>. QED BY <3>2
  <2>. HIDE DEF logs
  <2>. QED BY <2>2
<1>. HIDE DEF logs, receipt
<1>6. /\ Shaped(written)
      /\ written.storage.batch = [number |-> ctx.batch, timestamp |-> ctx.timestamp]
      /\ written.storage.l2_block = [number |-> ctx.miniblock + 1, timestamp |-> ctx.timestamp + 1]
      /\ written.audit = p.audit /\ written.current_batch = n.current_batch
      /\ written.current_miniblock = n.current_miniblock
      /\ written.current_timestamp = n.current_timestamp
      /\ written.block_hashes = n.block_hashes /\ written.blocks = n.blocks
  <2>1. LET st == executeBatch(p.storage, t, ctx)
        IN  /\ IsStorage(st) /\ st.batch = [number |-> ctx.batch, timestamp |-> ctx.timestamp]
            /\ st.l2_block = [number |-> ctx.miniblock + 1, timestamp |-> ctx.timestamp + 1]
    BY DEF executeBatch, Told, Shaped, IsStorage
  <2>. QED BY <2>1 DEF Told, Shaped, IsNode, SameBatch
<1>7. Told(written, logged)
  <2>. HIDE DEF written
  <2>. QED BY <1>5, <1>6, NotifyLogsFields
<1>. HIDE DEF written, logged
<1>8. /\ Shaped(ready) /\ ready.storage = written.storage
      /\ ready.audit = logged.audit /\ ready.current_batch = n.current_batch + 1
      /\ ready.current_miniblock = n.current_miniblock
      /\ ready.current_timestamp = n.current_timestamp
      /\ ready.block_hashes = n.block_hashes /\ ready.blocks = n.blocks
      /\ ready.audit.rewound = n.audit.rewound /\ ready.audit.packed = packed
      /\ Extends(n.audit.events, ready.audit.events)
  <2>1. Shaped(ready) /\ ready.storage = written.storage
        /\ ready.audit = logged.audit /\ ready.current_batch = n.current_batch + 1
        /\ ready.current_miniblock = n.current_miniblock
        /\ ready.current_timestamp = n.current_timestamp
        /\ ready.block_hashes = n.block_hashes /\ ready.blocks = n.blocks
    BY <1>6, <1>7 DEF Told, Shaped, IsNode, SameBatch
  <2>2. Extends(n.audit.events, logged.audit.events)
    BY <1>1, <1>6, <1>7, ExtendsTransitive DEF Told, Shaped
  <2>3. logged.audit.rewound = n.audit.rewound /\ logged.audit.packed = packed
    BY <1>6, <1>7 DEF Told, SameBatch
  <2>. QED BY <2>1, <2>2, <2>3
<1>. HIDE DEF ready
<1>9. /\ Chain(ready, packed) /\ latest(ready) = latest(n) /\ KeepsHashes(n, ready)
  BY <1>1, <1>8, ChainFrame
<1>10. /\ Shaped(s1.node) /\ s1.poisoned = IF isNext(ready, block) THEN FALSE ELSE TRUE
       /\ SameBatch(ready, s1.node) /\ Extends(ready.audit.events, s1.node.audit.events)
       /\ s1.node.current_miniblock = ready.current_miniblock + 1
       /\ s1.node.current_timestamp = ready.current_timestamp + 1
       /\ isNext(ready, block) =>
             /\ s1.node.block_hashes = with(ready.block_hashes, block.number, block.hash)
             /\ s1.node.blocks = with(ready.blocks, block.hash, block)
       /\ ~isNext(ready, block) => s1.node.block_hashes = ready.block_hashes
  BY <1>8, ProduceFields
<1>11. commit(p, t, ctx) = s2
  BY DEF commit, ctx, s2, s1, last, ready, logged, written, receipt, logs, block
<1>12. isNext(ready, block) <=> ctx.timestamp = n.current_timestamp + 1
  BY <1>2, <1>3, <1>8 DEF isNext
<1>13. Extends(n.audit.events, s1.node.audit.events)
  BY <1>1, <1>8, <1>10, ExtendsTransitive DEF Shaped
<1>. HIDE DEF s1
<1>14. CASE ~isNext(ready, block)
  <2>1. s2 = s1 /\ s1.poisoned = TRUE
    BY <1>10, <1>14 DEF produce
  <2>2. isBehind(n)
    BY <1>2, <1>12, <1>14
  <2>3. KeepsHashes(n, s1.node)
    BY <1>8, <1>10, <1>14 DEF KeepsHashes
  <2>. QED BY <1>10, <1>11, <1>13, <2>1, <2>2, <2>3 DEF Commits, Follows, ctx
<1>15. CASE isNext(ready, block)
  <2>1. Chain(s1.node, packed) /\ latest(s1.node) = block /\ KeepsHashes(ready, s1.node)
    <3>1. ~ready.audit.rewound => inOrder(latest(ready), block, packed)
      BY <1>1, <1>2, <1>3, <1>8, <1>9, <1>12, <1>15 DEF inOrder, Good, Sound, InTime, Chain, Numbered, latest
    <3>2. block.batch - latest(ready).batch \in {0, 1}
      BY <1>1, <1>2, <1>3, <1>9
    <3>. QED BY <1>1, <1>2, <1>3, <1>8, <1>9, <1>10, <1>15, <3>1, <3>2, ChainExtends DEF SameBatch
  <2>2. s2 = produce([node |-> s1.node, poisoned |-> FALSE], last)
    BY <1>10, <1>15 DEF produce
  <2>3. isNext(s1.node, last)
    BY <1>2, <1>4, <1>8, <1>10, <1>12, <1>15 DEF isNext, SameBatch
  <2>4. /\ Shaped(s2.node) /\ s2.poisoned = FALSE
        /\ SameBatch(s1.node, s2.node) /\ Extends(s1.node.audit.events, s2.node.audit.events)
        /\ s2.node.current_miniblock = s1.node.current_miniblock + 1
        /\ s2.node.current_timestamp = s1.node.current_timestamp + 1
        /\ s2.node.block_hashes = with(s1.node.block_hashes, last.number, last.hash)
        /\ s2.node.blocks = with(s1.node.blocks, last.hash, last)
    <3>. DEFINE s3 == produce([node |-> s1.node, poisoned |-> FALSE], last)
    <3>1. /\ Shaped(s3.node) /\ s3.poisoned = IF isNext(s1.node, last) THEN FALSE ELSE TRUE
          /\ SameBatch(s1.node, s3.node) /\ Extends(s1.node.audit.events, s3.node.audit.events)
          /\ s3.node.current_miniblock = s1.node.current_miniblock + 1
          /\ s3.node.current_timestamp = s1.node.current_timestamp + 1
          /\ isNext(s1.node, last) =>
                /\ s3.node.block_hashes = with(s1.node.block_hashes, last.number, last.hash)
                /\ s3.node.blocks = with(s1.node.blocks, last.hash, last)
      BY <1>10, ProduceFields
    <3>. HIDE DEF s2, s3
    <3>2. s2 = s3
      BY <2>2 DEF s3
    <3>. QED BY <2>3, <3>1, <3>2
  <2>. HIDE DEF s2
  <2>5. Chain(s2.node, packed) /\ latest(s2.node) = last /\ KeepsHashes(s1.node, s2.node)
    <3>1. inOrder(latest(s1.node), last, packed)
      BY <1>2, <1>3, <1>4, <2>1 DEF inOrder
    <3>2. /\ last.number = s1.node.current_miniblock + 1 /\ last.hash[1] = last.number
          /\ s2.node.current_miniblock = last.number
          /\ last.batch \in Nat /\ last.timestamp \in Nat
          /\ last.batch - block.batch \in {0, 1}
      BY <1>1, <1>2, <1>3, <1>4, <1>8, <1>10, <2>4
    <3>3. s2.node.audit.rewound = s1.node.audit.rewound
      BY <2>4 DEF SameBatch
    <3>. QED BY <1>4, <2>1, <2>4, <3>1, <3>2, <3>3, ChainExtends
  <2>6. Follows(n, s2.node)
    <3>1. Extends(n.audit.events, s2.node.audit.events)
      BY <1>1, <1>13, <2>4, ExtendsTransitive DEF Shaped
    <3>. QED BY <1>9, <2>1, <2>5, <3>1 DEF Follows, KeepsHashes
  <2>7. Counted(s2.node)
    BY <1>1, <1>2, <1>6, <1>8, <1>10, <2>4 DEF Counted, SameBatch
  <2>8. InTime(s2.node, packed) /\ latest(s2.node).batch = s2.node.current_batch
    <3>1. s2.node.storage.batch.timestamp = ctx.timestamp
          /\ s2.node.storage.l2_block.timestamp = ctx.timestamp + 1
      BY <1>6, <1>8, <1>10, <2>4 DEF SameBatch
    <3>2. Max({ctx.timestamp, ctx.timestamp + 1}) = ctx.timestamp + 1
      BY <1>2, MaxOfTwo
    <3>3. s2.node.current_timestamp = ctx.timestamp + 1
      BY <1>1, <1>2, <1>8, <1>10, <1>12, <1>15, <2>4
    <3>4. s2.node.current_batch = ctx.batch
      BY <1>2, <1>8, <1>10, <2>4 DEF SameBatch
    <3>. QED BY <1>2, <1>4, <2>5, <3>1, <3>2, <3>3, <3>4 DEF InTime, isBehind
  <2>9. EndsEmpty(s2.node)
    <3>1. s2.node.current_miniblock = ctx.miniblock + 1
      BY <1>1, <1>2, <1>8, <1>10, <2>4
    <3>. QED BY <1>4, <2>4, <3>1 DEF EndsEmpty, with, compute_hash
  <2>10. s2.node.audit.packed = packed
    BY <1>8, <1>10, <2>4 DEF SameBatch
  <2>11. Good(s2.node)
    BY <2>4, <2>5, <2>7, <2>8, <2>9, <2>10 DEF Good, Sound
  <2>. QED BY <1>11, <2>4, <2>6, <2>11 DEF Commits, ctx
<1>. QED BY <1>14, <1>15

-----------------------------------------------------------------------------
(***************************************************************************)
(* Empty blocks.                                                           *)
(***************************************************************************)

(* One block: the first catches up with the storage's clock, each later    *)
(* one keeps up with it if there is an interval.                           *)
LEMMA MineOneFields ==
  ASSUME ForkInRange, NEW n, NEW packed, NEW i \in Nat, NEW interval_ms \in Nat, Sound(n, packed),
         i # 0 => packed \/ (interval_ms > 0 /\ ~isBehind(n))
  PROVE  LET m == mineOne(n, i, interval_ms)
         IN  /\ Sound(m, packed) /\ Follows(n, m) /\ m.audit.packed = n.audit.packed
             /\ m.audit.events = n.audit.events
             /\ i = 0 \/ (interval_ms > 0 /\ ~isBehind(n)) => ~isBehind(m)
<1>. DEFINE ctx == create_l1_batch_env(n)
            timestamp == IF i = 0 THEN ctx.timestamp ELSE n.current_timestamp + interval_ms
            rolled == [n EXCEPT !.storage.batch = [number |-> ctx.batch, timestamp |-> ctx.timestamp],
                                !.storage.l2_block = [number |-> ctx.miniblock, timestamp |-> ctx.timestamp]]
            block == create_empty_block(ctx.miniblock, timestamp, ctx.batch)
            inserted == insertBlock(rolled, block)
            m == mineOne(n, i, interval_ms)
<1>1. /\ Shaped(n) /\ Chain(n, packed) /\ Counted(n) /\ EndsEmpty(n)
      /\ latest(n).batch = n.current_batch
      /\ n.current_miniblock \in Nat /\ n.current_batch \in Nat /\ n.current_timestamp \in Nat
      /\ n.current_miniblock \in first..n.current_miniblock
  BY FirstInNat DEF Sound, Chain, Numbered, Counted
<1>2. /\ ctx.batch = n.current_batch + 1 /\ ctx.miniblock = n.current_miniblock + 1
      /\ ctx.timestamp \in Nat /\ ctx.timestamp >= n.current_timestamp + 1
      /\ ~isBehind(n) => ctx.timestamp = n.current_timestamp + 1
  BY <1>1, BatchEnvFields
<1>. HIDE DEF ctx
<1>3. timestamp \in Nat /\ timestamp >= n.current_timestamp
  BY <1>1, <1>2
<1>. HIDE DEF timestamp
<1>4. /\ block.hash = compute_hash(ctx.miniblock, NoTransaction) /\ block.hash[1] = ctx.miniblock
      /\ block.parent_hash = compute_hash(n.current_miniblock, NoTransaction)
      /\ block.number = ctx.miniblock /\ block.timestamp = timestamp /\ block.batch = ctx.batch
      /\ block.transactions = <<>>
  BY <1>1, <1>2 DEF create_empty_block, compute_hash
<1>. HIDE DEF block
<1>5. /\ Shaped(rolled)
      /\ rolled.storage.batch = [number |-> ctx.batch, timestamp |-> ctx.timestamp]
      /\ rolled.storage.l2_block = [number |-> ctx.miniblock, timestamp |-> ctx.timestamp]
      /\ rolled.audit = n.audit
      /\ rolled.block_hashes = n.block_hashes /\ rolled.blocks = n.blocks
  BY <1>1 DEF Shaped, IsNode, IsStorage
<1>. HIDE DEF rolled
<1>6. /\ Shaped(inserted) /\ inserted.storage = rolled.storage
      /\ inserted.audit.events = n.audit.events /\ inserted.audit.rewound = n.audit.rewound
      /\ inserted.audit.packed = n.audit.packed
      /\ inserted.block_hashes = with(n.block_hashes, block.number, block.hash)
      /\ inserted.blocks = with(n.blocks, block.hash, block)
  BY <1>5 DEF insertBlock, Shaped, IsNode, IsAudit
<1>7. m = [inserted EXCEPT !.current_batch = ctx.batch, !.current_miniblock = ctx.miniblock,
                           !.current_timestamp = timestamp]
  BY DEF mineOne, ctx, timestamp, rolled, block, inserted
<1>. HIDE DEF inserted, m
<1>8. /\ Shaped(m)
      /\ m.storage.batch = [number |-> ctx.batch, timestamp |-> ctx.timestamp]
      /\ m.storage.l2_block = [number |-> ctx.miniblock, timestamp |-> ctx.timestamp]
      /\ m.audit.events = n.audit.events /\ m.audit.rewound = n.audit.rewound
      /\ m.audit.packed = n.audit.packed
      /\ m.block_hashes = with(n.block_hashes, block.number, block.hash)
      /\ m.blocks = with(n.blocks, block.hash, block)
      /\ m.current_batch = ctx.batch /\ m.current_miniblock = ctx.miniblock
      /\ m.current_timestamp = timestamp
  BY <1>5, <1>6, <1>7 DEF Shaped, IsNode
<1>9. block.parent_hash = latest(n).hash \/ orphan(block)
  BY <1>1, <1>2, <1>4 DEF EndsEmpty, orphan, latest, Chain, Numbered
<1>10. ~n.audit.rewound => inOrder(latest(n), block, packed)
  <2>. SUFFICES ASSUME ~n.audit.rewound PROVE inOrder(latest(n), block, packed)
    OBVIOUS
  <2>1. latest(n).timestamp <= n.current_timestamp /\ latest(n).timestamp \in Nat
    BY <1>1 DEF Sound, InTime, latest, Chain, Numbered
  <2>2. CASE i = 0
    BY <1>1, <1>2, <1>4, <2>1, <2>2 DEF timestamp, inOrder
  <2>3. CASE i # 0 /\ interval_ms > 0
    BY <1>1, <1>4, <2>1, <2>3 DEF timestamp, inOrder
  <2>4. CASE i # 0 /\ interval_ms = 0
    BY <1>1, <1>4, <2>1, <2>4 DEF timestamp, inOrder
  <2>. QED BY <2>2, <2>3, <2>4
<1>11. Chain(m, packed) /\ latest(m) = block /\ KeepsHashes(n, m)
  <2>1. /\ block.number = n.current_miniblock + 1 /\ block.hash[1] = block.number
        /\ block.batch \in Nat /\ block.timestamp \in Nat
        /\ block.batch - latest(n).batch \in {0, 1} /\ m.current_miniblock = block.number
    BY <1>1, <1>2, <1>3, <1>4, <1>8
  <2>. QED BY <1>1, <1>8, <1>9, <1>10, <2>1, ChainExtends
<1>12. Counted(m)
  BY <1>1, <1>2, <1>3, <1>8 DEF Counted
<1>13. Max({ctx.timestamp, ctx.timestamp}) = ctx.timestamp
  BY <1>2, MaxOfTwo
<1>14. i = 0 \/ (interval_ms > 0 /\ ~isBehind(n)) => ~isBehind(m)
  BY <1>1, <1>2, <1>8, <1>13 DEF isBehind, timestamp
<1>15. InTime(m, packed)
  BY <1>3, <1>4, <1>8, <1>11, <1>14 DEF InTime
<1>16. EndsEmpty(m) /\ latest(m).batch = m.current_batch
  BY <1>4, <1>8, <1>11 DEF EndsEmpty, with
<1>17. Follows(n, m)
  BY <1>1, <1>8, <1>11, ExtendsReflexive DEF Follows, Shaped
<1>. QED BY <1>8, <1>11, <1>12, <1>14, <1>15, <1>16, <1>17 DEF Sound, m

(* However many blocks are mined: one after the other.                     *)
LEMMA MineSteps ==
  ASSUME NEW n, NEW num_blocks \in Nat, NEW interval_ms
  PROVE  \E f : /\ mine_empty_blocks(n, num_blocks, interval_ms) = f[num_blocks] /\ f[0] = n
               /\ \A i \in 1..num_blocks : f[i] = mineOne(f[i - 1], i - 1, interval_ms)
<1>. DEFINE L == num_blocks
            upTo(k, f) ==
                f = [i \in 0..k |-> IF i = 0 THEN n ELSE mineOne(f[i - 1], i - 1, interval_ms)]
            mined == CHOOSE f : upTo(L, f)
            S == {k \in Nat : \E f : upTo(k, f)}
<1>1. mine_empty_blocks(n, num_blocks, interval_ms) = mined[L]
  BY DEF mine_empty_blocks
<1>2. 0 \in S
  <2>1. upTo(0, [i \in 0..0 |-> n])
    OBVIOUS
  <2>. HIDE DEF upTo
  <2>. QED BY <2>1
<1>3. ASSUME NEW k \in S PROVE k + 1 \in S
  <2>1. PICK f : upTo(k, f)
    <3>. HIDE DEF upTo
    <3>. QED OBVIOUS
  <2>2. upTo(k + 1, [i \in 0..(k + 1) |-> IF i = k + 1 THEN mineOne(f[k], k, interval_ms) ELSE f[i]])
    BY <2>1
  <2>. HIDE DEF upTo
  <2>. QED BY <2>2
<1>4. upTo(L, mined)
  <2>1. Nat \subseteq S
    <3>. HIDE DEF S
    <3>. QED BY <1>2, <1>3, SetInduction
  <2>2. \E f : upTo(L, f)
    BY <2>1
  <2>. HIDE DEF upTo
  <2>. QED BY <2>2
<1>. HIDE DEF mined
<1>. QED BY <1>1, <1>4

(* With or without an interval, the chain goes on, block by block.         *)
MinesSoundly(f, n, packed, num_blocks, interval_ms) ==
    /\ mine_empty_blocks(n, num_blocks, interval_ms) = f[num_blocks] /\ f[0] = n
    /\ \A i \in 1..num_blocks : f[i] = mineOne(f[i - 1], i - 1, interval_ms)
    /\ \A i \in 0..num_blocks : /\ Sound(f[i], packed) /\ Follows(n, f[i])
                                /\ f[i].audit.packed = n.audit.packed

LEMMA MinedSound ==
  ASSUME ForkInRange, NEW n, NEW packed, NEW num_blocks \in Nat \ {0}, NEW interval_ms \in Nat,
         Sound(n, packed), num_blocks > 1 /\ interval_ms = 0 => packed
  PROVE  \E f : MinesSoundly(f, n, packed, num_blocks, interval_ms)
<1>. DEFINE L == num_blocks
<1>1. PICK mined : /\ mine_empty_blocks(n, num_blocks, interval_ms) = mined[L] /\ mined[0] = n
                   /\ \A i \in 1..L : mined[i] = mineOne(mined[i - 1], i - 1, interval_ms)
  BY MineSteps
<1>. DEFINE kept(k) == /\ Sound(mined[k], packed) /\ Follows(n, mined[k])
                       /\ mined[k].audit.packed = n.audit.packed
                       /\ k # 0 /\ interval_ms > 0 => ~isBehind(mined[k])
            T == {k \in Nat : k <= L => kept(k)}
<1>2. 0 \in T
  BY <1>1, ExtendsReflexive DEF Sound, Shaped, Follows, KeepsHashes
<1>3. ASSUME NEW k \in T PROVE k + 1 \in T
  <2>. SUFFICES ASSUME k + 1 <= L PROVE kept(k + 1)
    OBVIOUS
  <2>1. mined[k + 1] = mineOne(mined[k], k, interval_ms)
    BY <1>1
  <2>2. kept(k) /\ k \in Nat
    OBVIOUS
  <2>3. k # 0 => packed \/ (interval_ms > 0 /\ ~isBehind(mined[k]))
    BY <2>2
  <2>4. LET m == mineOne(mined[k], k, interval_ms)
        IN  /\ Sound(m, packed) /\ Follows(mined[k], m) /\ m.audit.packed = mined[k].audit.packed
            /\ m.audit.events = mined[k].audit.events
            /\ k = 0 \/ (interval_ms > 0 /\ ~isBehind(mined[k])) => ~isBehind(m)
    BY <2>2, <2>3, MineOneFields
  <2>5. Follows(n, mined[k + 1])
    BY <2>1, <2>2, <2>4 DEF Follows, KeepsHashes
  <2>. QED BY <2>1, <2>2, <2>4, <2>5
<1>4. Nat \subseteq T
  <2>. HIDE DEF T
  <2>. QED BY <1>2, <1>3, SetInduction
<1>5. \A i \in 0..L : kept(i)
  BY <1>4
<1>. HIDE DEF kept
<1>6. \A i \in 0..L : /\ Sound(mined[i], packed) /\ Follows(n, mined[i])
                      /\ mined[i].audit.packed = n.audit.packed
  BY <1>5 DEF kept
<1>. QED BY <1>1, <1>6 DEF MinesSoundly

(* So it does when all of them are there.                                  *)
LEMMA MineFields ==
  ASSUME ForkInRange, NEW n, NEW packed, NEW num_blocks \in Nat \ {0}, NEW interval_ms \in Nat,
         Sound(n, packed), num_blocks > 1 /\ interval_ms = 0 => packed
  PROVE  LET m == mine_empty_blocks(n, num_blocks, interval_ms)
         IN  Sound(m, packed) /\ Follows(n, m) /\ m.audit.packed = n.audit.packed
<1>1. PICK f : MinesSoundly(f, n, packed, num_blocks, interval_ms)
  BY MinedSound
<1>2. num_blocks \in 0..num_blocks
  OBVIOUS
<1>. QED BY <1>1, <1>2 DEF MinesSoundly

-----------------------------------------------------------------------------
(***************************************************************************)
(* The inductive invariant.  It is stronger than the properties where they *)
(* forget: a block's hash holds its number, the storage has the node's     *)
(* numbers before the first batch too, the last block is empty, and all of *)
(* it holds of the snapshots.                                              *)
(***************************************************************************)
StartupTyped ==
    /\ DOMAIN startup = {"command", "contracts", "ready", "replay"}
    /\ startup.replay \in Seq(Transactions)

SnapshotsGood ==
    /\ IsSequence(snapshots)
    /\ \A i \in DOMAIN snapshots : Good(snapshots[i])
    /\ \A i, j \in DOMAIN snapshots : i < j => Follows(snapshots[i], snapshots[j])

NodeGood == ~poisoned => Good(node) /\ \A i \in DOMAIN snapshots : Follows(snapshots[i], node)

NodeInv == ForkInRange /\ poisoned \in BOOLEAN /\ StartupTyped /\ SnapshotsGood /\ NodeGood

(* A later node extends the events and keeps the hashes.                   *)
LEMMA FollowsTransitive ==
  ASSUME NEW n, NEW m, NEW r, IsSequence(n.audit.events), Follows(n, m), Follows(m, r)
  PROVE  Follows(n, r)
BY ExtendsTransitive DEF Follows, KeepsHashes

(* Requests that leave the blocks, the counters and the clocks alone.      *)
SameLedger(n, m) ==
    /\ Shaped(m)
    /\ m.current_timestamp = n.current_timestamp /\ m.current_batch = n.current_batch
    /\ m.current_miniblock = n.current_miniblock
    /\ m.block_hashes = n.block_hashes /\ m.blocks = n.blocks
    /\ m.storage.batch = n.storage.batch /\ m.storage.l2_block = n.storage.l2_block
    /\ m.audit.rewound = n.audit.rewound /\ m.audit.packed = n.audit.packed
    /\ Extends(n.audit.events, m.audit.events)

LEMMA LedgerFrame ==
  ASSUME NEW n, NEW m, Good(n), SameLedger(n, m)
  PROVE  Good(m) /\ Follows(n, m)
<1>. DEFINE packed == n.audit.packed
<1>1. Chain(m, packed) /\ latest(m) = latest(n) /\ KeepsHashes(n, m) /\ EndsEmpty(m)
  BY ChainFrame DEF SameLedger, Good, Sound
<1>2. Counted(m)
  BY DEF SameLedger, Good, Sound, Counted
<1>3. InTime(m, packed)
  BY <1>1 DEF SameLedger, Good, Sound, InTime, isBehind
<1>. QED BY <1>1, <1>2, <1>3 DEF SameLedger, Good, Sound, Follows

(* Requests that move the clock: back, only when they say so.              *)
LEMMA ClockFrame ==
  ASSUME NEW n, NEW m, Good(n), Shaped(m), m.current_timestamp \in Nat,
         m.current_batch = n.current_batch, m.current_miniblock = n.current_miniblock,
         m.block_hashes = n.block_hashes, m.blocks = n.blocks, m.storage = n.storage,
         m.audit.events = n.audit.events, m.audit.packed = n.audit.packed,
         n.audit.rewound => m.audit.rewound,
         ~m.audit.rewound => m.current_timestamp >= n.current_timestamp
  PROVE  Good(m) /\ Follows(n, m)
<1>. DEFINE packed == n.audit.packed
<1>1. \A k : blockOf(m, k) = blockOf(n, k)
  BY DEF blockOf
<1>2. Numbered(m) /\ Linked(m)
  BY <1>1 DEF Good, Sound, Chain, Numbered, Linked
<1>3. Ordered(m, packed)
  BY <1>1 DEF Good, Sound, Chain, Ordered
<1>4. Counted(m)
  BY DEF Good, Sound, Counted
<1>5. latest(m) = latest(n)
  BY <1>1 DEF latest
<1>6. n.current_timestamp \in Nat /\ latest(n).timestamp \in Nat
      /\ (n.storage.batch.number > 0 =>
            Max({n.storage.batch.timestamp, n.storage.l2_block.timestamp}) \in Nat)
  <2>1. latest(n).timestamp \in Nat
    BY DEF Good, Sound, Chain, Numbered, latest, ForkInRange, first
  <2>. QED BY <2>1, MaxOfTwo DEF Good, Sound, Counted
<1>7. InTime(m, packed)
  BY <1>5, <1>6 DEF Good, Sound, InTime, isBehind
<1>8. EndsEmpty(m) /\ KeepsHashes(n, m)
  BY DEF Good, Sound, EndsEmpty, KeepsHashes
<1>9. Extends(n.audit.events, m.audit.events)
  BY ExtendsReflexive DEF Good, Sound, Shaped
<1>. QED BY <1>2, <1>3, <1>4, <1>5, <1>7, <1>8, <1>9 DEF Good, Sound, Chain, Follows

-----------------------------------------------------------------------------
(***************************************************************************)
(* The first states.                                                       *)
(***************************************************************************)

(* A node with one block.                                                  *)
LEMMA NewNodeGood ==
  ASSUME ForkInRange, NEW block, NEW batch, NEW l2_block,
         block.number = first, block.hash[1] = first,
         block.batch \in Nat, block.timestamp \in Nat, block.batch = 0 => first = 0,
         batch.number = block.batch, batch.timestamp \in Nat, batch.timestamp <= block.timestamp,
         l2_block.number = first, l2_block.timestamp \in Nat, l2_block.timestamp <= block.timestamp,
         fork # NoFork \/ block.hash = compute_hash(first, NoTransaction)
  PROVE  Good(newNode(block, batch, l2_block))
<1>. DEFINE n == newNode(block, batch, l2_block)
<1>1. /\ Shaped(n)
      /\ n.current_timestamp = block.timestamp /\ n.current_batch = block.batch
      /\ n.current_miniblock = first
      /\ n.blocks = with(<<>>, block.hash, block) /\ n.block_hashes = with(<<>>, first, block.hash)
      /\ n.storage.batch = batch /\ n.storage.l2_block = l2_block
      /\ n.audit.rewound = FALSE /\ n.audit.packed = FALSE
  <2>1. <<>> \in Seq({})
    OBVIOUS
  <2>. QED BY <2>1 DEF newNode, localStorage, Shaped, IsNode, IsAudit, IsStorage, IsSequence
<1>. HIDE DEF n
<1>2. first \in Nat /\ first..first = {first} /\ (first + 1)..first = {}
  BY FirstInNat
<1>3. /\ DOMAIN n.block_hashes = {first} /\ n.block_hashes[first] = block.hash
      /\ DOMAIN n.blocks = {block.hash} /\ n.blocks[block.hash] = block
  BY <1>1 DEF with
<1>4. blockOf(n, first) = block /\ latest(n) = block
  BY <1>1, <1>3 DEF blockOf, latest
<1>5. Numbered(n)
  <2>1. DOMAIN n.blocks = {n.block_hashes[k] : k \in first..first}
    BY <1>2, <1>3
  <2>. QED BY <1>1, <1>2, <1>3, <1>4, <2>1 DEF Numbered
<1>6. Linked(n) /\ Ordered(n, FALSE)
  BY <1>1, <1>2 DEF Linked, Ordered
<1>7. Counted(n)
  BY <1>1, <1>2 DEF Counted
<1>8. InTime(n, FALSE)
  BY <1>1, <1>4, MaxOfTwo DEF InTime, isBehind
<1>9. EndsEmpty(n)
  BY <1>1, <1>2, <1>3 DEF EndsEmpty, NoFork, first
<1>10. Good(n)
  BY <1>1, <1>4, <1>5, <1>6, <1>7, <1>8, <1>9 DEF Good, Sound, Chain
<1>. QED BY <1>10 DEF n

(* A remote transaction is in one of the network's blocks.                 *)
LEMMA ReplayedBlock ==
  ASSUME NEW start \in Starts, start.command = "replay"
  PROVE  /\ remoteBlockOf(start.tx) # {}
         /\ (CHOOSE block \in remoteBlockOf(start.tx) : TRUE) \in DOMAIN RemoteBlocks
<1>1. \E i \in DOMAIN RemoteBlocks : start.tx \in Range(RemoteBlocks[i].transactions)
  BY NodeAssumption
<1>2. remoteBlockOf(start.tx) # {}
  BY <1>1 DEF remoteBlockOf, Range
<1>. QED BY <1>2 DEF remoteBlockOf

(* The fork is taken at a block of the network.                            *)
LEMMA ForkIsRemote ==
  ASSUME NEW start \in Starts
  PROVE  forkOf(start) \in {NoFork} \cup 0..Len(RemoteBlocks)
<1>. DEFINE Block == [transactions : Seq(Transactions), timestamp : Nat, batch : Nat \ {0}]
<1>1. RemoteBlocks \in Seq(Block) /\ Len(RemoteBlocks) \in Nat
  BY NodeAssumption
<1>2. DOMAIN RemoteBlocks = 1..Len(RemoteBlocks)
  <2>. HIDE DEF Block
  <2>. QED BY <1>1
<1>3. CASE start.command = "run"
  BY <1>3 DEF forkOf
<1>4. CASE start.command = "fork"
  <2>1. start.at \subseteq 0..Len(RemoteBlocks)
    BY <1>4, NodeAssumption
  <2>2. forkOf(start) = from_network(start.at)
    BY <1>4 DEF forkOf
  <2>. QED BY <1>1, <2>1, <2>2 DEF from_network
<1>5. CASE start.command = "replay"
  <2>1. forkOf(start) = from_network_tx(start.tx)
    BY <1>5 DEF forkOf
  <2>2. (CHOOSE block \in remoteBlockOf(start.tx) : TRUE) \in 1..Len(RemoteBlocks)
    BY <1>2, <1>5, ReplayedBlock
  <2>. QED BY <1>1, <2>1, <2>2 DEF from_network_tx
<1>. QED BY <1>3, <1>4, <1>5, NodeAssumption

LEMMA InitFork == Init => fork \in {NoFork} \cup 0..Len(RemoteBlocks)
BY ForkIsRemote DEF Init

(* The invariant holds in the first states.                                *)
LEMMA InitInv == Init => NodeInv
<1>. SUFFICES ASSUME Init PROVE NodeInv
  OBVIOUS
<1>1. PICK start \in Starts :
        /\ fork = forkOf(start)
        /\ startup = [command |-> start.command, contracts |-> start.contracts, ready |-> FALSE,
                      replay |-> IF start.command = "replay"
                                 THEN get_earlier_transactions_in_same_block(start.tx) ELSE <<>>]
        /\ node = IF fork = NoFork THEN firstNode ELSE forkNode(fork)
        /\ snapshots = <<>>
        /\ poisoned = FALSE
  BY DEF Init
<1>. DEFINE Block == [transactions : Seq(Transactions), timestamp : Nat, batch : Nat \ {0}]
<1>2. RemoteBlocks \in Seq(Block) /\ Len(RemoteBlocks) \in Nat
  BY NodeAssumption
<1>3. \A i : i \in DOMAIN RemoteBlocks \/ i \in 1..Len(RemoteBlocks) =>
        i \in 1..Len(RemoteBlocks) /\ i \in DOMAIN RemoteBlocks /\ RemoteBlocks[i] \in Block
  <2>. HIDE DEF Block
  <2>. QED BY <1>2
<1>4. fork \in {NoFork} \cup 0..Len(RemoteBlocks)
  BY InitFork
<1>5. ForkInRange
  BY <1>4 DEF ForkInRange
<1>6. Good(node)
  <2>1. CASE fork = NoFork
    <3>. DEFINE block == create_empty_block(0, FirstTimestamp, 0)
    <3>1. FirstTimestamp \in Nat
      BY NodeAssumption
    <3>2. /\ first = 0 /\ block.number = 0 /\ block.hash = compute_hash(0, NoTransaction)
          /\ block.hash[1] = 0 /\ block.batch = 0 /\ block.timestamp = FirstTimestamp
      BY <2>1 DEF first, create_empty_block, compute_hash
    <3>3. node = newNode(block, [number |-> 0, timestamp |-> 0], [number |-> 0, timestamp |-> 0])
      BY <1>1, <2>1 DEF firstNode
    <3>. HIDE DEF block
    <3>. QED BY <1>5, <3>1, <3>2, <3>3, NewNodeGood
  <2>2. CASE fork # NoFork
    <3>. DEFINE block == remoteBlock(fork)
    <3>1. fork \in 0..Len(RemoteBlocks) /\ first = fork
      BY <1>4, <2>2 DEF first
    <3>2. /\ block.number = fork /\ block.hash = <<fork, Remote>> /\ block.hash[1] = fork
          /\ block.batch = IF fork = 0 THEN 0 ELSE RemoteBlocks[fork].batch
          /\ block.timestamp = IF fork = 0 THEN 0 ELSE RemoteBlocks[fork].timestamp
      BY DEF remoteBlock, remoteHash
    <3>3. block.batch \in Nat /\ block.timestamp \in Nat /\ (block.batch = 0 => fork = 0)
      <4>1. CASE fork = 0
        BY <3>2, <4>1
      <4>2. CASE fork # 0
        <5>1. fork \in 1..Len(RemoteBlocks)
          BY <1>2, <3>1, <4>2
        <5>2. RemoteBlocks[fork] \in Block
          BY <1>3, <5>1
        <5>. QED BY <3>2, <4>2, <5>2
      <4>. QED BY <4>1, <4>2
    <3>4. node = newNode(block, [number |-> block.batch, timestamp |-> block.timestamp],
                         [number |-> fork, timestamp |-> block.timestamp])
      BY <1>1, <2>2 DEF forkNode
    <3>. HIDE DEF block
    <3>. QED BY <1>5, <2>2, <3>1, <3>2, <3>3, <3>4, NewNodeGood
  <2>. QED BY <2>1, <2>2
<1>7. StartupTyped
  <2>1. CASE start.command = "replay"
    <3>. DEFINE block == CHOOSE block \in remoteBlockOf(start.tx) : TRUE
                all == RemoteBlocks[block].transactions
                last == CHOOSE i \in DOMAIN all : all[i] = start.tx
    <3>1. block \in remoteBlockOf(start.tx)
      BY <2>1, ReplayedBlock
    <3>2. block \in DOMAIN RemoteBlocks /\ \E k \in DOMAIN all : all[k] = start.tx
      BY <3>1 DEF remoteBlockOf
    <3>3. all \in Seq(Transactions)
      BY <1>3, <3>2
    <3>4. startup.replay = SubSeq(all, 1, last)
      BY <1>1, <2>1 DEF get_earlier_transactions_in_same_block
    <3>. HIDE DEF all, block
    <3>5. last \in DOMAIN all
      BY <3>2
    <3>6. last \in 1..Len(all)
      BY <3>3, <3>5
    <3>. HIDE DEF last
    <3>7. SubSeq(all, 1, last) \in Seq(Transactions)
      BY <3>3, <3>6
    <3>. QED BY <1>1, <3>4, <3>7 DEF StartupTyped
  <2>2. CASE start.command # "replay"
    <3>1. startup.replay = <<>>
      BY <1>1, <2>2
    <3>2. <<>> \in Seq(Transactions)
      OBVIOUS
    <3>. QED BY <1>1, <3>1, <3>2 DEF StartupTyped
  <2>. QED BY <2>1, <2>2
<1>8. SnapshotsGood
  <2>1. <<>> \in Seq({}) /\ DOMAIN <<>> = {}
    OBVIOUS
  <2>. QED BY <1>1, <2>1 DEF SnapshotsGood, IsSequence
<1>9. DOMAIN snapshots = {}
  BY <1>1
<1>. QED BY <1>1, <1>5, <1>6, <1>7, <1>8, <1>9 DEF NodeInv, NodeGood

-----------------------------------------------------------------------------
(***************************************************************************)
(* The steps.                                                              *)
(***************************************************************************)

(* What a request does to a node that answers it.                          *)
RunsOn ==
    /\ poisoned' \in BOOLEAN
    /\ poisoned' => isBehind(node)
    /\ ~poisoned' => Good(node') /\ Follows(node, node')

LEMMA LedgerRuns ==
  ASSUME Good(node), poisoned = FALSE, SameLedger(node, node'), UNCHANGED poisoned
  PROVE  RunsOn
<1>1. Good(node') /\ Follows(node, node')
  BY LedgerFrame
<1>. QED BY <1>1 DEF RunsOn

(* A transaction, whether it is refused, halts or is committed.            *)
LEMMA TransactionRuns ==
  ASSUME ForkInRange, Good(node), poisoned = FALSE, NEW t \in Transactions, run_l2_tx(t)
  PROVE  RunsOn
<1>. DEFINE p == pending(t)
<1>1. Shaped(node)
  BY DEF Good, Sound
<1>2. Told(node, p)
  BY <1>1, TellFields DEF pending
<1>. HIDE DEF p
<1>3. CASE RejectTx(t)
  <2>1. SameLedger(node, node')
    BY <1>1, <1>3, ExtendsReflexive DEF RejectTx, SameLedger, Shaped
  <2>. QED BY <1>3, <2>1, LedgerRuns DEF RejectTx
<1>4. CASE HaltTx(t)
  <2>1. SameLedger(node, node')
    BY <1>2, <1>4 DEF HaltTx, SameLedger, Told, SameBatch, p
  <2>. QED BY <1>4, <2>1, LedgerRuns DEF HaltTx
<1>5. CASE CommitTx(t)
  <2>. DEFINE s == commit(p, t, create_l1_batch_env(node))
  <2>1. node' = s.node /\ poisoned' = s.poisoned
    BY <1>5 DEF CommitTx, p
  <2>2. Commits(node, s)
    BY <1>2, CommitFields
  <2>. HIDE DEF s
  <2>. QED BY <2>1, <2>2 DEF RunsOn, Commits
<1>. QED BY <1>3, <1>4, <1>5 DEF run_l2_tx

(* Blocks without transactions.                                            *)
LEMMA MiningRuns ==
  ASSUME ForkInRange, Good(node), poisoned = FALSE, NEW num_blocks \in Nat \ {0}, NEW interval \in Nat,
         MineBlocks(num_blocks, interval)
  PROVE  RunsOn
<1>. DEFINE m == mine_empty_blocks(node, num_blocks, interval * Millis)
            close == num_blocks > 1 /\ interval = 0
            packed == node.audit.packed \/ close
<1>1. Millis \in Nat \ {0}
  BY NodeAssumption
<1>2. interval * Millis \in Nat /\ (interval * Millis = 0 => interval = 0)
  BY <1>1
<1>3. Sound(node, packed)
  <2>1. Chain(node, packed) /\ InTime(node, packed)
    BY DEF Good, Sound, Chain, Ordered, inOrder, InTime
  <2>. QED BY <2>1 DEF Good, Sound
<1>4. Sound(m, packed) /\ Follows(node, m) /\ m.audit.packed = node.audit.packed
  <2>. HIDE DEF m
  <2>1. num_blocks > 1 /\ interval * Millis = 0 => packed
    BY <1>2
  <2>. HIDE DEF packed
  <2>2. \A ms \in Nat : (num_blocks > 1 /\ ms = 0 => packed) =>
          LET r == mine_empty_blocks(node, num_blocks, ms)
          IN  Sound(r, packed) /\ Follows(node, r) /\ r.audit.packed = node.audit.packed
    BY <1>3, MineFields
  <2>. QED BY <1>2, <2>1, <2>2 DEF m
<1>5. node' = [m EXCEPT !.audit.packed = @ \/ close] /\ poisoned' = poisoned /\ ~poisoned
  BY DEF MineBlocks, serving
<1>. HIDE DEF m
<1>6. /\ Shaped(node') /\ node'.audit.events = m.audit.events
      /\ node'.audit.rewound = m.audit.rewound /\ node'.audit.packed = (m.audit.packed \/ close)
      /\ node'.current_timestamp = m.current_timestamp /\ node'.current_batch = m.current_batch
      /\ node'.current_miniblock = m.current_miniblock
      /\ node'.block_hashes = m.block_hashes /\ node'.blocks = m.blocks
      /\ node'.storage = m.storage
  BY <1>4, <1>5 DEF Sound, Shaped, IsNode, IsAudit
<1>7. /\ Chain(node', packed) /\ latest(node') = latest(m) /\ EndsEmpty(node')
  BY <1>4, <1>6, ChainFrame DEF Sound
<1>8. Counted(node') /\ InTime(node', packed)
  BY <1>4, <1>6, <1>7 DEF Sound, Counted, InTime, isBehind
<1>9. Sound(node', packed)
  BY <1>4, <1>6, <1>7, <1>8 DEF Sound
<1>10. Good(node')
  <2>1. node'.audit.packed = packed
    BY <1>4, <1>6
  <2>. HIDE DEF packed
  <2>. QED BY <1>9, <2>1 DEF Good
<1>11. Follows(node, node')
  BY <1>4, <1>6 DEF Follows, KeepsHashes
<1>. QED BY <1>5, <1>10, <1>11 DEF RunsOn

(* The requests that set something count themselves.                       *)
LEMMA SetRuns ==
  ASSUME NEW m, poisoned = FALSE, Good(node), Good(m), Follows(node, m), set(m)
  PROVE  RunsOn
<1>1. node' = [m EXCEPT !.audit.settings = @ + 1] /\ ~poisoned /\ UNCHANGED poisoned
  BY DEF set, serving
<1>2. SameLedger(m, node')
  BY <1>1, ExtendsReflexive DEF SameLedger, Good, Sound, Shaped, IsNode, IsAudit
<1>3. Good(node') /\ Follows(m, node')
  BY <1>2, LedgerFrame
<1>4. Follows(node, node')
  BY <1>3, FollowsTransitive DEF Good, Sound, Shaped
<1>. QED BY <1>1, <1>3, <1>4 DEF RunsOn

(* The clock.                                                              *)
LEMMA ClockRuns ==
  ASSUME ForkInRange, Good(node), poisoned = FALSE, NEW time \in Nat,
         NEW delta \in Nat,
         IncreaseTime(delta) \/ SetNextBlockTimestamp(time) \/ SetTime(time)
  PROVE  RunsOn
<1>1. Shaped(node) /\ node.current_timestamp \in Nat
  BY DEF Good, Sound, Counted
<1>2. CASE IncreaseTime(delta)
  <2>. DEFINE m == [node EXCEPT !.current_timestamp = @ + delta * Millis]
  <2>1. delta * Millis \in Nat
    BY NodeAssumption
  <2>2. set(m)
    BY <1>2 DEF IncreaseTime
  <2>3. /\ Shaped(m) /\ m.audit = node.audit /\ m.storage = node.storage
        /\ m.current_timestamp = node.current_timestamp + delta * Millis
        /\ m.current_batch = node.current_batch /\ m.current_miniblock = node.current_miniblock
        /\ m.block_hashes = node.block_hashes /\ m.blocks = node.blocks
    BY <1>1 DEF Shaped, IsNode
  <2>. HIDE DEF m
  <2>4. m.current_timestamp \in Nat /\ m.current_timestamp >= node.current_timestamp
    BY <1>1, <2>1, <2>3
  <2>5. Good(m) /\ Follows(node, m)
    BY <2>3, <2>4, ClockFrame
  <2>. QED BY <2>2, <2>5, SetRuns
<1>3. CASE SetNextBlockTimestamp(time)
  <2>. DEFINE m == [node EXCEPT !.current_timestamp = time]
  <2>1. time >= node.current_timestamp /\ set(m)
    BY <1>3 DEF SetNextBlockTimestamp
  <2>2. Good(m) /\ Follows(node, m)
    BY <1>1, <2>1, ClockFrame DEF Shaped, IsNode
  <2>. HIDE DEF m
  <2>. QED BY <2>1, <2>2, SetRuns
<1>4. CASE SetTime(time)
  <2>. DEFINE back == time < node.current_timestamp
              m == [node EXCEPT !.current_timestamp = time, !.audit.rewound = @ \/ back]
  <2>1. set(m)
    BY <1>4 DEF SetTime
  <2>2. /\ Shaped(m) /\ m.current_timestamp = time
        /\ m.current_batch = node.current_batch /\ m.current_miniblock = node.current_miniblock
        /\ m.block_hashes = node.block_hashes /\ m.blocks = node.blocks
        /\ m.storage = node.storage /\ m.audit.events = node.audit.events
        /\ m.audit.packed = node.audit.packed
        /\ m.audit.rewound = (node.audit.rewound \/ back)
    BY <1>1 DEF Shaped, IsNode, IsAudit
  <2>. HIDE DEF m
  <2>3. ~back => time >= node.current_timestamp
    BY <1>1
  <2>4. Good(m) /\ Follows(node, m)
    <3>1. CASE node.audit.rewound \/ back
      BY <2>2, <3>1, ClockFrame
    <3>2. CASE ~(node.audit.rewound \/ back)
      BY <2>2, <2>3, <3>2, ClockFrame
    <3>. QED BY <3>1, <3>2
  <2>. QED BY <2>1, <2>4, SetRuns
<1>. QED BY <1>2, <1>3, <1>4

(* The requests of hardhat that set a part of the state.                   *)
LEMMA SettingsRun ==
  ASSUME Good(node), poisoned = FALSE, NEW account, NEW value,
         \/ SetBalance(account, value) \/ SetNonce(account, value) \/ SetCode(account, value)
         \/ ImpersonateAccount(account) \/ StopImpersonatingAccount(account)
  PROVE  RunsOn
<1>1. Shaped(node) /\ Extends(node.audit.events, node.audit.events)
  BY ExtendsReflexive DEF Good, Sound, Shaped
<1>2. ASSUME NEW m, SameLedger(node, m), set(m) PROVE RunsOn
  BY <1>2, LedgerFrame, SetRuns
<1>3. CASE SetBalance(account, value)
  <2>. DEFINE m == [node EXCEPT !.storage.slots[account] = value,
                                !.audit.stateAt[node.current_miniblock][account] = value]
  <2>1. SameLedger(node, m)
    BY <1>1 DEF SameLedger, Shaped, IsNode, IsAudit, IsStorage
  <2>2. set(m)
    BY <1>3 DEF SetBalance
  <2>. HIDE DEF m
  <2>. QED BY <1>2, <2>1, <2>2
<1>4. CASE SetNonce(account, value)
  <2>. DEFINE m == [node EXCEPT !.storage.nonces[account] = value,
                                !.audit.jumped = @ \cup {account}]
  <2>1. SameLedger(node, m)
    BY <1>1 DEF SameLedger, Shaped, IsNode, IsAudit, IsStorage
  <2>2. set(m)
    BY <1>4 DEF SetNonce
  <2>. HIDE DEF m
  <2>. QED BY <1>2, <2>1, <2>2
<1>5. CASE SetCode(account, value)
  <2>. DEFINE m == [node EXCEPT !.storage.codes[account] = value]
  <2>1. SameLedger(node, m)
    BY <1>1 DEF SameLedger, Shaped, IsNode, IsAudit, IsStorage
  <2>2. set(m)
    BY <1>5 DEF SetCode
  <2>. HIDE DEF m
  <2>. QED BY <1>2, <2>1, <2>2
<1>6. CASE ImpersonateAccount(account)
  <2>. DEFINE m == [node EXCEPT !.impersonated = @ \cup {account}]
  <2>1. SameLedger(node, m)
    BY <1>1 DEF SameLedger, Shaped, IsNode
  <2>2. set(m)
    BY <1>6 DEF ImpersonateAccount
  <2>. HIDE DEF m
  <2>. QED BY <1>2, <2>1, <2>2
<1>7. CASE StopImpersonatingAccount(account)
  <2>1. SameLedger(node, node') /\ UNCHANGED poisoned
    BY <1>1, <1>7 DEF StopImpersonatingAccount, SameLedger, Shaped, IsNode
  <2>. QED BY <2>1, LedgerRuns
<1>. QED BY <1>3, <1>4, <1>5, <1>6, <1>7

(* Filters.                                                                *)
LEMMA FiltersRun ==
  ASSUME Good(node), poisoned = FALSE, NEW f, NEW id,
         \/ NewBlockFilter \/ NewPendingTransactionFilter \/ NewFilter(f)
         \/ UninstallFilter(id) \/ GetFilterChanges(id)
  PROVE  RunsOn
<1>1. Shaped(node) /\ Extends(node.audit.events, node.audit.events)
  BY ExtendsReflexive DEF Good, Sound, Shaped
<1>2. ASSUME NEW ef, install(ef) PROVE RunsOn
  <2>1. SameLedger(node, node') /\ UNCHANGED poisoned
    BY <1>1, <1>2 DEF install, SameLedger, Shaped, IsNode, IsAudit
  <2>. QED BY <2>1, LedgerRuns
<1>3. CASE NewBlockFilter \/ NewPendingTransactionFilter \/ NewFilter(f)
  BY <1>2, <1>3 DEF NewBlockFilter, NewPendingTransactionFilter, NewFilter
<1>4. CASE UninstallFilter(id)
  <2>1. SameLedger(node, node') /\ UNCHANGED poisoned
    BY <1>1, <1>4 DEF UninstallFilter, SameLedger, Shaped, IsNode, IsAudit
  <2>. QED BY <2>1, LedgerRuns
<1>5. CASE GetFilterChanges(id)
  <2>1. SameLedger(node, node') /\ UNCHANGED poisoned
    BY <1>1, <1>5 DEF GetFilterChanges, SameLedger, Shaped, IsNode, IsAudit
  <2>. QED BY <2>1, LedgerRuns
<1>. QED BY <1>3, <1>4, <1>5

(* A step that leaves the snapshots alone.                                 *)
LEMMA RunsOnKeepsInv ==
  ASSUME NodeInv, poisoned = FALSE, RunsOn, UNCHANGED <<fork, snapshots>>, StartupTyped'
  PROVE  NodeInv'
<1>1. ForkInRange' /\ (poisoned \in BOOLEAN)'
  BY DEF NodeInv, ForkInRange, RunsOn
<1>2. \A n : Good(n)' <=> Good(n)
  BY DEF Good, Sound, Shaped, Chain, Numbered, Linked, Ordered, Counted, InTime, EndsEmpty, first,
         orphan, blockOf, latest, isBehind, inOrder
<1>3. SnapshotsGood'
  BY <1>2 DEF NodeInv, SnapshotsGood
<1>4. ASSUME ~poisoned'
      PROVE  Good(node)' /\ \A i \in DOMAIN snapshots : Follows(snapshots[i], node')
  <2>1. Good(node') /\ Follows(node, node')
    BY <1>4 DEF RunsOn
  <2>2. Good(node)'
    <3>1. Chain(node, node.audit.packed)'
      BY <2>1 DEF Good, Sound, Chain, Numbered, Linked, Ordered, first, orphan, blockOf, inOrder
    <3>2. Shaped(node)' /\ Counted(node)' /\ EndsEmpty(node)'
      BY <2>1 DEF Good, Sound, Shaped, Counted, EndsEmpty
    <3>3. InTime(node, node.audit.packed)' /\ (latest(node).batch = node.current_batch)'
      BY <2>1 DEF Good, Sound, InTime, isBehind, latest, blockOf
    <3>. QED BY <3>1, <3>2, <3>3 DEF Good, Sound
  <2>3. ASSUME NEW i \in DOMAIN snapshots PROVE Follows(snapshots[i], node')
    <3>1. Follows(snapshots[i], node) /\ IsSequence(snapshots[i].audit.events)
      BY DEF NodeInv, NodeGood, SnapshotsGood, Good, Sound, Shaped
    <3>. QED BY <2>1, <3>1, FollowsTransitive
  <2>. QED BY <2>2, <2>3
<1>. QED BY <1>1, <1>3, <1>4 DEF NodeInv, NodeGood

(* A snapshot is the node, and later than every other snapshot.            *)
LEMMA SnapshotKeepsInv ==
  ASSUME NodeInv, poisoned = FALSE, Snapshot
  PROVE  NodeInv'
<1>1. /\ snapshots' = Append(snapshots, node) /\ node' = node /\ poisoned' = poisoned
      /\ fork' = fork /\ startup' = startup
  BY DEF Snapshot
<1>2. PICK S : snapshots \in Seq(S)
  BY DEF NodeInv, SnapshotsGood, IsSequence
<1>. DEFINE L == Len(snapshots)
<1>3. /\ L \in Nat /\ DOMAIN snapshots = 1..L /\ snapshots' \in Seq(S \cup {node})
      /\ DOMAIN snapshots' = 1..(L + 1) /\ snapshots'[L + 1] = node
      /\ \A i \in 1..L : snapshots'[i] = snapshots[i]
  <2>1. snapshots \in Seq(S \cup {node})
    BY <1>2
  <2>. QED BY <1>1, <2>1
<1>. HIDE DEF L
<1>4. ForkInRange' /\ (poisoned \in BOOLEAN)' /\ StartupTyped'
  BY <1>1 DEF NodeInv, ForkInRange, StartupTyped
<1>5. \A n : Good(n)' <=> Good(n)
  BY <1>1 DEF Good, Sound, Shaped, Chain, Numbered, Linked, Ordered, Counted, InTime, EndsEmpty,
              first, orphan, blockOf, latest, isBehind, inOrder
<1>6. Good(node) /\ Follows(node, node)
  BY ExtendsReflexive DEF NodeInv, NodeGood, Good, Sound, Shaped, Follows, KeepsHashes
<1>7. \A i \in 1..(L + 1) : Good(snapshots'[i]) /\ Follows(snapshots'[i], node)
  BY <1>3, <1>6 DEF NodeInv, NodeGood, SnapshotsGood
<1>8. \A i, j \in 1..(L + 1) : i < j => Follows(snapshots'[i], snapshots'[j])
  <2>. SUFFICES ASSUME NEW i \in 1..(L + 1), NEW j \in 1..(L + 1), i < j
                PROVE  Follows(snapshots'[i], snapshots'[j])
    OBVIOUS
  <2>1. CASE j = L + 1
    BY <1>3, <1>7, <2>1
  <2>2. CASE j # L + 1
    <3>1. i \in 1..L /\ j \in 1..L
      BY <1>3, <2>2
    <3>. QED BY <1>3, <3>1 DEF NodeInv, SnapshotsGood
  <2>. QED BY <2>1, <2>2
<1>9. SnapshotsGood'
  BY <1>3, <1>5, <1>7, <1>8 DEF SnapshotsGood, IsSequence
<1>10. NodeGood'
  <2>1. Good(node)'
    <3>1. Chain(node, node.audit.packed)'
      BY <1>1, <1>6 DEF Good, Sound, Chain, Numbered, Linked, Ordered, first, orphan, blockOf, inOrder
    <3>2. Shaped(node)' /\ Counted(node)' /\ EndsEmpty(node)'
      BY <1>1, <1>6 DEF Good, Sound, Shaped, Counted, EndsEmpty
    <3>3. InTime(node, node.audit.packed)' /\ (latest(node).batch = node.current_batch)'
      BY <1>1, <1>6 DEF Good, Sound, InTime, isBehind, latest, blockOf
    <3>. QED BY <3>1, <3>2, <3>3 DEF Good, Sound
  <2>. QED BY <1>1, <1>3, <1>7, <2>1 DEF NodeGood
<1>. QED BY <1>4, <1>9, <1>10 DEF NodeInv

(* A revert brings back a snapshot, and leaves those before it.            *)
LEMMA RevertKeepsInv ==
  ASSUME NodeInv, poisoned = FALSE, NEW id \in Nat, RevertSnapshot(id)
  PROVE  NodeInv'
<1>. DEFINE index == IF id = 0 THEN 1 ELSE id
            L == Len(snapshots)
<1>1. /\ index <= L /\ node' = snapshots[index] /\ snapshots' = SubSeq(snapshots, 1, index - 1)
      /\ poisoned' = poisoned /\ fork' = fork /\ startup' = startup
  BY DEF RevertSnapshot, restore_snapshot
<1>2. PICK S : snapshots \in Seq(S)
  BY DEF NodeInv, SnapshotsGood, IsSequence
<1>3. L \in Nat /\ DOMAIN snapshots = 1..L /\ index \in 1..L
  BY <1>1, <1>2
<1>. HIDE DEF index, L
<1>4. /\ snapshots' \in Seq(S) /\ DOMAIN snapshots' = 1..(index - 1)
      /\ \A i \in 1..(index - 1) : snapshots'[i] = snapshots[i] /\ i \in 1..L /\ i < index
  BY <1>1, <1>2, <1>3 DEF L
<1>5. ForkInRange' /\ (poisoned \in BOOLEAN)' /\ StartupTyped'
  BY <1>1 DEF NodeInv, ForkInRange, StartupTyped
<1>6. \A n : Good(n)' <=> Good(n)
  BY <1>1 DEF Good, Sound, Shaped, Chain, Numbered, Linked, Ordered, Counted, InTime, EndsEmpty,
              first, orphan, blockOf, latest, isBehind, inOrder
<1>7. \A i \in 1..(index - 1) : Good(snapshots'[i]) /\ Follows(snapshots'[i], node')
  BY <1>1, <1>3, <1>4 DEF NodeInv, SnapshotsGood
<1>8. SnapshotsGood'
  BY <1>3, <1>4, <1>6, <1>7 DEF NodeInv, SnapshotsGood, IsSequence
<1>9. NodeGood'
  <2>1. Good(node')
    BY <1>1, <1>3 DEF NodeInv, SnapshotsGood
  <2>2. fork' = fork
    BY <1>1
  <2>3. Good(node)'
    <3>1. Chain(node, node.audit.packed)'
      BY <2>1, <2>2 DEF Good, Sound, Chain, Numbered, Linked, Ordered, first, orphan, blockOf, inOrder
    <3>2. Shaped(node)' /\ Counted(node)' /\ EndsEmpty(node)'
      BY <2>1, <2>2 DEF Good, Sound, Shaped, Counted, EndsEmpty
    <3>3. InTime(node, node.audit.packed)' /\ (latest(node).batch = node.current_batch)'
      BY <2>1, <2>2 DEF Good, Sound, InTime, isBehind, latest, blockOf
    <3>. QED BY <3>1, <3>2, <3>3 DEF Good, Sound
  <2>. QED BY <1>4, <1>7, <2>3 DEF NodeGood
<1>. QED BY <1>5, <1>8, <1>9 DEF NodeInv

-----------------------------------------------------------------------------
(***************************************************************************)
(* Every step keeps the invariant and panics for one reason.               *)
(***************************************************************************)

(* The lock is poisoned only when the clock was behind, or by the fork.    *)
PanicIsDue == poisoned' => poisoned \/ Behind \/ ForkFails

LEMMA RunsOnIsDue ==
  ASSUME NodeInv, poisoned = FALSE, RunsOn, UNCHANGED <<fork, snapshots>>, StartupTyped'
  PROVE  NodeInv' /\ PanicIsDue
<1>1. NodeInv'
  BY RunsOnKeepsInv
<1>2. PanicIsDue
  BY DEF RunsOn, PanicIsDue, Behind, isBehind
<1>. QED BY <1>1, <1>2

(* A request that is answered with the lock held.                          *)
LEMMA RequestIsDue ==
  ASSUME NodeInv, poisoned = FALSE, RunsOn, UNCHANGED <<fork, startup, snapshots>>
  PROVE  NodeInv' /\ PanicIsDue
<1>1. StartupTyped'
  BY DEF NodeInv, StartupTyped
<1>. QED BY <1>1, RunsOnIsDue

LEMMA StartupKeepsInv == NodeInv /\ Startup => NodeInv' /\ PanicIsDue
<1>. SUFFICES ASSUME NodeInv, Startup PROVE NodeInv' /\ PanicIsDue
  OBVIOUS
<1>1. poisoned = FALSE
  BY DEF NodeInv, Startup, ApplyTx, SetRichAccounts
<1>2. ForkInRange /\ StartupTyped /\ Good(node)
  BY <1>1 DEF NodeInv, NodeGood
<1>3. CASE ApplyTx
  <2>. DEFINE t == Head(startup.replay)
  <2>1. startup.replay \in Seq(Transactions) /\ startup.replay # <<>>
    BY <1>2, <1>3 DEF ApplyTx, StartupTyped
  <2>2. t \in Transactions /\ Tail(startup.replay) \in Seq(Transactions)
        /\ <<>> \in Seq(Transactions)
    BY <2>1
  <2>3. /\ run_l2_tx(t) /\ UNCHANGED <<fork, snapshots>>
        /\ \/ startup' = [startup EXCEPT !.replay = <<>>]
           \/ startup' = [startup EXCEPT !.replay = Tail(@)]
    BY <1>3 DEF ApplyTx, run_l2_tx
  <2>. HIDE DEF t
  <2>4. RunsOn
    BY <1>1, <1>2, <2>2, <2>3, TransactionRuns
  <2>5. StartupTyped'
    BY <1>2, <2>2, <2>3 DEF StartupTyped
  <2>. QED BY <1>1, <2>3, <2>4, <2>5, RunsOnIsDue
<1>4. CASE SetRichAccounts
  <2>1. Shaped(node) /\ Extends(node.audit.events, node.audit.events)
    BY <1>2, ExtendsReflexive DEF Good, Sound, Shaped
  <2>2. SameLedger(node, node') /\ UNCHANGED <<fork, snapshots, poisoned>>
    BY <1>4, <2>1 DEF SetRichAccounts, SameLedger, Shaped, IsNode, IsAudit, IsStorage
  <2>3. RunsOn
    BY <1>1, <1>2, <2>2, LedgerRuns
  <2>4. StartupTyped'
    BY <1>2, <1>4 DEF SetRichAccounts, StartupTyped
  <2>. QED BY <1>1, <2>2, <2>3, <2>4, RunsOnIsDue
<1>. QED BY <1>3, <1>4 DEF Startup

LEMMA EthKeepsInv == NodeInv /\ Eth => NodeInv' /\ PanicIsDue
<1>. SUFFICES ASSUME NodeInv, Eth PROVE NodeInv' /\ PanicIsDue
  OBVIOUS
<1>1. /\ poisoned = FALSE
      /\ UNCHANGED <<fork, startup, snapshots>>
      /\ \/ \E t \in Sent : run_l2_tx(t)
         \/ \E f, id : \/ NewBlockFilter \/ NewPendingTransactionFilter \/ NewFilter(f)
                       \/ UninstallFilter(id) \/ GetFilterChanges(id)
  BY DEF NodeInv, Eth, SendRawTransaction, SendTransaction, NewBlockFilter,
         NewPendingTransactionFilter, NewFilter, install, UninstallFilter, GetFilterChanges, serving
<1>2. ForkInRange /\ Good(node)
  BY <1>1 DEF NodeInv, NodeGood
<1>3. RunsOn
  <2>1. CASE \E t \in Sent : run_l2_tx(t)
    BY <1>1, <1>2, <2>1, NodeAssumption, TransactionRuns
  <2>2. CASE \E f, id : \/ NewBlockFilter \/ NewPendingTransactionFilter \/ NewFilter(f)
                        \/ UninstallFilter(id) \/ GetFilterChanges(id)
    BY <1>1, <1>2, <2>2, FiltersRun
  <2>. QED BY <1>1, <2>1, <2>2
<1>. QED BY <1>1, <1>3, RequestIsDue

LEMMA EvmKeepsInv == NodeInv /\ Evm => NodeInv' /\ PanicIsDue
<1>. SUFFICES ASSUME NodeInv, Evm PROVE NodeInv' /\ PanicIsDue
  OBVIOUS
<1>1. poisoned = FALSE
  BY DEF NodeInv, Evm, IncreaseTime, SetNextBlockTimestamp, SetTime, set, MineBlock, MineBlocks,
         Snapshot, RevertSnapshot, serving
<1>2. ForkInRange /\ Good(node) /\ Times \subseteq Nat /\ Deltas \subseteq Nat
  BY <1>1, NodeAssumption DEF NodeInv, NodeGood
<1>3. ASSUME NEW delta \in Deltas, IncreaseTime(delta) PROVE NodeInv' /\ PanicIsDue
  <2>1. RunsOn
    BY <1>1, <1>2, <1>3, ClockRuns
  <2>. QED BY <1>1, <1>3, <2>1, RequestIsDue DEF IncreaseTime, set
<1>4. ASSUME NEW time \in Times, SetNextBlockTimestamp(time) \/ SetTime(time)
      PROVE  NodeInv' /\ PanicIsDue
  <2>1. 0 \in Nat /\ time \in Nat
    BY <1>2
  <2>2. RunsOn
    BY <1>1, <1>2, <1>4, <2>1, ClockRuns
  <2>. QED BY <1>1, <1>4, <2>2, RequestIsDue DEF SetNextBlockTimestamp, SetTime, set
<1>5. CASE MineBlock
  <2>1. MineBlocks(1, 1) /\ 1 \in Nat \ {0} /\ 1 \in Nat
    BY <1>5 DEF MineBlock
  <2>2. RunsOn
    BY <1>1, <1>2, <2>1, MiningRuns
  <2>. QED BY <1>1, <2>1, <2>2, RequestIsDue DEF MineBlocks
<1>6. CASE Snapshot
  BY <1>1, <1>6, SnapshotKeepsInv DEF PanicIsDue, Snapshot
<1>7. ASSUME NEW id \in 0..MAX_SNAPSHOTS, RevertSnapshot(id) PROVE NodeInv' /\ PanicIsDue
  <2>1. id \in Nat
    BY NodeAssumption
  <2>. QED BY <1>1, <1>7, <2>1, RevertKeepsInv DEF PanicIsDue, RevertSnapshot
<1>. QED BY <1>3, <1>4, <1>5, <1>6, <1>7 DEF Evm

LEMMA HardhatKeepsInv == NodeInv /\ Hardhat => NodeInv' /\ PanicIsDue
<1>. SUFFICES ASSUME NodeInv, Hardhat PROVE NodeInv' /\ PanicIsDue
  OBVIOUS
<1>1. /\ poisoned = FALSE
      /\ UNCHANGED <<fork, startup, snapshots>>
  BY DEF NodeInv, Hardhat, SetBalance, SetNonce, SetCode, set, MineBlocks, ImpersonateAccount,
         StopImpersonatingAccount, serving
<1>2. ForkInRange /\ Good(node)
  BY <1>1 DEF NodeInv, NodeGood
<1>3. CASE \E num \in Counts, interval \in Intervals : MineBlocks(num, interval)
  <2>1. RunsOn
    BY <1>1, <1>2, <1>3, NodeAssumption, MiningRuns
  <2>. QED BY <1>1, <2>1, RequestIsDue
<1>4. CASE \E account, value :
              \/ SetBalance(account, value) \/ SetNonce(account, value) \/ SetCode(account, value)
              \/ ImpersonateAccount(account) \/ StopImpersonatingAccount(account)
  <2>1. RunsOn
    BY <1>1, <1>2, <1>4, SettingsRun
  <2>. QED BY <1>1, <2>1, RequestIsDue
<1>. QED BY <1>3, <1>4 DEF Hardhat

(* A fork that cannot be read leaves only the lock changed.                *)
LEMMA ForkFailsKeepsInv == NodeInv /\ ForkFails => NodeInv' /\ PanicIsDue
<1>. SUFFICES ASSUME NodeInv, ForkFails PROVE NodeInv' /\ PanicIsDue
  OBVIOUS
<1>1. /\ poisoned' = TRUE /\ fork' = fork /\ startup' = startup /\ node' = node
      /\ snapshots' = snapshots
  BY DEF ForkFails
<1>2. \A n : Good(n)' <=> Good(n)
  BY <1>1 DEF Good, Sound, Shaped, Chain, Numbered, Linked, Ordered, Counted, InTime, EndsEmpty,
              first, orphan, blockOf, latest, isBehind, inOrder
<1>3. ForkInRange' /\ StartupTyped' /\ SnapshotsGood'
  BY <1>1, <1>2 DEF NodeInv, ForkInRange, StartupTyped, SnapshotsGood
<1>. QED BY <1>1, <1>3 DEF NodeInv, NodeGood, PanicIsDue

LEMMA StutterKeepsInv == NodeInv /\ UNCHANGED vars => NodeInv' /\ PanicIsDue
<1>. SUFFICES ASSUME NodeInv, UNCHANGED vars PROVE NodeInv' /\ PanicIsDue
  OBVIOUS
<1>1. /\ poisoned' = poisoned /\ fork' = fork /\ startup' = startup /\ node' = node
      /\ snapshots' = snapshots
  BY DEF vars
<1>2. \A n : Good(n)' <=> Good(n)
  BY <1>1 DEF Good, Sound, Shaped, Chain, Numbered, Linked, Ordered, Counted, InTime, EndsEmpty,
              first, orphan, blockOf, latest, isBehind, inOrder
<1>3. ForkInRange' /\ StartupTyped' /\ SnapshotsGood' /\ (Good(node)' <=> Good(node))
  BY <1>1, <1>2 DEF NodeInv, ForkInRange, StartupTyped, SnapshotsGood
<1>. QED BY <1>1, <1>3 DEF NodeInv, NodeGood, PanicIsDue

LEMMA NextKeepsInv == NodeInv /\ [Next]_vars => NodeInv' /\ PanicIsDue
BY StartupKeepsInv, EthKeepsInv, EvmKeepsInv, HardhatKeepsInv, ForkFailsKeepsInv, StutterKeepsInv
   DEF Next, Dead

-----------------------------------------------------------------------------
(***************************************************************************)
(* The theorems.                                                           *)
(***************************************************************************)

(* The inductive invariant: unless the lock is poisoned the node is good   *)
(* and follows every snapshot; each snapshot is good and follows those     *)
(* before it.                                                              *)
THEOREM NodeInvariant == Spec => []NodeInv
<1>1. NodeInv /\ [Next]_vars => NodeInv'
  BY NextKeepsInv
<1>. QED BY InitInv, <1>1, PTL DEF Spec

(* run_l2_tx never panics on a block it did not expect while the clock is  *)
(* not behind the storage's: whatever was mined, set, reverted or replayed *)
(* before, the numbers and times that a transaction's blocks are given     *)
(* from the storage are those that the node counts to.                     *)
THEOREM PanicsAreDue == Spec => PanicsOnlyBehind
<1>1. NodeInv /\ [Next]_vars => PanicIsDue
  BY NextKeepsInv
<1>2. NodeInv /\ [Next]_vars => [poisoned' => poisoned \/ Behind \/ ForkFails]_vars
  BY <1>1 DEF PanicIsDue
<1>. QED BY NodeInvariant, <1>2, PTL DEF Spec, PanicsOnlyBehind

(* The names the properties use are those of the node.                     *)
LEMMA NodesNames ==
  /\ \A k : blockAt(k) = blockOf(node, k)
  /\ Behind <=> isBehind(node)
BY DEF blockAt, blockOf, Behind, isBehind

(* After every request the storage's numbers are the node's, and the clock *)
(* is behind, or timestamps do not grow, only as the property says.        *)
THEOREM StorageIsTracked == Spec => []NodeTracksStorage
<1>1. NodeInv => NodeTracksStorage
  <2>. SUFFICES ASSUME NodeInv, ~poisoned PROVE NodeTracksStorage
    BY DEF NodeTracksStorage
  <2>1. /\ Counted(node) /\ InTime(node, node.audit.packed) /\ Ordered(node, node.audit.packed)
    BY DEF NodeInv, NodeGood, Good, Sound, Chain
  <2>. QED BY <2>1, NodesNames DEF NodeTracksStorage, Counted, InTime, Ordered, inOrder
<1>. QED BY NodeInvariant, <1>1, PTL

(* The blocks of the node are one chain without gaps from the first to the *)
(* last, empty or not, on a fork or not.                                   *)
THEOREM ChainStaysLinked == Spec => []ChainIsLinked
<1>1. NodeInv => ChainIsLinked
  <2>. SUFFICES ASSUME NodeInv, ~poisoned PROVE ChainIsLinked
    BY DEF ChainIsLinked
  <2>1. /\ Numbered(node) /\ Linked(node) /\ latest(node).batch = node.current_batch
    BY DEF NodeInv, NodeGood, Good, Sound, Chain
  <2>2. DOMAIN node.blocks = Range(node.block_hashes)
    BY <2>1 DEF Numbered, Range
  <2>3. blockAt(node.current_miniblock).batch = node.current_batch
    BY <2>1, NodesNames DEF latest
  <2>. QED BY <2>1, <2>2, <2>3, NodesNames DEF ChainIsLinked, Numbered, Linked
<1>. QED BY NodeInvariant, <1>1, PTL

(* Follows is what the property calls a past.                              *)
LEMMA FollowsIsPast ==
  ASSUME NEW old, NEW new, Shaped(old), Follows(old, new)
  PROVE  IsPastOf(old, new)
<1>1. IsPrefix(old.audit.events, new.audit.events)
  BY ExtendsIsPrefix DEF Shaped, Follows
<1>. QED BY <1>1 DEF Follows, KeepsHashes, IsPastOf

(* Every snapshot is a past of the node and of the snapshots after it.     *)
THEOREM SnapshotsStayPasts == Spec => []SnapshotsArePasts
<1>1. NodeInv => SnapshotsArePasts
  <2>. SUFFICES ASSUME NodeInv PROVE SnapshotsArePasts
    OBVIOUS
  <2>1. \A i \in DOMAIN snapshots : Shaped(snapshots[i])
    BY DEF NodeInv, SnapshotsGood, Good, Sound
  <2>2. \A i, j \in DOMAIN snapshots : i < j => IsPastOf(snapshots[i], snapshots[j])
    BY <2>1, FollowsIsPast DEF NodeInv, SnapshotsGood
  <2>3. ~poisoned => \A i \in DOMAIN snapshots : IsPastOf(snapshots[i], node)
    BY <2>1, FollowsIsPast DEF NodeInv, NodeGood
  <2>. QED BY <2>2, <2>3 DEF SnapshotsArePasts
<1>. QED BY NodeInvariant, <1>1, PTL


-----------------------------------------------------------------------------
(***************************************************************************)
(* The updates at some places of a sequence of events.                     *)
(***************************************************************************)

(* What updatesAt computes, one place after the other.                     *)
LEMMA UpdatesAtSteps ==
  ASSUME NEW events, NEW places, Len(events) \in Nat
  PROVE  \E f : /\ updatesAt(events, places) = f[Len(events)] /\ f[0] = <<>>
                /\ \A i \in 1..Len(events) :
                      f[i] = IF i \in places THEN Append(f[i - 1], events[i].update) ELSE f[i - 1]
<1>. DEFINE L == Len(events)
            at(u, i) == IF i \in places THEN Append(u, events[i].update) ELSE u
            upTo(k, f) == f = [i \in 0..k |-> IF i = 0 THEN <<>> ELSE at(f[i - 1], i)]
            taken == CHOOSE f : upTo(L, f)
            S == {k \in Nat : \E f : upTo(k, f)}
<1>1. updatesAt(events, places) = taken[L]
  BY DEF updatesAt
<1>2. 0 \in S
  <2>1. upTo(0, [i \in 0..0 |-> <<>>])
    OBVIOUS
  <2>. HIDE DEF upTo
  <2>. QED BY <2>1
<1>3. ASSUME NEW k \in S PROVE k + 1 \in S
  <2>1. PICK f : upTo(k, f)
    <3>. HIDE DEF upTo
    <3>. QED OBVIOUS
  <2>2. upTo(k + 1, [i \in 0..(k + 1) |-> IF i = k + 1 THEN at(f[k], k + 1) ELSE f[i]])
    <3>. HIDE DEF at
    <3>. QED BY <2>1
  <2>. HIDE DEF upTo
  <2>. QED BY <2>2
<1>4. upTo(L, taken)
  <2>1. Nat \subseteq S
    <3>. HIDE DEF S
    <3>. QED BY <1>2, <1>3, SetInduction
  <2>2. \E f : upTo(L, f)
    BY <2>1
  <2>. HIDE DEF upTo
  <2>. QED BY <2>2
<1>. HIDE DEF taken
<1>5. taken[0] = <<>> /\ \A i \in 1..L : taken[i] = at(taken[i - 1], i)
  <2>. HIDE DEF at
  <2>. QED BY <1>4
<1>. QED BY <1>1, <1>5

(* An event after the others adds its update, if its place is taken.       *)
LEMMA UpdatesAtAppend ==
  ASSUME NEW events, NEW e, NEW places, NEW more, IsSequence(events),
         \A i \in 1..Len(events) : i \in more <=> i \in places
  PROVE  /\ IsSequence(updatesAt(events, places))
         /\ updatesAt(Append(events, e), more)
              = IF Len(events) + 1 \in more THEN Append(updatesAt(events, places), e.update)
                ELSE updatesAt(events, places)
<1>. DEFINE L == Len(events)
            longer == Append(events, e)
<1>1. L \in Nat /\ Len(longer) = L + 1 /\ longer[L + 1] = e /\ \A i \in 1..L : longer[i] = events[i]
  BY AppendExtends DEF IsSequence, Extends
<1>. HIDE DEF longer
<1>2. PICK f : /\ updatesAt(events, places) = f[L] /\ f[0] = <<>>
               /\ \A i \in 1..L :
                     f[i] = IF i \in places THEN Append(f[i - 1], events[i].update) ELSE f[i - 1]
  BY <1>1, UpdatesAtSteps
<1>3. PICK g : /\ updatesAt(longer, more) = g[L + 1] /\ g[0] = <<>>
               /\ \A i \in 1..(L + 1) :
                     g[i] = IF i \in more THEN Append(g[i - 1], longer[i].update) ELSE g[i - 1]
  <2>1. Len(longer) \in Nat
    BY <1>1
  <2>. QED BY <1>1, <2>1, UpdatesAtSteps
<1>. DEFINE S == {k \in Nat : k <= L => g[k] = f[k] /\ IsSequence(f[k])}
<1>4. 0 \in S
  <2>1. <<>> \in Seq({})
    OBVIOUS
  <2>. QED BY <1>2, <1>3, <2>1 DEF IsSequence
<1>5. ASSUME NEW k \in S PROVE k + 1 \in S
  <2>. SUFFICES ASSUME k + 1 <= L PROVE g[k + 1] = f[k + 1] /\ IsSequence(f[k + 1])
    OBVIOUS
  <2>1. k + 1 \in 1..L /\ k + 1 \in 1..(L + 1) /\ (k + 1) - 1 = k /\ g[k] = f[k] /\ IsSequence(f[k])
    BY <1>1
  <2>2. IsSequence(Append(f[k], events[k + 1].update))
    BY <2>1, AppendExtends DEF Extends
  <2>. QED BY <1>1, <1>2, <1>3, <2>1, <2>2
<1>6. g[L] = f[L] /\ IsSequence(f[L])
  <2>1. Nat \subseteq S
    <3>. HIDE DEF S
    <3>. QED BY <1>4, <1>5, SetInduction
  <2>. QED BY <1>1, <2>1
<1>7. g[L + 1] = IF L + 1 \in more THEN Append(g[L], e.update) ELSE g[L]
  BY <1>1, <1>3
<1>. QED BY <1>2, <1>3, <1>6, <1>7 DEF longer

(* No update at no place.                                                  *)
LEMMA UpdatesAtNone ==
  ASSUME NEW events, NEW places, IsSequence(events), \A i \in 1..Len(events) : i \notin places
  PROVE  updatesAt(events, places) = <<>>
<1>. DEFINE L == Len(events)
<1>1. L \in Nat
  BY DEF IsSequence
<1>2. PICK f : /\ updatesAt(events, places) = f[L] /\ f[0] = <<>>
               /\ \A i \in 1..L :
                     f[i] = IF i \in places THEN Append(f[i - 1], events[i].update) ELSE f[i - 1]
  BY <1>1, UpdatesAtSteps
<1>. DEFINE S == {k \in Nat : k <= L => f[k] = <<>>}
<1>3. 0 \in S
  BY <1>2
<1>4. ASSUME NEW k \in S PROVE k + 1 \in S
  BY <1>1, <1>2
<1>5. Nat \subseteq S
  <2>. HIDE DEF S
  <2>. QED BY <1>3, <1>4, SetInduction
<1>. QED BY <1>1, <1>2, <1>5

(* Appending adds one place.                                               *)
LEMMA AppendFields ==
  ASSUME NEW s, NEW e, IsSequence(s)
  PROVE  /\ Len(s) \in Nat /\ DOMAIN s = 1..Len(s)
         /\ DOMAIN Append(s, e) = 1..(Len(s) + 1) /\ Len(Append(s, e)) = Len(s) + 1
         /\ Append(s, e)[Len(s) + 1] = e /\ \A i \in 1..Len(s) : Append(s, e)[i] = s[i]
         /\ IsSequence(Append(s, e))
<1>1. PICK S : s \in Seq(S)
  BY DEF IsSequence
<1>2. s \in Seq(S \cup {e}) /\ Append(s, e) \in Seq(S \cup {e})
  BY <1>1
<1>. QED BY <1>2 DEF IsSequence

(* Concatenation of what is appended to.                                   *)
LEMMA ConcatAppend ==
  ASSUME NEW s, NEW t, NEW e, IsSequence(s), IsSequence(t)
  PROVE  /\ s \o Append(t, e) = Append(s \o t, e)
         /\ IsSequence(s \o t) /\ (s \o t) \o <<>> = s \o t /\ <<>> \o t = t
<1>1. PICK S : s \in Seq(S)
  BY DEF IsSequence
<1>2. PICK T : t \in Seq(T)
  BY DEF IsSequence
<1>. DEFINE U == S \cup T \cup {e}
<1>3. s \in Seq(U) /\ t \in Seq(U) /\ e \in U
  BY <1>1, <1>2
<1>. HIDE DEF U
<1>4. s \o t \in Seq(U)
  BY <1>3
<1>. QED BY <1>3, <1>4 DEF IsSequence

-----------------------------------------------------------------------------
(***************************************************************************)
(* Filters.                                                                *)
(***************************************************************************)
IsBlockNumber(b) == b.tag \in {"latest", "earliest", "number"} /\ b.number \in Nat

IsFilter(f) ==
    /\ IsSequence(f.updates)
    /\ \/ DOMAIN f = {"kind", "updates"} /\ f.kind \in {"block", "pending"}
       \/ /\ DOMAIN f = {"kind", "from_block", "to_block", "addresses", "topics", "updates"}
          /\ f.kind = "log" /\ IsBlockNumber(f.from_block) /\ IsBlockNumber(f.to_block)
          /\ DOMAIN f.topics \subseteq 1..4

(* The places of the events a filter is due. *)
due(n, id) ==
    {i \in DOMAIN n.audit.events :
        i > n.audit.installedAt[id] /\ wanted(n.filters.filters[id], n.audit.events[i])}

(* A filter has handed out and still holds the updates it is due.          *)
deliversTo(n, id) ==
    /\ IsFilter(n.filters.filters[id])
    /\ id \in DOMAIN n.audit.delivered /\ id \in DOMAIN n.audit.installedAt
    /\ n.audit.installedAt[id] \in 0..Len(n.audit.events)
    /\ IsSequence(n.audit.delivered[id])
    /\ n.audit.delivered[id] \o n.filters.filters[id].updates = updatesAt(n.audit.events, due(n, id))

Delivers(n) ==
    /\ Shaped(n) /\ DOMAIN n.filters = {"id_counter", "filters"}
    /\ \A id \in DOMAIN n.filters.filters : deliversTo(n, id)

(* What a filter wants does not depend on what it holds.                   *)
LEMMA WantsSame ==
  ASSUME NEW f, NEW updates, IsFilter(f), IsSequence(updates)
  PROVE  LET g == [f EXCEPT !.updates = updates]
         IN  IsFilter(g) /\ g.updates = updates /\ \A e : wanted(g, e) <=> wanted(f, e)
<1>. DEFINE g == [f EXCEPT !.updates = updates]
<1>1. g.updates = updates /\ g.kind = f.kind /\ DOMAIN g = DOMAIN f
  BY DEF IsFilter
<1>2. f.kind = "log" => /\ g.from_block = f.from_block /\ g.to_block = f.to_block
                        /\ g.addresses = f.addresses /\ g.topics = f.topics
  BY DEF IsFilter
<1>. HIDE DEF g
<1>3. IsFilter(g)
  BY <1>1, <1>2 DEF IsFilter
<1>4. \A e : wanted(g, e) <=> wanted(f, e)
  BY <1>1, <1>2 DEF wanted
<1>. QED BY <1>1, <1>3, <1>4 DEF g

(* Requests that leave the filters and what happened alone.                *)
LEMMA DeliversFrame ==
  ASSUME NEW n, NEW m, Delivers(n), Shaped(m),
         m.filters = n.filters, m.audit.events = n.audit.events,
         m.audit.delivered = n.audit.delivered, m.audit.installedAt = n.audit.installedAt
  PROVE  Delivers(m)
BY DEF Delivers, deliversTo, due

(* An event is given to the filters that want it.                          *)
Notices(n, m, e) ==
    /\ m.audit.events = Append(n.audit.events, e)
    /\ m.audit.delivered = n.audit.delivered /\ m.audit.installedAt = n.audit.installedAt
    /\ DOMAIN m.filters = {"id_counter", "filters"}
    /\ DOMAIN m.filters.filters = DOMAIN n.filters.filters
    /\ \A id \in DOMAIN n.filters.filters :
          LET f == n.filters.filters[id]
          IN  m.filters.filters[id] =
                IF wanted(f, e) THEN [f EXCEPT !.updates = Append(f.updates, e.update)] ELSE f

LEMMA NoticeDelivers ==
  ASSUME NEW n, NEW m, NEW e, Delivers(n), Shaped(m), Notices(n, m, e)
  PROVE  Delivers(m)
<1>. SUFFICES ASSUME NEW id \in DOMAIN n.filters.filters PROVE deliversTo(m, id)
  BY DEF Delivers, Notices
<1>. DEFINE f == n.filters.filters[id]
            g == m.filters.filters[id]
            events == n.audit.events
            L == Len(events)
            before == n.audit.delivered[id]
            at == n.audit.installedAt[id]
<1>1. /\ IsFilter(f) /\ IsSequence(before) /\ IsSequence(f.updates)
      /\ id \in DOMAIN n.audit.delivered /\ id \in DOMAIN n.audit.installedAt
      /\ at \in 0..L /\ before \o f.updates = updatesAt(events, due(n, id))
      /\ IsSequence(events)
  BY DEF Delivers, deliversTo, IsFilter, Shaped
<1>2. /\ g = IF wanted(f, e) THEN [f EXCEPT !.updates = Append(f.updates, e.update)] ELSE f
      /\ m.audit.events = Append(events, e) /\ m.audit.delivered[id] = before
      /\ m.audit.installedAt[id] = at
      /\ m.audit.delivered = n.audit.delivered /\ m.audit.installedAt = n.audit.installedAt
  BY DEF Notices
<1>3. IsSequence(Append(f.updates, e.update))
  BY <1>1, AppendExtends DEF Extends
<1>4. /\ IsFilter(g) /\ \A d : wanted(g, d) <=> wanted(f, d)
      /\ g.updates = IF wanted(f, e) THEN Append(f.updates, e.update) ELSE f.updates
  <2>1. LET h == [f EXCEPT !.updates = Append(f.updates, e.update)]
        IN  IsFilter(h) /\ h.updates = Append(f.updates, e.update)
            /\ \A d : wanted(h, d) <=> wanted(f, d)
    <3>. HIDE DEF f
    <3>. QED BY <1>1, <1>3, WantsSame
  <2>. HIDE DEF f, g
  <2>. QED BY <1>1, <1>2, <2>1
<1>5. /\ L \in Nat /\ DOMAIN events = 1..L /\ DOMAIN Append(events, e) = 1..(L + 1)
      /\ Append(events, e)[L + 1] = e /\ \A i \in 1..L : Append(events, e)[i] = events[i]
      /\ Len(Append(events, e)) = L + 1 /\ IsSequence(Append(events, e))
  <2>. HIDE DEF events
  <2>. QED BY <1>1, AppendFields
<1>. HIDE DEF f, g, before, at
<1>6. due(n, id) = {i \in 1..L : i > at /\ wanted(f, events[i])}
  BY <1>5 DEF due, f, at
<1>7. due(m, id) = {i \in 1..(L + 1) : i > at /\ wanted(f, Append(events, e)[i])}
  BY <1>2, <1>4, <1>5 DEF due, g, at
<1>. HIDE DEF L
<1>8. /\ \A i \in 1..L : i \in due(m, id) <=> i \in due(n, id)
      /\ L + 1 \in due(m, id) <=> wanted(f, e)
  BY <1>1, <1>5, <1>6, <1>7
<1>9. updatesAt(Append(events, e), due(m, id))
        = IF wanted(f, e) THEN Append(updatesAt(events, due(n, id)), e.update)
          ELSE updatesAt(events, due(n, id))
  <2>. HIDE DEF events
  <2>1. \A i \in 1..Len(events) : i \in due(m, id) <=> i \in due(n, id)
    BY <1>8 DEF L
  <2>2. updatesAt(Append(events, e), due(m, id))
          = IF Len(events) + 1 \in due(m, id) THEN Append(updatesAt(events, due(n, id)), e.update)
            ELSE updatesAt(events, due(n, id))
    BY <1>1, <2>1, UpdatesAtAppend
  <2>. QED BY <1>8, <2>2 DEF L
<1>10. before \o g.updates = updatesAt(Append(events, e), due(m, id))
  <2>1. before \o Append(f.updates, e.update) = Append(before \o f.updates, e.update)
    BY <1>1, ConcatAppend
  <2>. QED BY <1>1, <1>4, <1>9, <2>1
<1>11. at \in 0..(L + 1)
  BY <1>1, <1>5
<1>. QED BY <1>1, <1>2, <1>4, <1>5, <1>10, <1>11 DEF deliversTo, g, before, at

(* The filters ef become those that were given the event.                  *)
Gives(n, ef, e) ==
    /\ DOMAIN ef = {"id_counter", "filters"} /\ DOMAIN ef.filters = DOMAIN n.filters.filters
    /\ \A id \in DOMAIN n.filters.filters :
          LET f == n.filters.filters[id]
          IN  ef.filters[id] =
                IF wanted(f, e) THEN [f EXCEPT !.updates = Append(f.updates, e.update)] ELSE f

LEMMA GivenDelivers ==
  ASSUME NEW n, NEW ef, NEW e, Delivers(n), Gives(n, ef, e)
  PROVE  Delivers(happened([n EXCEPT !.filters = ef], e))
<1>. DEFINE m == happened([n EXCEPT !.filters = ef], e)
<1>1. Shaped(n)
  BY DEF Delivers
<1>2. Shaped(m)
  BY <1>1, TellFields DEF Told
<1>3. /\ m.filters = ef /\ m.audit.events = Append(n.audit.events, e)
      /\ m.audit.delivered = n.audit.delivered /\ m.audit.installedAt = n.audit.installedAt
  BY <1>1 DEF happened, Shaped, IsNode, IsAudit
<1>. HIDE DEF m
<1>4. Notices(n, m, e)
  BY <1>3 DEF Notices, Gives
<1>5. Delivers(m)
  BY <1>2, <1>4, NoticeDelivers
<1>. QED BY <1>5 DEF m

(* The notices give an event to the filters that want it.                  *)
LEMMA BlockNotice ==
  ASSUME NEW n, NEW hash, Delivers(n)
  PROVE  Gives(n, notify_new_block(n.filters, hash), [kind |-> "block", update |-> hash])
<1>. DEFINE e == [kind |-> "block", update |-> hash]
<1>1. DOMAIN n.filters = {"id_counter", "filters"}
      /\ \A id \in DOMAIN n.filters.filters : IsFilter(n.filters.filters[id])
  BY DEF Delivers, deliversTo
<1>2. \A id \in DOMAIN n.filters.filters :
        wanted(n.filters.filters[id], e) <=> n.filters.filters[id].kind = "block"
  BY <1>1 DEF wanted, IsFilter
<1>. QED BY <1>1, <1>2 DEF notify_new_block, push, Gives

LEMMA PendingNotice ==
  ASSUME NEW n, NEW t, Delivers(n)
  PROVE  Gives(n, notify_new_pending_transaction(n.filters, t), [kind |-> "pending", update |-> t])
<1>. DEFINE e == [kind |-> "pending", update |-> t]
<1>1. DOMAIN n.filters = {"id_counter", "filters"}
      /\ \A id \in DOMAIN n.filters.filters : IsFilter(n.filters.filters[id])
  BY DEF Delivers, deliversTo
<1>2. \A id \in DOMAIN n.filters.filters :
        wanted(n.filters.filters[id], e) <=> n.filters.filters[id].kind = "pending"
  BY <1>1 DEF wanted, IsFilter
<1>. QED BY <1>1, <1>2 DEF notify_new_pending_transaction, push, Gives

(* The block of a log is past the first, so that "earliest" excludes it.   *)
LEMMA LogNotice ==
  ASSUME NEW n, NEW log, Delivers(n), log.block_number \in Nat \ {0}
  PROVE  Gives(n, notify_new_log(n.filters, log, log.block_number), [kind |-> "log", update |-> log])
<1>. DEFINE e == [kind |-> "log", update |-> log]
            b == log.block_number
<1>1. DOMAIN n.filters = {"id_counter", "filters"}
      /\ \A id \in DOMAIN n.filters.filters : IsFilter(n.filters.filters[id])
  BY DEF Delivers, deliversTo
<1>2. ASSUME NEW f, IsFilter(f)
      PROVE  wanted(f, e) <=> f.kind = "log" /\ matches(f, log, b)
  <2>1. CASE f.kind # "log"
    BY <2>1 DEF wanted
  <2>2. CASE f.kind = "log"
    <3>1. IsBlockNumber(f.from_block) /\ IsBlockNumber(f.to_block) /\ DOMAIN f.topics \subseteq 1..4
      BY <1>2, <2>2 DEF IsFilter
    <3>2. b >= to_real_block_number(f.from_block, b)
            <=> (f.from_block.tag = "number" => f.from_block.number <= b)
      BY <3>1 DEF IsBlockNumber, to_real_block_number
    <3>3. b <= to_real_block_number(f.to_block, b)
            <=> (f.to_block.tag = "number" => b <= f.to_block.number) /\ f.to_block.tag # "earliest"
      BY <3>1 DEF IsBlockNumber, to_real_block_number
    <3>4. (\A i \in DOMAIN log.topics \cap DOMAIN f.topics :
              i <= 4 => f.topics[i] = {} \/ log.topics[i] \in f.topics[i])
            <=> (\A i \in DOMAIN log.topics :
                    i \in DOMAIN f.topics /\ f.topics[i] # {} => log.topics[i] \in f.topics[i])
      BY <3>1
    <3>. QED BY <2>2, <3>2, <3>3, <3>4 DEF wanted, matches
  <2>. QED BY <2>1, <2>2
<1>3. \A id \in DOMAIN n.filters.filters :
        LET f == n.filters.filters[id]
        IN  wanted(f, e) <=> f.kind = "log" /\ matches(f, log, b)
  BY <1>1, <1>2
<1>. QED BY <1>1, <1>3 DEF notify_new_log, push, Gives

-----------------------------------------------------------------------------
(***************************************************************************)
(* Requests.                                                               *)
(***************************************************************************)
LEMMA LogsDeliver ==
  ASSUME NEW n, NEW logs, Delivers(n), Len(logs) \in Nat,
         \A i \in 1..Len(logs) : logs[i].block_number \in Nat \ {0}
  PROVE  Delivers(notifyLogs(n, logs))
<1>. DEFINE L == Len(logs)
<1>1. PICK f : /\ notifyLogs(n, logs) = f[L] /\ f[0] = n
               /\ \A i \in 1..L : f[i] = notifyLog(f[i - 1], logs[i])
  BY NotifyLogsSteps
<1>. DEFINE T == {k \in Nat : k <= L => Delivers(f[k])}
<1>2. 0 \in T
  BY <1>1
<1>3. ASSUME NEW k \in T PROVE k + 1 \in T
  <2>. SUFFICES ASSUME k + 1 <= L PROVE Delivers(f[k + 1])
    OBVIOUS
  <2>1. f[k + 1] = notifyLog(f[k], logs[k + 1]) /\ Delivers(f[k])
        /\ logs[k + 1].block_number \in Nat \ {0}
    BY <1>1
  <2>. QED BY <2>1, LogNotice, GivenDelivers DEF notifyLog
<1>4. Nat \subseteq T
  <2>. HIDE DEF T
  <2>. QED BY <1>2, <1>3, SetInduction
<1>. QED BY <1>1, <1>4

LEMMA ProduceDelivers ==
  ASSUME NEW s, NEW b, Delivers(s.node)
  PROVE  Delivers(produce(s, b).node)
<1>. DEFINE n == s.node
            m == [archive_state(n) EXCEPT !.current_miniblock = @ + 1,
                                          !.current_timestamp = @ + 1]
            expected == /\ b.batch = m.current_batch
                        /\ b.number = m.current_miniblock
                        /\ b.timestamp = m.current_timestamp
            inserted == insertBlock([m EXCEPT !.current_miniblock_hash = b.hash], b)
            e == [kind |-> "block", update |-> b.hash]
            told == happened([inserted EXCEPT !.filters = notify_new_block(@, b.hash)], e)
<1>1. Shaped(n)
  BY DEF Delivers
<1>2. PICK states : archive_state(n) = [n EXCEPT !.previous_states = states]
  BY <1>1, ArchiveFields DEF Shaped
<1>3. Shaped(m) /\ m.audit = n.audit /\ m.filters = n.filters
  BY <1>1, <1>2 DEF Shaped, IsNode
<1>4. Delivers(m)
  <2>. HIDE DEF m
  <2>. QED BY <1>3, DeliversFrame
<1>5. /\ Shaped(inserted) /\ inserted.filters = n.filters
      /\ inserted.audit.events = n.audit.events /\ inserted.audit.delivered = n.audit.delivered
      /\ inserted.audit.installedAt = n.audit.installedAt
  <2>. HIDE DEF m
  <2>. QED BY <1>3 DEF insertBlock, Shaped, IsNode, IsAudit
<1>6. Delivers(inserted)
  <2>. HIDE DEF inserted
  <2>. QED BY <1>5, DeliversFrame
<1>7. Delivers(told)
  <2>. HIDE DEF inserted
  <2>. QED BY <1>6, BlockNotice, GivenDelivers
<1>8. produce(s, b).node \in {s.node, m, told}
  <2>1. produce(s, b) = IF s.poisoned THEN s
                        ELSE IF ~expected THEN [node |-> m, poisoned |-> TRUE]
                        ELSE [node |-> told, poisoned |-> FALSE]
    BY DEF produce
  <2>. HIDE DEF m, told, expected
  <2>. QED BY <2>1
<1>. HIDE DEF m, told
<1>. QED BY <1>4, <1>7, <1>8

(* A transaction that is committed, also when its blocks are not expected. *)
LEMMA CommitDelivers ==
  ASSUME NEW n, NEW t \in Transactions, NEW ctx, Delivers(n), ctx.miniblock \in Nat \ {0}
  PROVE  Delivers(commit(n, t, ctx).node)
<1>. DEFINE block   == transactionBlock(n, t, ctx)
            logs    == receiptLogs(t, block)
            written == [n EXCEPT !.storage = executeBatch(@, t, ctx)]
            logged  == notifyLogs(written, logs)
            receipt == [block_hash |-> block.hash, block_number |-> block.number,
                        batch |-> block.batch, logs |-> logs]
            ready   == [logged EXCEPT !.tx_results = with(@, t, receipt), !.current_batch = @ + 1]
            s1      == produce([node |-> ready, poisoned |-> FALSE], block)
            last    == fictiveBlock(block, new_block(ctx))
<1>1. block.number = ctx.miniblock
  BY DEF transactionBlock
<1>. HIDE DEF block
<1>2. Len(logs) \in Nat /\ \A i \in 1..Len(logs) : logs[i].block_number \in Nat \ {0}
  <2>1. Len(Logs[t]) \in Nat /\ DOMAIN Logs[t] = 1..Len(Logs[t])
    BY NodeAssumption
  <2>2. logs \in [1..Len(Logs[t]) -> {logs[i] : i \in 1..Len(Logs[t])}]
        /\ \A i \in 1..Len(Logs[t]) : logs[i].block_number = block.number
    BY <2>1 DEF receiptLogs
  <2>. HIDE DEF logs
  <2>3. logs \in Seq({logs[i] : i \in 1..Len(Logs[t])})
    BY <2>1, <2>2
  <2>4. Len(logs) = Len(Logs[t])
    BY <2>1, <2>2, <2>3
  <2>. QED BY <1>1, <2>1, <2>2, <2>4
<1>. HIDE DEF logs, receipt, last
<1>3. Delivers(written)
  <2>1. IsStorage(executeBatch(n.storage, t, ctx)) /\ Shaped(n)
    BY DEF executeBatch, Delivers, Shaped, IsStorage
  <2>2. Shaped(written) /\ written.filters = n.filters /\ written.audit = n.audit
    BY <2>1 DEF Shaped, IsNode
  <2>. HIDE DEF written
  <2>. QED BY <2>2, DeliversFrame
<1>. HIDE DEF written
<1>4. Delivers(logged)
  BY <1>2, <1>3, LogsDeliver
<1>. HIDE DEF logged
<1>5. Delivers(ready)
  <2>1. Shaped(ready) /\ ready.filters = logged.filters /\ ready.audit = logged.audit
    BY <1>4 DEF Delivers, Shaped, IsNode
  <2>. HIDE DEF ready
  <2>. QED BY <1>4, <2>1, DeliversFrame
<1>. HIDE DEF ready
<1>6. Delivers(s1.node)
  <2>1. [node |-> ready, poisoned |-> FALSE].node = ready
    OBVIOUS
  <2>. QED BY <1>5, <2>1, ProduceDelivers
<1>. HIDE DEF s1
<1>7. commit(n, t, ctx) = produce(s1, last)
  BY DEF commit, s1, ready, logged, written, logs, receipt, last, block
<1>. QED BY <1>6, <1>7, ProduceDelivers

(* An empty block leaves what happened before it alone.                    *)
MinesOne(n, m) ==
    /\ Shaped(m) /\ m.filters = n.filters /\ m.tx_results = n.tx_results
    /\ m.previous_states = n.previous_states
    /\ m.current_miniblock_hash = n.current_miniblock_hash
    /\ m.storage.slots = n.storage.slots /\ m.storage.nonces = n.storage.nonces
    /\ m.audit.events = n.audit.events /\ m.audit.delivered = n.audit.delivered
    /\ m.audit.installedAt = n.audit.installedAt /\ m.audit.jumped = n.audit.jumped
    /\ \E b : /\ b.number = create_l1_batch_env(n).miniblock /\ b.hash[1] = b.number
              /\ b.hash = <<b.number, NoTransaction>> /\ b.transactions = <<>>
              /\ m.current_miniblock = b.number
              /\ m.block_hashes = with(n.block_hashes, b.number, b.hash)
              /\ m.blocks = with(n.blocks, b.hash, b)
              /\ m.audit.stateAt = with(n.audit.stateAt, b.number, n.storage.slots)

LEMMA MineOneKeeps ==
  ASSUME NEW n, NEW i, NEW interval_ms, Shaped(n)
  PROVE  MinesOne(n, mineOne(n, i, interval_ms))
<1>. DEFINE ctx == create_l1_batch_env(n)
            timestamp == IF i = 0 THEN ctx.timestamp ELSE n.current_timestamp + interval_ms
            rolled == [n EXCEPT !.storage.batch = [number |-> ctx.batch, timestamp |-> ctx.timestamp],
                                !.storage.l2_block = [number |-> ctx.miniblock, timestamp |-> ctx.timestamp]]
            block == create_empty_block(ctx.miniblock, timestamp, ctx.batch)
            inserted == insertBlock(rolled, block)
            m == mineOne(n, i, interval_ms)
<1>1. /\ block.number = ctx.miniblock /\ block.hash[1] = block.number
      /\ block.hash = <<block.number, NoTransaction>> /\ block.transactions = <<>>
  BY DEF create_empty_block, compute_hash
<1>. HIDE DEF block
<1>2. /\ Shaped(rolled) /\ rolled.audit = n.audit /\ rolled.filters = n.filters
      /\ rolled.tx_results = n.tx_results /\ rolled.previous_states = n.previous_states
      /\ rolled.current_miniblock_hash = n.current_miniblock_hash
      /\ rolled.block_hashes = n.block_hashes /\ rolled.blocks = n.blocks
      /\ rolled.storage.slots = n.storage.slots /\ rolled.storage.nonces = n.storage.nonces
  BY DEF Shaped, IsNode, IsStorage
<1>. HIDE DEF rolled
<1>3. /\ Shaped(inserted) /\ inserted.filters = n.filters /\ inserted.tx_results = n.tx_results
      /\ inserted.previous_states = n.previous_states
      /\ inserted.current_miniblock_hash = n.current_miniblock_hash
      /\ inserted.storage = rolled.storage
      /\ inserted.audit = [n.audit EXCEPT !.stateAt = with(@, block.number, n.storage.slots)]
      /\ inserted.block_hashes = with(n.block_hashes, block.number, block.hash)
      /\ inserted.blocks = with(n.blocks, block.hash, block)
  BY <1>2 DEF insertBlock, Shaped, IsNode, IsAudit
<1>4. m = [inserted EXCEPT !.current_batch = ctx.batch, !.current_miniblock = ctx.miniblock,
                           !.current_timestamp = timestamp]
  BY DEF mineOne, rolled, block
<1>. HIDE DEF inserted, m, ctx, timestamp
<1>5. /\ Shaped(m) /\ m.filters = n.filters /\ m.tx_results = n.tx_results
      /\ m.previous_states = n.previous_states
      /\ m.current_miniblock_hash = n.current_miniblock_hash
      /\ m.storage = rolled.storage /\ m.current_miniblock = block.number
      /\ m.audit = [n.audit EXCEPT !.stateAt = with(@, block.number, n.storage.slots)]
      /\ m.block_hashes = with(n.block_hashes, block.number, block.hash)
      /\ m.blocks = with(n.blocks, block.hash, block)
  BY <1>1, <1>3, <1>4 DEF Shaped, IsNode
<1>6. /\ m.audit.events = n.audit.events /\ m.audit.delivered = n.audit.delivered
      /\ m.audit.installedAt = n.audit.installedAt /\ m.audit.jumped = n.audit.jumped
      /\ m.audit.stateAt = with(n.audit.stateAt, block.number, n.storage.slots)
  BY <1>5 DEF Shaped, IsAudit
<1>7. MinesOne(n, m)
  BY <1>1, <1>2, <1>5, <1>6 DEF MinesOne, ctx
<1>. QED BY <1>7 DEF m

LEMMA MineDelivers ==
  ASSUME NEW n, NEW num_blocks \in Nat, NEW interval_ms, Delivers(n)
  PROVE  Delivers(mine_empty_blocks(n, num_blocks, interval_ms))
<1>. DEFINE L == num_blocks
<1>1. PICK f : /\ mine_empty_blocks(n, num_blocks, interval_ms) = f[L] /\ f[0] = n
               /\ \A i \in 1..L : f[i] = mineOne(f[i - 1], i - 1, interval_ms)
  BY MineSteps
<1>. DEFINE T == {k \in Nat : k <= L => Delivers(f[k])}
<1>2. 0 \in T
  BY <1>1
<1>3. ASSUME NEW k \in T PROVE k + 1 \in T
  <2>. SUFFICES ASSUME k + 1 <= L PROVE Delivers(f[k + 1])
    OBVIOUS
  <2>1. f[k + 1] = mineOne(f[k], k, interval_ms) /\ Delivers(f[k])
    BY <1>1
  <2>2. MinesOne(f[k], f[k + 1])
    BY <2>1, MineOneKeeps DEF Delivers
  <2>. QED BY <2>1, <2>2, DeliversFrame DEF MinesOne
<1>4. Nat \subseteq T
  <2>. HIDE DEF T
  <2>. QED BY <1>2, <1>3, SetInduction
<1>. QED BY <1>1, <1>4

(* A new filter has handed out nothing and is due nothing.                 *)
LEMMA InstallDelivers ==
  ASSUME NEW f, Delivers(node), IsFilter(f), f.updates = <<>>, install(add_filter(node.filters, f))
  PROVE  Delivers(node')
<1>. DEFINE n == node
            m == node'
            ef == add_filter(n.filters, f)
            new == n.filters.id_counter + 1
            L == Len(n.audit.events)
<1>1. Shaped(n) /\ DOMAIN n.filters = {"id_counter", "filters"} /\ IsSequence(n.audit.events)
      /\ L \in Nat
  BY DEF Delivers, Shaped, IsSequence
<1>2. /\ DOMAIN ef = {"id_counter", "filters"} /\ ef.id_counter = new
      /\ ef.filters = with(n.filters.filters, new, f)
  BY DEF add_filter, with
<1>. HIDE DEF ef, new
<1>3. /\ Shaped(m) /\ m.filters = ef /\ m.audit.events = n.audit.events
      /\ m.audit.installedAt = with(n.audit.installedAt, new, L)
      /\ m.audit.delivered = with(n.audit.delivered, new, <<>>)
  BY <1>1, <1>2 DEF install, Shaped, IsNode, IsAudit, ef
<1>. HIDE DEF m
<1>4. deliversTo(m, new)
  <2>1. /\ m.filters.filters[new] = f /\ m.audit.installedAt[new] = L
        /\ m.audit.delivered[new] = <<>>
        /\ new \in DOMAIN m.audit.installedAt /\ new \in DOMAIN m.audit.delivered
    BY <1>2, <1>3 DEF with
  <2>2. \A i \in 1..L : i \notin due(m, new)
    BY <1>1, <2>1 DEF due
  <2>3. updatesAt(m.audit.events, due(m, new)) = <<>>
    BY <1>1, <1>3, <2>2, UpdatesAtNone
  <2>4. <<>> \o <<>> = <<>> /\ IsSequence(<<>>)
    <3>1. <<>> \in Seq({})
      OBVIOUS
    <3>. QED BY <3>1 DEF IsSequence
  <2>5. L \in 0..Len(m.audit.events)
    BY <1>1, <1>3
  <2>6. m.audit.delivered[new] \o m.filters.filters[new].updates
          = updatesAt(m.audit.events, due(m, new))
    BY <2>1, <2>3, <2>4
  <2>. HIDE DEF L
  <2>. QED BY <2>1, <2>4, <2>5, <2>6 DEF deliversTo
<1>5. ASSUME NEW id \in DOMAIN n.filters.filters, id # new PROVE deliversTo(m, id)
  <2>1. deliversTo(n, id)
    BY DEF Delivers
  <2>2. /\ m.filters.filters[id] = n.filters.filters[id]
        /\ m.audit.installedAt[id] = n.audit.installedAt[id]
        /\ m.audit.delivered[id] = n.audit.delivered[id]
        /\ id \in DOMAIN m.audit.installedAt /\ id \in DOMAIN m.audit.delivered
    BY <1>2, <1>3, <1>5, <2>1 DEF with, deliversTo
  <2>3. due(m, id) = due(n, id)
    BY <1>3, <2>2 DEF due
  <2>. QED BY <1>3, <2>1, <2>2, <2>3 DEF deliversTo
<1>6. DOMAIN m.filters.filters = DOMAIN n.filters.filters \cup {new}
  BY <1>2, <1>3 DEF with
<1>7. Delivers(m)
  BY <1>2, <1>3, <1>4, <1>5, <1>6 DEF Delivers
<1>. QED BY <1>7 DEF m

(* Polled updates are handed out; a removed filter takes nothing with it.  *)
LEMMA PollDelivers ==
  ASSUME NEW id \in DOMAIN node.filters.filters, Delivers(node),
         GetFilterChanges(id) \/ UninstallFilter(id)
  PROVE  Delivers(node')
<1>. DEFINE n == node
            m == node'
            f == n.filters.filters[id]
<1>1. Shaped(n) /\ DOMAIN n.filters = {"id_counter", "filters"}
      /\ \A k \in DOMAIN n.filters.filters : deliversTo(n, k)
  BY DEF Delivers
<1>2. CASE GetFilterChanges(id)
  <2>1. /\ Shaped(m) /\ m.audit.events = n.audit.events
        /\ m.audit.installedAt = n.audit.installedAt
        /\ m.audit.delivered = [n.audit.delivered EXCEPT ![id] = @ \o f.updates]
        /\ DOMAIN m.filters = {"id_counter", "filters"}
        /\ m.filters.filters = [n.filters.filters EXCEPT ![id].updates = <<>>]
    BY <1>1, <1>2 DEF GetFilterChanges, get_new_changes, Shaped, IsNode, IsAudit
  <2>. HIDE DEF m, n
  <2>2. deliversTo(m, id)
    <3>1. deliversTo(n, id) /\ IsFilter(f) /\ IsSequence(f.updates)
      BY <1>1 DEF deliversTo, IsFilter, n
    <3>2. LET g == [f EXCEPT !.updates = <<>>]
          IN  IsFilter(g) /\ g.updates = <<>> /\ \A e : wanted(g, e) <=> wanted(f, e)
      <4>1. <<>> \in Seq({})
        OBVIOUS
      <4>. HIDE DEF f
      <4>. QED BY <3>1, <4>1, WantsSame DEF IsSequence
    <3>3. /\ m.filters.filters[id] = [f EXCEPT !.updates = <<>>]
          /\ m.audit.delivered[id] = n.audit.delivered[id] \o f.updates
      BY <2>1, <3>1 DEF deliversTo, n
    <3>4. due(m, id) = due(n, id)
      BY <2>1, <3>2, <3>3 DEF due
    <3>5. /\ IsSequence(n.audit.delivered[id] \o f.updates)
          /\ (n.audit.delivered[id] \o f.updates) \o <<>> = n.audit.delivered[id] \o f.updates
      BY <3>1, ConcatAppend DEF deliversTo
    <3>. HIDE DEF f
    <3>. QED BY <2>1, <3>1, <3>2, <3>3, <3>4, <3>5 DEF deliversTo, f
  <2>3. ASSUME NEW k \in DOMAIN n.filters.filters, k # id PROVE deliversTo(m, k)
    <3>1. deliversTo(n, k)
      BY <1>1
    <3>2. /\ m.filters.filters[k] = n.filters.filters[k]
          /\ m.audit.delivered[k] = n.audit.delivered[k] /\ k \in DOMAIN m.audit.delivered
      BY <2>1, <2>3, <3>1 DEF deliversTo
    <3>3. due(m, k) = due(n, k)
      BY <2>1, <3>2 DEF due
    <3>. QED BY <2>1, <3>1, <3>2, <3>3 DEF deliversTo
  <2>4. Delivers(m)
    BY <2>1, <2>2, <2>3 DEF Delivers
  <2>. QED BY <2>4 DEF m
<1>3. CASE UninstallFilter(id)
  <2>1. /\ Shaped(m) /\ m.audit.events = n.audit.events
        /\ m.audit.installedAt = Restrict(n.audit.installedAt, DOMAIN n.audit.installedAt \ {id})
        /\ m.audit.delivered = Restrict(n.audit.delivered, DOMAIN n.audit.delivered \ {id})
        /\ DOMAIN m.filters = {"id_counter", "filters"}
        /\ m.filters.filters = Restrict(n.filters.filters, DOMAIN n.filters.filters \ {id})
    BY <1>1, <1>3 DEF UninstallFilter, remove_filter, Shaped, IsNode, IsAudit
  <2>. HIDE DEF m, n
  <2>2. ASSUME NEW k \in DOMAIN n.filters.filters, k # id PROVE deliversTo(m, k)
    <3>1. deliversTo(n, k)
      BY <1>1
    <3>2. /\ m.filters.filters[k] = n.filters.filters[k]
          /\ m.audit.delivered[k] = n.audit.delivered[k] /\ k \in DOMAIN m.audit.delivered
          /\ m.audit.installedAt[k] = n.audit.installedAt[k] /\ k \in DOMAIN m.audit.installedAt
      BY <2>1, <2>2, <3>1 DEF deliversTo, Restrict
    <3>3. due(m, k) = due(n, k)
      BY <2>1, <3>2 DEF due
    <3>. QED BY <2>1, <3>1, <3>2, <3>3 DEF deliversTo
  <2>3. DOMAIN m.filters.filters = DOMAIN n.filters.filters \ {id}
    BY <2>1 DEF Restrict
  <2>4. Delivers(m)
    BY <2>1, <2>2, <2>3 DEF Delivers
  <2>. QED BY <2>4 DEF m
<1>. QED BY <1>2, <1>3

-----------------------------------------------------------------------------
(***************************************************************************)
(* Every step.                                                             *)
(***************************************************************************)

(* The snapshots' filters as well: a revert brings one back.               *)
FiltersInv == Delivers(node) /\ \A i \in DOMAIN snapshots : Delivers(snapshots[i])

LEMMA FiltersInit == Init => FiltersInv
<1>. SUFFICES ASSUME Init PROVE FiltersInv
  OBVIOUS
<1>1. ForkInRange /\ NodeInv /\ snapshots = <<>> /\ poisoned = FALSE
  BY InitInv DEF NodeInv, Init
<1>2. Shaped(node)
  BY <1>1 DEF NodeInv, NodeGood, Good, Sound
<1>3. node.filters = NoFilters
  BY DEF Init, firstNode, forkNode, newNode
<1>4. DOMAIN <<>> = {}
  OBVIOUS
<1>5. DOMAIN node.filters = {"id_counter", "filters"} /\ DOMAIN node.filters.filters = {}
  BY <1>3, <1>4 DEF NoFilters
<1>. QED BY <1>1, <1>2, <1>4, <1>5 DEF FiltersInv, Delivers

(* A transaction, however it ends: also when its blocks are not expected.  *)
LEMMA TransactionDelivers ==
  ASSUME ForkInRange, Good(node), Delivers(node), NEW t \in Transactions, run_l2_tx(t)
  PROVE  Delivers(node')
<1>1. Delivers(pending(t))
  BY PendingNotice, GivenDelivers DEF pending
<1>2. CASE RejectTx(t)
  BY <1>2 DEF RejectTx
<1>3. CASE HaltTx(t)
  BY <1>1, <1>3 DEF HaltTx
<1>4. CASE CommitTx(t)
  <2>. DEFINE ctx == create_l1_batch_env(node)
  <2>1. node.current_miniblock \in Nat /\ Counted(node)
    BY DEF Good, Sound, Chain, Numbered
  <2>2. ctx.miniblock \in Nat \ {0}
    <3>1. ctx.miniblock = node.current_miniblock + 1
      BY <2>1, BatchEnvFields
    <3>. HIDE DEF ctx
    <3>. QED BY <2>1, <3>1
  <2>3. node' = commit(pending(t), t, ctx).node
    BY <1>4 DEF CommitTx
  <2>. HIDE DEF ctx
  <2>. QED BY <1>1, <2>2, <2>3, CommitDelivers
<1>. QED BY <1>2, <1>3, <1>4 DEF run_l2_tx

LEMMA StartupDelivers ==
  ASSUME NodeInv, FiltersInv, Startup
  PROVE  Delivers(node')
<1>1. Delivers(node) /\ Shaped(node)
  BY DEF FiltersInv, Delivers
<1>2. ForkInRange /\ StartupTyped /\ Good(node)
  BY DEF NodeInv, NodeGood, Startup, ApplyTx, SetRichAccounts
<1>3. CASE ApplyTx
  <2>. DEFINE t == Head(startup.replay)
  <2>1. startup.replay \in Seq(Transactions) /\ startup.replay # <<>>
    BY <1>2, <1>3 DEF ApplyTx, StartupTyped
  <2>2. t \in Transactions
    BY <2>1
  <2>3. run_l2_tx(t)
    BY <1>3 DEF ApplyTx, run_l2_tx
  <2>. HIDE DEF t
  <2>. QED BY <1>1, <1>2, <2>2, <2>3, TransactionDelivers
<1>4. CASE SetRichAccounts
  <2>1. /\ Shaped(node') /\ node'.filters = node.filters
        /\ node'.audit.events = node.audit.events
        /\ node'.audit.delivered = node.audit.delivered
        /\ node'.audit.installedAt = node.audit.installedAt
    BY <1>1, <1>4 DEF SetRichAccounts, Shaped, IsNode, IsAudit, IsStorage
  <2>. QED BY <1>1, <2>1, DeliversFrame
<1>. QED BY <1>3, <1>4 DEF Startup

LEMMA EthDelivers ==
  ASSUME NodeInv, FiltersInv, Eth
  PROVE  Delivers(node')
<1>1. Delivers(node)
  BY DEF FiltersInv
<1>2. ASSUME NEW t \in Sent, SendRawTransaction(t) \/ SendTransaction(t) PROVE Delivers(node')
  <2>1. ForkInRange /\ Good(node) /\ t \in Transactions /\ run_l2_tx(t)
    BY <1>2, NodeAssumption DEF NodeInv, NodeGood, SendRawTransaction, SendTransaction, serving
  <2>. QED BY <1>1, <2>1, TransactionDelivers
<1>3. IsSequence(<<>>)
  <2>1. <<>> \in Seq({})
    OBVIOUS
  <2>. QED BY <2>1 DEF IsSequence
<1>4. CASE NewBlockFilter
  <2>. DEFINE f == [kind |-> "block", updates |-> <<>>]
  <2>1. IsFilter(f) /\ f.updates = <<>> /\ install(add_filter(node.filters, f))
    BY <1>3, <1>4 DEF NewBlockFilter, add_block_filter, IsFilter
  <2>. HIDE DEF f
  <2>. QED BY <1>1, <2>1, InstallDelivers
<1>5. CASE NewPendingTransactionFilter
  <2>. DEFINE f == [kind |-> "pending", updates |-> <<>>]
  <2>1. IsFilter(f) /\ f.updates = <<>> /\ install(add_filter(node.filters, f))
    BY <1>3, <1>5 DEF NewPendingTransactionFilter, add_pending_transaction_filter, IsFilter
  <2>. HIDE DEF f
  <2>. QED BY <1>1, <2>1, InstallDelivers
<1>6. ASSUME NEW wants \in LogFilters, NewFilter(wants) PROVE Delivers(node')
  <2>. DEFINE f == [kind |-> "log", from_block |-> wants.from_block, to_block |-> wants.to_block,
                    addresses |-> wants.addresses, topics |-> wants.topics, updates |-> <<>>]
  <2>1. /\ IsBlockNumber(wants.from_block) /\ IsBlockNumber(wants.to_block)
        /\ DOMAIN wants.topics \subseteq 1..4
    BY NodeAssumption DEF IsBlockNumber
  <2>2. IsFilter(f) /\ f.updates = <<>>
    BY <1>3, <2>1 DEF IsFilter
  <2>3. install(add_filter(node.filters, f))
    BY <1>6 DEF NewFilter, add_log_filter
  <2>. HIDE DEF f
  <2>. QED BY <1>1, <2>2, <2>3, InstallDelivers
<1>7. ASSUME NEW id \in DOMAIN node.filters.filters, UninstallFilter(id) \/ GetFilterChanges(id)
      PROVE  Delivers(node')
  BY <1>1, <1>7, PollDelivers
<1>. QED BY <1>2, <1>4, <1>5, <1>6, <1>7 DEF Eth

(* Requests that set something: of the node only what no filter is told.   *)
LEMMA SetDelivers ==
  ASSUME NEW m, Delivers(node), set(m), Shaped(m), m.filters = node.filters,
         m.audit.events = node.audit.events, m.audit.delivered = node.audit.delivered,
         m.audit.installedAt = node.audit.installedAt
  PROVE  Delivers(node')
<1>1. node' = [m EXCEPT !.audit.settings = @ + 1]
  BY DEF set
<1>2. /\ Shaped(node') /\ node'.filters = m.filters
      /\ node'.audit.events = m.audit.events /\ node'.audit.delivered = m.audit.delivered
      /\ node'.audit.installedAt = m.audit.installedAt
  BY <1>1 DEF Shaped, IsNode, IsAudit
<1>. QED BY <1>2, DeliversFrame

LEMMA MiningDelivers ==
  ASSUME Delivers(node), NEW num_blocks \in Nat, NEW interval, MineBlocks(num_blocks, interval)
  PROVE  Delivers(node')
<1>. DEFINE m == mine_empty_blocks(node, num_blocks, interval * Millis)
            close == num_blocks > 1 /\ interval = 0
<1>1. Delivers(m)
  BY MineDelivers
<1>2. node' = [m EXCEPT !.audit.packed = @ \/ close]
  BY DEF MineBlocks
<1>. HIDE DEF m, close
<1>3. /\ Shaped(node') /\ node'.filters = m.filters
      /\ node'.audit.events = m.audit.events /\ node'.audit.delivered = m.audit.delivered
      /\ node'.audit.installedAt = m.audit.installedAt
  BY <1>1, <1>2 DEF Delivers, Shaped, IsNode, IsAudit
<1>. QED BY <1>1, <1>3, DeliversFrame

LEMMA EvmDelivers ==
  ASSUME NodeInv, FiltersInv, Evm
  PROVE  Delivers(node')
<1>1. Delivers(node) /\ Shaped(node)
  BY DEF FiltersInv, Delivers
<1>2. ASSUME NEW delta \in Deltas, IncreaseTime(delta) PROVE Delivers(node')
  <2>. DEFINE m == [node EXCEPT !.current_timestamp = @ + delta * Millis]
  <2>1. set(m)
    BY <1>2 DEF IncreaseTime
  <2>2. Shaped(m) /\ m.filters = node.filters /\ m.audit = node.audit
    BY <1>1 DEF Shaped, IsNode
  <2>. HIDE DEF m
  <2>. QED BY <1>1, <2>1, <2>2, SetDelivers
<1>3. ASSUME NEW time \in Times, SetNextBlockTimestamp(time) PROVE Delivers(node')
  <2>. DEFINE m == [node EXCEPT !.current_timestamp = time]
  <2>1. set(m)
    BY <1>3 DEF SetNextBlockTimestamp
  <2>2. Shaped(m) /\ m.filters = node.filters /\ m.audit = node.audit
    BY <1>1 DEF Shaped, IsNode
  <2>. HIDE DEF m
  <2>. QED BY <1>1, <2>1, <2>2, SetDelivers
<1>4. ASSUME NEW time \in Times, SetTime(time) PROVE Delivers(node')
  <2>. DEFINE back == time < node.current_timestamp
              m == [node EXCEPT !.current_timestamp = time, !.audit.rewound = @ \/ back]
  <2>1. set(m)
    BY <1>4 DEF SetTime
  <2>. HIDE DEF back
  <2>2. /\ Shaped(m) /\ m.filters = node.filters /\ m.audit.events = node.audit.events
        /\ m.audit.delivered = node.audit.delivered
        /\ m.audit.installedAt = node.audit.installedAt
    BY <1>1 DEF Shaped, IsNode, IsAudit
  <2>. HIDE DEF m
  <2>. QED BY <1>1, <2>1, <2>2, SetDelivers
<1>5. CASE MineBlock
  BY <1>1, <1>5, MiningDelivers DEF MineBlock
<1>6. CASE Snapshot
  BY <1>1, <1>6 DEF Snapshot
<1>7. ASSUME NEW id \in 0..MAX_SNAPSHOTS, RevertSnapshot(id) PROVE Delivers(node')
  <2>. DEFINE index == IF id = 0 THEN 1 ELSE id
  <2>1. index <= Len(snapshots) /\ node' = snapshots[index] /\ id \in Nat
    BY <1>7, NodeAssumption DEF RevertSnapshot, restore_snapshot
  <2>2. index \in DOMAIN snapshots
    BY <2>1 DEF NodeInv, SnapshotsGood, IsSequence
  <2>. QED BY <2>1, <2>2 DEF FiltersInv
<1>. QED BY <1>2, <1>3, <1>4, <1>5, <1>6, <1>7 DEF Evm

LEMMA HardhatDelivers ==
  ASSUME NodeInv, FiltersInv, Hardhat
  PROVE  Delivers(node')
<1>1. Delivers(node) /\ Shaped(node)
  BY DEF FiltersInv, Delivers
<1>2. ASSUME NEW account, NEW balance, SetBalance(account, balance) PROVE Delivers(node')
  <2>. DEFINE m == [node EXCEPT !.storage.slots[account] = balance,
                                !.audit.stateAt[node.current_miniblock][account] = balance]
  <2>1. set(m)
    BY <1>2 DEF SetBalance
  <2>2. /\ Shaped(m) /\ m.filters = node.filters /\ m.audit.events = node.audit.events
        /\ m.audit.delivered = node.audit.delivered
        /\ m.audit.installedAt = node.audit.installedAt
    BY <1>1 DEF Shaped, IsNode, IsAudit, IsStorage
  <2>. HIDE DEF m
  <2>. QED BY <1>1, <2>1, <2>2, SetDelivers
<1>3. ASSUME NEW account, NEW nonce, SetNonce(account, nonce) PROVE Delivers(node')
  <2>. DEFINE m == [node EXCEPT !.storage.nonces[account] = nonce,
                                !.audit.jumped = @ \cup {account}]
  <2>1. set(m)
    BY <1>3 DEF SetNonce
  <2>2. /\ Shaped(m) /\ m.filters = node.filters /\ m.audit.events = node.audit.events
        /\ m.audit.delivered = node.audit.delivered
        /\ m.audit.installedAt = node.audit.installedAt
    BY <1>1 DEF Shaped, IsNode, IsAudit, IsStorage
  <2>. HIDE DEF m
  <2>. QED BY <1>1, <2>1, <2>2, SetDelivers
<1>4. ASSUME NEW account, NEW code, SetCode(account, code) PROVE Delivers(node')
  <2>. DEFINE m == [node EXCEPT !.storage.codes[account] = code]
  <2>1. set(m)
    BY <1>4 DEF SetCode
  <2>2. Shaped(m) /\ m.filters = node.filters /\ m.audit = node.audit
    BY <1>1 DEF Shaped, IsNode, IsStorage
  <2>. HIDE DEF m
  <2>. QED BY <1>1, <2>1, <2>2, SetDelivers
<1>5. ASSUME NEW num \in Counts, NEW interval \in Intervals, MineBlocks(num, interval)
      PROVE  Delivers(node')
  <2>1. num \in Nat
    BY NodeAssumption
  <2>. QED BY <1>1, <1>5, <2>1, MiningDelivers
<1>6. ASSUME NEW account, ImpersonateAccount(account) PROVE Delivers(node')
  <2>. DEFINE m == [node EXCEPT !.impersonated = @ \cup {account}]
  <2>1. set(m)
    BY <1>6 DEF ImpersonateAccount
  <2>2. Shaped(m) /\ m.filters = node.filters /\ m.audit = node.audit
    BY <1>1 DEF Shaped, IsNode
  <2>. HIDE DEF m
  <2>. QED BY <1>1, <2>1, <2>2, SetDelivers
<1>7. ASSUME NEW account, StopImpersonatingAccount(account) PROVE Delivers(node')
  <2>1. Shaped(node') /\ node'.filters = node.filters /\ node'.audit = node.audit
    BY <1>1, <1>7 DEF StopImpersonatingAccount, Shaped, IsNode
  <2>. QED BY <1>1, <2>1, DeliversFrame
<1>. QED BY <1>2, <1>3, <1>4, <1>5, <1>6, <1>7 DEF Hardhat

(* Snapshots are taken of the node, and dropped from the end.              *)
LEMMA SnapshotsAreOld ==
  ASSUME NodeInv, [Next]_vars
  PROVE  \A i \in DOMAIN snapshots' : \/ i \in DOMAIN snapshots /\ snapshots'[i] = snapshots[i]
                                      \/ snapshots'[i] = node /\ poisoned = FALSE
<1>1. PICK S : snapshots \in Seq(S)
  BY DEF NodeInv, SnapshotsGood, IsSequence
<1>2. CASE Snapshot
  <2>1. snapshots' = Append(snapshots, node) /\ poisoned = FALSE
    BY <1>2 DEF Snapshot, serving, NodeInv
  <2>. QED BY <1>1, <2>1
<1>3. ASSUME NEW id \in 0..MAX_SNAPSHOTS, RevertSnapshot(id)
      PROVE  \A i \in DOMAIN snapshots' : i \in DOMAIN snapshots /\ snapshots'[i] = snapshots[i]
  <2>. DEFINE index == IF id = 0 THEN 1 ELSE id
  <2>1. index <= Len(snapshots) /\ snapshots' = SubSeq(snapshots, 1, index - 1) /\ id \in Nat
    BY <1>3, NodeAssumption DEF RevertSnapshot
  <2>2. index \in Nat \ {0}
    BY <2>1
  <2>. HIDE DEF index
  <2>. QED BY <1>1, <2>1, <2>2
<1>4. CASE UNCHANGED snapshots
  BY <1>4
<1>5. Snapshot \/ (\E id \in 0..MAX_SNAPSHOTS : RevertSnapshot(id)) \/ UNCHANGED snapshots
  BY DEF Next, Startup, ApplyTx, SetRichAccounts, Eth, SendRawTransaction, SendTransaction,
         NewBlockFilter, NewPendingTransactionFilter, NewFilter, install, UninstallFilter,
         GetFilterChanges, Evm, IncreaseTime, SetNextBlockTimestamp, SetTime, set, MineBlock,
         MineBlocks, Hardhat, SetBalance, SetNonce, SetCode, ImpersonateAccount,
         StopImpersonatingAccount, ForkFails, Dead, vars
<1>. QED BY <1>2, <1>3, <1>4, <1>5

LEMMA NextDelivers == NodeInv /\ FiltersInv /\ [Next]_vars => FiltersInv'
<1>. SUFFICES ASSUME NodeInv, FiltersInv, [Next]_vars PROVE FiltersInv'
  OBVIOUS
<1>1. Delivers(node')
  <2>1. CASE ForkFails \/ Dead \/ UNCHANGED vars
    BY <2>1 DEF ForkFails, Dead, vars, FiltersInv
  <2>. QED BY <2>1, StartupDelivers, EthDelivers, EvmDelivers, HardhatDelivers DEF Next
<1>2. \A i \in DOMAIN snapshots' : Delivers(snapshots'[i])
  BY SnapshotsAreOld DEF FiltersInv
<1>. QED BY <1>1, <1>2 DEF FiltersInv, Delivers, deliversTo, due

(* A filter has handed out and holds each event it wants since it was      *)
(* installed, once and in order, however the node was polled, mined on or  *)
(* reverted in between, for filters and logs of any kind.                  *)
THEOREM FiltersAlwaysDeliver == Spec => []FiltersDeliverOnce
<1>1. FiltersInv => FiltersDeliverOnce
  BY DEF FiltersInv, Delivers, deliversTo, due, FiltersDeliverOnce
<1>. QED BY NodeInvariant, FiltersInit, NextDelivers, <1>1, PTL DEF Spec


-----------------------------------------------------------------------------
(***************************************************************************)
(* The two blocks of a committed transaction.                              *)
(***************************************************************************)

(* The archive p with one more entry.                                      *)
archivedIn(p, hash, slots) ==
    LET kept == IF Len(p) > MAX_PREVIOUS_STATES THEN Tail(p) ELSE p
        new  == [hash |-> hash, slots |-> slots]
        at   == {i \in DOMAIN kept : kept[i].hash = new.hash}
    IN  IF at = {} THEN Append(kept, new) ELSE [i \in DOMAIN kept |-> IF i \in at THEN new ELSE kept[i]]

(* The logs among the events.                                              *)
loggedIn(n) == {e \in Range(n.audit.events) : e.kind = "log"}

LEMMA SameLogged ==
  ASSUME NEW n, NEW m, m.audit.events = n.audit.events
  PROVE  loggedIn(m) = loggedIn(n)
BY DEF loggedIn

(* An event of another kind is no log.                                     *)
LEMMA LoggedAppend ==
  ASSUME NEW n, NEW m, NEW e, IsSequence(n.audit.events),
         m.audit.events = Append(n.audit.events, e)
  PROVE  loggedIn(m) = loggedIn(n) \cup (IF e.kind = "log" THEN {e} ELSE {})
<1>1. Range(m.audit.events) = Range(n.audit.events) \cup {e}
  <2>. DEFINE p == n.audit.events
              q == m.audit.events
  <2>1. /\ Len(p) \in Nat /\ DOMAIN p = 1..Len(p) /\ DOMAIN q = 1..(Len(p) + 1)
        /\ q[Len(p) + 1] = e /\ \A i \in 1..Len(p) : q[i] = p[i]
    BY AppendFields
  <2>2. \A i : i \in 1..(Len(p) + 1) <=> i \in 1..Len(p) \/ i = Len(p) + 1
    BY <2>1
  <2>. HIDE DEF p, q
  <2>3. Range(q) = Range(p) \cup {e}
    BY <2>1, <2>2 DEF Range
  <2>. QED BY <2>3 DEF p, q
<1>. QED BY <1>1 DEF loggedIn

(* m is n with the block b that it expected.                               *)
Produced(n, m, b) ==
    /\ Shaped(m) /\ isNext(n, b)
    /\ m.tx_results = n.tx_results /\ m.storage = n.storage
    /\ m.current_batch = n.current_batch
    /\ m.current_miniblock = n.current_miniblock + 1
    /\ m.current_miniblock_hash = b.hash
    /\ m.block_hashes = with(n.block_hashes, b.number, b.hash)
    /\ m.blocks = with(n.blocks, b.hash, b)
    /\ m.previous_states = archivedIn(n.previous_states, n.current_miniblock_hash, n.storage.slots)
    /\ m.audit.jumped = n.audit.jumped
    /\ m.audit.stateAt = with(n.audit.stateAt, b.number, n.storage.slots)
    /\ loggedIn(m) = loggedIn(n)

LEMMA ProduceKeeps ==
  ASSUME NEW n, NEW b, Shaped(n)
  PROVE  LET s == produce([node |-> n, poisoned |-> FALSE], b)
         IN  s.poisoned = FALSE => Produced(n, s.node, b)
<1>. DEFINE m == [archive_state(n) EXCEPT !.current_miniblock = @ + 1,
                                          !.current_timestamp = @ + 1]
            here == [m EXCEPT !.current_miniblock_hash = b.hash]
            inserted == insertBlock(here, b)
            notified == [inserted EXCEPT !.filters = notify_new_block(@, b.hash)]
            event == [kind |-> "block", update |-> b.hash]
            states == archivedIn(n.previous_states, n.current_miniblock_hash, n.storage.slots)
            s == produce([node |-> n, poisoned |-> FALSE], b)
<1>1. archive_state(n) = [n EXCEPT !.previous_states = states]
  BY Zenon DEF archive_state, archivedIn
<1>. HIDE DEF states
<1>2. /\ Shaped(here) /\ here.audit = n.audit /\ here.storage = n.storage
      /\ here.tx_results = n.tx_results /\ here.current_batch = n.current_batch
      /\ here.current_miniblock = n.current_miniblock + 1
      /\ here.current_timestamp = n.current_timestamp + 1
      /\ here.current_miniblock_hash = b.hash
      /\ here.previous_states = states
      /\ here.block_hashes = n.block_hashes /\ here.blocks = n.blocks
      /\ m.current_batch = n.current_batch
      /\ m.current_miniblock = n.current_miniblock + 1
      /\ m.current_timestamp = n.current_timestamp + 1
  BY <1>1 DEF Shaped, IsNode
<1>3. /\ Shaped(inserted) /\ inserted.storage = n.storage
      /\ inserted.tx_results = n.tx_results /\ inserted.current_batch = n.current_batch
      /\ inserted.current_miniblock = n.current_miniblock + 1
      /\ inserted.current_miniblock_hash = b.hash
      /\ inserted.previous_states = states
      /\ inserted.audit = [n.audit EXCEPT !.stateAt = with(@, b.number, n.storage.slots)]
      /\ inserted.block_hashes = with(n.block_hashes, b.number, b.hash)
      /\ inserted.blocks = with(n.blocks, b.hash, b)
  <2>. HIDE DEF here
  <2>. QED BY <1>2 DEF insertBlock, Shaped, IsNode, IsAudit
<1>4. /\ Shaped(notified) /\ notified.storage = n.storage
      /\ notified.tx_results = n.tx_results /\ notified.current_batch = n.current_batch
      /\ notified.current_miniblock = n.current_miniblock + 1
      /\ notified.current_miniblock_hash = b.hash
      /\ notified.previous_states = states
      /\ notified.audit = inserted.audit
      /\ notified.block_hashes = with(n.block_hashes, b.number, b.hash)
      /\ notified.blocks = with(n.blocks, b.hash, b)
  <2>. HIDE DEF inserted
  <2>. QED BY <1>3 DEF Shaped, IsNode
<1>5. inserted.audit.jumped = n.audit.jumped /\ inserted.audit.events = n.audit.events
      /\ inserted.audit.stateAt = with(n.audit.stateAt, b.number, n.storage.slots)
  <2>. HIDE DEF inserted
  <2>. QED BY <1>3 DEF Shaped, IsAudit
<1>. HIDE DEF inserted, notified
<1>e. event.kind # "log"
  OBVIOUS
<1>. HIDE DEF event
<1>6. LET r == happened(notified, event)
      IN  /\ Shaped(r) /\ r.storage = n.storage
          /\ r.tx_results = n.tx_results /\ r.current_batch = n.current_batch
          /\ r.current_miniblock = n.current_miniblock + 1
          /\ r.current_miniblock_hash = b.hash
          /\ r.previous_states = states
          /\ r.audit.jumped = n.audit.jumped
          /\ r.audit.stateAt = with(n.audit.stateAt, b.number, n.storage.slots)
          /\ r.block_hashes = with(n.block_hashes, b.number, b.hash)
          /\ r.blocks = with(n.blocks, b.hash, b)
          /\ loggedIn(r) = loggedIn(n)
  <2>. DEFINE r == happened(notified, event)
  <2>1. /\ r = [notified EXCEPT !.audit.events = Append(notified.audit.events, event)]
        /\ Shaped(r)
    BY <1>4, HappenedFields
  <2>. HIDE DEF r
  <2>2. r.audit.events = Append(notified.audit.events, event)
        /\ IsSequence(notified.audit.events) /\ notified.audit.events = n.audit.events
    BY <1>4, <1>5, <2>1 DEF Shaped, IsNode, IsAudit
  <2>3. loggedIn(r) = loggedIn(notified) /\ loggedIn(notified) = loggedIn(n)
    <3>1. loggedIn(r) = loggedIn(notified) \cup (IF event.kind = "log" THEN {event} ELSE {})
      BY <2>2, LoggedAppend
    <3>2. loggedIn(notified) = loggedIn(n)
      BY <2>2, SameLogged
    <3>. QED BY <1>e, <3>1, <3>2
  <2>4. r.audit.jumped = n.audit.jumped
        /\ r.audit.stateAt = with(n.audit.stateAt, b.number, n.storage.slots)
    BY <1>4, <1>5, <2>1 DEF Shaped, IsNode, IsAudit
  <2>. QED BY <1>4, <2>1, <2>3, <2>4 DEF Shaped, IsNode, r
<1>7. isNext(n, b) <=> /\ b.batch = m.current_batch
                       /\ b.number = m.current_miniblock
                       /\ b.timestamp = m.current_timestamp
  BY <1>2 DEF isNext
<1>8. s = IF isNext(n, b) THEN [node |-> happened(notified, event), poisoned |-> FALSE]
          ELSE [node |-> m, poisoned |-> TRUE]
  BY <1>7 DEF produce, inserted, notified, event
<1>. HIDE DEF m, s
<1>9. ASSUME s.poisoned = FALSE PROVE isNext(n, b) /\ s.node = happened(notified, event)
  BY <1>8, <1>9
<1>10. ASSUME s.poisoned = FALSE PROVE Produced(n, s.node, b)
  BY <1>6, <1>9, <1>10 DEF Produced, states
<1>. QED BY <1>10 DEF s

(* The events of a transaction's logs.                                     *)
logEvents(logs) == {[kind |-> "log", update |-> logs[i]] : i \in DOMAIN logs}

LEMMA LogsAreLogged ==
  ASSUME NEW n, NEW logs, Shaped(n), Len(logs) \in Nat, DOMAIN logs = 1..Len(logs)
  PROVE  loggedIn(notifyLogs(n, logs)) \subseteq loggedIn(n) \cup logEvents(logs)
<1>. DEFINE L == Len(logs)
            all == loggedIn(n) \cup logEvents(logs)
<1>1. PICK f : /\ notifyLogs(n, logs) = f[L] /\ f[0] = n
               /\ \A i \in 1..L : f[i] = notifyLog(f[i - 1], logs[i])
  BY NotifyLogsSteps
<1>. DEFINE T == {k \in Nat : k <= L => Shaped(f[k]) /\ loggedIn(f[k]) \subseteq all}
<1>2. 0 \in T
  BY <1>1
<1>3. ASSUME NEW k \in T PROVE k + 1 \in T
  <2>. SUFFICES ASSUME k + 1 <= L PROVE Shaped(f[k + 1]) /\ loggedIn(f[k + 1]) \subseteq all
    OBVIOUS
  <2>. DEFINE e == [kind |-> "log", update |-> logs[k + 1]]
              g == [f[k] EXCEPT !.filters = notify_new_log(f[k].filters, logs[k + 1], logs[k + 1].block_number)]
  <2>1. f[k + 1] = happened(g, e) /\ Shaped(f[k]) /\ loggedIn(f[k]) \subseteq all
    BY <1>1 DEF notifyLog
  <2>2. Shaped(g) /\ g.audit = f[k].audit
    BY <2>1 DEF Shaped, IsNode
  <2>3. e \in logEvents(logs)
    BY DEF logEvents
  <2>. HIDE DEF g, e
  <2>4. /\ f[k + 1] = [g EXCEPT !.audit.events = Append(g.audit.events, e)]
        /\ Shaped(f[k + 1])
    BY <2>1, <2>2, HappenedFields
  <2>5. f[k + 1].audit.events = Append(f[k].audit.events, e) /\ IsSequence(f[k].audit.events)
    BY <2>2, <2>4 DEF Shaped, IsNode, IsAudit
  <2>6. loggedIn(f[k + 1]) \subseteq loggedIn(f[k]) \cup {e}
    BY <2>5, LoggedAppend
  <2>. QED BY <2>1, <2>3, <2>4, <2>6
<1>4. Nat \subseteq T
  <2>. HIDE DEF T
  <2>. QED BY <1>2, <1>3, SetInduction
<1>. QED BY <1>1, <1>4

(* m is n with a committed transaction: its block, the empty block that    *)
(* ends the batch, its receipt and its nonce.                              *)
CommittedAs(n, m, t, b, e, receipt) ==
    LET states == archivedIn(n.previous_states, n.current_miniblock_hash, m.storage.slots)
    IN  /\ b.number = n.current_miniblock + 1 /\ e.number = n.current_miniblock + 2
        /\ b.hash = <<b.number, t>> /\ e.hash = <<e.number, NoTransaction>>
        /\ b.transactions # <<>> /\ (\A u : holds(b, u) <=> u = t) /\ e.transactions = <<>>
        /\ m.current_miniblock = e.number /\ m.current_miniblock_hash = e.hash
        /\ m.tx_results = with(n.tx_results, t, receipt)
        /\ receipt.block_hash = b.hash /\ receipt.block_number = b.number
        /\ receipt.batch = b.batch
        /\ m.storage.nonces = [n.storage.nonces EXCEPT ![From[t]] = Nonce[t] + 1]
        /\ m.storage.slots = over(Writes[t], n.storage.slots)
        /\ m.block_hashes = with(with(n.block_hashes, b.number, b.hash), e.number, e.hash)
        /\ m.blocks = with(with(n.blocks, b.hash, b), e.hash, e)
        /\ m.previous_states = archivedIn(states, b.hash, m.storage.slots)
        /\ m.audit.jumped = n.audit.jumped
        /\ m.audit.stateAt = with(with(n.audit.stateAt, b.number, m.storage.slots), e.number,
                                  m.storage.slots)
        /\ loggedIn(m) \subseteq loggedIn(n) \cup logEvents(receipt.logs)
        /\ \A i \in DOMAIN receipt.logs : receipt.logs[i].block_number = b.number
        /\ \E x : b.transactions = <<x>> /\ x.hash = t

Committed(n, m, t) == \E b, e, receipt : CommittedAs(n, m, t, b, e, receipt)

LEMMA CommitKeeps ==
  ASSUME NEW n, NEW p, NEW t \in Transactions, Good(n), Told(n, p), loggedIn(p) = loggedIn(n)
  PROVE  LET s == commit(p, t, create_l1_batch_env(n))
         IN  s.poisoned = FALSE => Committed(n, s.node, t)
<1>. DEFINE ctx     == create_l1_batch_env(n)
            block   == transactionBlock(p, t, ctx)
            logs    == receiptLogs(t, block)
            written == [p EXCEPT !.storage = executeBatch(@, t, ctx)]
            logged  == notifyLogs(written, logs)
            receipt == [block_hash |-> block.hash, block_number |-> block.number,
                        batch |-> block.batch, logs |-> logs]
            ready   == [logged EXCEPT !.tx_results = with(@, t, receipt), !.current_batch = @ + 1]
            s1      == produce([node |-> ready, poisoned |-> FALSE], block)
            last    == fictiveBlock(block, new_block(ctx))
            s2      == produce(s1, last)
<1>1. /\ Shaped(n) /\ Counted(n) /\ n.current_miniblock \in Nat
      /\ ctx.miniblock = n.current_miniblock + 1
  BY BatchEnvFields DEF Good, Sound, Chain, Numbered
<1>. HIDE DEF ctx
<1>2. /\ block.hash = <<block.number, t>> /\ block.number = ctx.miniblock
      /\ block.transactions # <<>> /\ (\A u : holds(block, u) <=> u = t)
      /\ \E x : block.transactions = <<x>> /\ x.hash = t
  <2>1. block.transactions = <<included(t, p.current_miniblock_hash, p.current_miniblock)>>
    BY DEF transactionBlock
  <2>2. /\ block.transactions # <<>> /\ DOMAIN block.transactions = {1}
        /\ block.transactions[1].hash = t /\ \E x : block.transactions = <<x>> /\ x.hash = t
    BY <2>1 DEF included
  <2>3. block.hash = <<ctx.miniblock, t>> /\ block.number = ctx.miniblock
    BY DEF transactionBlock, compute_hash
  <2>. HIDE DEF block
  <2>. QED BY <2>2, <2>3 DEF holds
<1>3. /\ last.hash = <<last.number, NoTransaction>> /\ last.number = ctx.miniblock + 1
      /\ last.transactions = <<>>
  <2>1. new_block(ctx).miniblock = ctx.miniblock + 1
    BY DEF new_block, ctx, create_l1_batch_env, new_batch, from_current
  <2>. HIDE DEF block
  <2>. QED BY <2>1 DEF fictiveBlock, create_empty_block, compute_hash
<1>. HIDE DEF block, last
<1>4. /\ Len(logs) \in Nat /\ DOMAIN logs = 1..Len(logs)
      /\ \A i \in DOMAIN logs : logs[i].block_number = block.number
  <2>1. Len(Logs[t]) \in Nat /\ DOMAIN Logs[t] = 1..Len(Logs[t])
    BY NodeAssumption
  <2>2. /\ logs \in [1..Len(Logs[t]) -> {logs[i] : i \in 1..Len(Logs[t])}]
        /\ \A i \in 1..Len(Logs[t]) : logs[i].block_number = block.number
    BY <2>1 DEF receiptLogs
  <2>. HIDE DEF logs
  <2>3. logs \in Seq({logs[i] : i \in 1..Len(Logs[t])})
    BY <2>1, <2>2
  <2>. QED BY <2>1, <2>2, <2>3
<1>5. /\ Shaped(written) /\ written.audit = p.audit /\ written.tx_results = p.tx_results
      /\ written.storage.nonces = [n.storage.nonces EXCEPT ![From[t]] = Nonce[t] + 1]
      /\ written.storage.slots = over(Writes[t], n.storage.slots)
      /\ written.current_miniblock = n.current_miniblock
      /\ written.current_miniblock_hash = n.current_miniblock_hash
      /\ written.previous_states = n.previous_states
      /\ written.block_hashes = n.block_hashes /\ written.blocks = n.blocks
  <2>1. LET st == executeBatch(p.storage, t, ctx)
        IN  /\ IsStorage(st)
            /\ st.nonces = [p.storage.nonces EXCEPT ![From[t]] = Nonce[t] + 1]
            /\ st.slots = over(Writes[t], p.storage.slots)
    BY DEF executeBatch, Told, Shaped, IsStorage
  <2>. QED BY <2>1 DEF Told, Shaped, IsNode, SameBatch
<1>6. Told(written, logged) /\ loggedIn(logged) \subseteq loggedIn(n) \cup logEvents(logs)
  <2>1. loggedIn(written) = loggedIn(n)
    <3>. HIDE DEF written
    <3>. QED BY <1>5, SameLogged
  <2>. HIDE DEF written, logs
  <2>. QED BY <1>4, <1>5, <2>1, NotifyLogsFields, LogsAreLogged
<1>. HIDE DEF logs
<1>7. receipt.block_hash = block.hash /\ receipt.block_number = block.number
      /\ receipt.batch = block.batch /\ receipt.logs = logs
  OBVIOUS
<1>. HIDE DEF receipt
<1>8. /\ written.tx_results = n.tx_results
      /\ written.audit.jumped = n.audit.jumped /\ written.audit.stateAt = n.audit.stateAt
  <2>. HIDE DEF written
  <2>. QED BY <1>5 DEF Told, SameBatch
<1>. HIDE DEF written, logged
<1>9. /\ Shaped(ready) /\ ready.storage = written.storage
      /\ ready.tx_results = with(n.tx_results, t, receipt)
      /\ ready.audit.jumped = n.audit.jumped /\ ready.audit.stateAt = n.audit.stateAt
      /\ ready.current_miniblock = n.current_miniblock
      /\ ready.current_miniblock_hash = n.current_miniblock_hash
      /\ ready.previous_states = n.previous_states
      /\ ready.block_hashes = n.block_hashes /\ ready.blocks = n.blocks
      /\ ready.audit = logged.audit
  BY <1>5, <1>6, <1>8 DEF Told, Shaped, IsNode, SameBatch
<1>. HIDE DEF ready
<1>10. s1.poisoned = FALSE => Produced(ready, s1.node, block)
  BY <1>9, ProduceKeeps
<1>11. s2.poisoned = FALSE => s1.poisoned = FALSE
  <2>1. CASE s1.poisoned = TRUE
    <3>. HIDE DEF s1
    <3>. QED BY <2>1 DEF produce
  <2>2. s1.poisoned \in BOOLEAN
    BY <1>9, ProduceFields
  <2>. HIDE DEF s1, s2
  <2>. QED BY <2>1, <2>2
<1>12. s2.poisoned = FALSE => Produced(s1.node, s2.node, last)
  <2>. SUFFICES ASSUME s2.poisoned = FALSE PROVE Produced(s1.node, s2.node, last)
    OBVIOUS
  <2>1. Shaped(s1.node) /\ s1.poisoned = FALSE
    BY <1>10, <1>11 DEF Produced
  <2>. HIDE DEF s1
  <2>2. s2 = produce([node |-> s1.node, poisoned |-> FALSE], last)
    BY <2>1 DEF produce
  <2>. HIDE DEF s2
  <2>. QED BY <2>1, <2>2, ProduceKeeps
<1>13. commit(p, t, ctx) = s2
  BY DEF commit, ctx, s2, s1, last, ready, logged, written, receipt, logs, block
<1>. HIDE DEF s1, s2
<1>14. ASSUME s2.poisoned = FALSE PROVE Committed(n, s2.node, t)
  <2>. DEFINE m == s2.node
              states == archivedIn(n.previous_states, n.current_miniblock_hash, m.storage.slots)
  <2>1. Produced(ready, s1.node, block) /\ Produced(s1.node, m, last)
    BY <1>10, <1>11, <1>12, <1>14
  <2>. HIDE DEF m
  <2>2. /\ m.storage = written.storage
        /\ s1.node.storage = m.storage /\ ready.storage = m.storage
    BY <1>9, <2>1 DEF Produced
  <2>3. /\ block.number = n.current_miniblock + 1 /\ last.number = n.current_miniblock + 2
    BY <1>1, <1>2, <1>3
  <2>4. /\ m.current_miniblock = last.number /\ m.current_miniblock_hash = last.hash
        /\ m.tx_results = with(n.tx_results, t, receipt)
        /\ m.storage.nonces = [n.storage.nonces EXCEPT ![From[t]] = Nonce[t] + 1]
        /\ m.storage.slots = over(Writes[t], n.storage.slots)
        /\ m.block_hashes = with(with(n.block_hashes, block.number, block.hash), last.number, last.hash)
        /\ m.blocks = with(with(n.blocks, block.hash, block), last.hash, last)
        /\ m.audit.jumped = n.audit.jumped
    BY <1>1, <1>5, <1>9, <2>1, <2>2, <2>3 DEF Produced
  <2>5. /\ m.previous_states = archivedIn(states, block.hash, m.storage.slots)
        /\ m.audit.stateAt = with(with(n.audit.stateAt, block.number, m.storage.slots),
                                  last.number, m.storage.slots)
    BY <1>9, <2>1, <2>2 DEF Produced
  <2>6. loggedIn(m) \subseteq loggedIn(n) \cup logEvents(receipt.logs)
    <3>1. loggedIn(ready) = loggedIn(logged)
      BY <1>9, SameLogged
    <3>. QED BY <1>6, <1>7, <2>1, <3>1 DEF Produced
  <2>7. CommittedAs(n, m, t, block, last, receipt)
    BY <1>1, <1>2, <1>3, <1>4, <1>7, <2>3, <2>4, <2>5, <2>6 DEF CommittedAs
  <2>. QED BY <2>7 DEF Committed, m
<1>. QED BY <1>13, <1>14 DEF ctx

(* The chain after a commit: the node's and two blocks more.               *)
LEMMA AddedBlocks ==
  ASSUME ForkInRange, NEW n, NEW m, NEW t, NEW b, NEW e, NEW receipt, Numbered(n),
         CommittedAs(n, m, t, b, e, receipt)
  PROVE  LET c == n.current_miniblock
         IN  /\ m.current_miniblock = c + 2
             /\ \A k \in first..c : m.block_hashes[k] = n.block_hashes[k] /\ blockOf(m, k) = blockOf(n, k)
             /\ m.block_hashes[c + 1] = b.hash /\ blockOf(m, c + 1) = b
             /\ m.block_hashes[c + 2] = e.hash /\ blockOf(m, c + 2) = e
             /\ DOMAIN m.block_hashes = first..(c + 2)
             /\ DOMAIN m.blocks = DOMAIN n.blocks \cup {b.hash, e.hash}
<1>. DEFINE c == n.current_miniblock
            hashes == with(n.block_hashes, b.number, b.hash)
            blocks == with(n.blocks, b.hash, b)
<1>1. /\ first \in Nat /\ c \in Nat /\ first <= c
      /\ DOMAIN n.block_hashes = first..c
      /\ \A k \in first..c : n.block_hashes[k][1] = k /\ n.block_hashes[k] \in DOMAIN n.blocks
  BY FirstInNat DEF Numbered
<1>2. /\ b.number = c + 1 /\ e.number = c + 2 /\ b.hash[1] = c + 1 /\ e.hash[1] = c + 2
      /\ m.current_miniblock = c + 2
      /\ m.block_hashes = with(hashes, e.number, e.hash) /\ m.blocks = with(blocks, e.hash, e)
  BY DEF CommittedAs
<1>3. \A k \in first..c : /\ k # c + 1 /\ k # c + 2
                          /\ n.block_hashes[k] # b.hash /\ n.block_hashes[k] # e.hash
  BY <1>1, <1>2
<1>4. b.hash # e.hash /\ c + 1 # c + 2
  BY <1>1, <1>2
<1>5. /\ DOMAIN hashes = (first..c) \cup {c + 1} /\ hashes[c + 1] = b.hash
      /\ \A k \in first..c : hashes[k] = n.block_hashes[k]
  BY <1>1, <1>2, <1>3 DEF with
<1>6. /\ DOMAIN blocks = DOMAIN n.blocks \cup {b.hash} /\ blocks[b.hash] = b
      /\ \A k \in first..c : blocks[n.block_hashes[k]] = n.blocks[n.block_hashes[k]]
  BY <1>1, <1>2, <1>3 DEF with
<1>. HIDE DEF hashes, blocks
<1>7. /\ DOMAIN m.block_hashes = first..(c + 2)
      /\ m.block_hashes[c + 1] = b.hash /\ m.block_hashes[c + 2] = e.hash
      /\ \A k \in first..c : m.block_hashes[k] = n.block_hashes[k]
  <2>1. \A k : k \in first..(c + 2) <=> k \in first..c \/ k = c + 1 \/ k = c + 2
    BY <1>1
  <2>2. DOMAIN m.block_hashes = DOMAIN hashes \cup {c + 2}
    BY <1>2 DEF with
  <2>3. DOMAIN m.block_hashes = first..(c + 2)
    BY <1>5, <2>1, <2>2
  <2>. QED BY <1>1, <1>2, <1>3, <1>4, <1>5, <2>3 DEF with
<1>8. /\ DOMAIN m.blocks = DOMAIN n.blocks \cup {b.hash, e.hash}
      /\ m.blocks[b.hash] = b /\ m.blocks[e.hash] = e
      /\ \A k \in first..c : m.blocks[n.block_hashes[k]] = n.blocks[n.block_hashes[k]]
  BY <1>1, <1>2, <1>3, <1>4, <1>6 DEF with
<1>. QED BY <1>2, <1>7, <1>8 DEF blockOf

-----------------------------------------------------------------------------
(***************************************************************************)
(* Receipts and nonces.                                                    *)
(***************************************************************************)
placesOf(n, t) == {k \in (first + 1)..n.current_miniblock : holds(blockOf(n, k), t)}

Receipts(n) ==
    /\ DOMAIN n.tx_results \subseteq Transactions /\ IsFiniteSet(DOMAIN n.tx_results)
    /\ \A t \in Transactions :
          placesOf(n, t) = IF t \in DOMAIN n.tx_results THEN {n.tx_results[t].block_number} ELSE {}
    /\ \A t \in DOMAIN n.tx_results :
          LET receipt == n.tx_results[t]
          IN  /\ receipt.block_hash = n.block_hashes[receipt.block_number]
              /\ receipt.batch = blockOf(n, receipt.block_number).batch

receiptsOf(n, a) == {t \in DOMAIN n.tx_results : From[t] = a}

(* The nonce an account has on the fork.                                   *)
forkNonce(a) == IF fork = NoFork THEN 0 ELSE remoteNonces[fork][a]

NoncesCount(n) ==
    /\ n.storage.nonces \in [Accounts -> Nat]
    /\ \A t \in DOMAIN n.tx_results : nonceOf(n, From[t]) > Nonce[t]
    /\ \A a \in Accounts \ n.audit.jumped :
          nonceOf(n, a) = Cardinality(receiptsOf(n, a)) + forkNonce(a)

ForkNonces == \A a \in Accounts : forkNonce(a) \in Nat

(* Requests that leave the chain, the receipts and the archive alone.  The *)
(* state of the last block may still change.                               *)
SameHistory(n, m) ==
    /\ m.tx_results = n.tx_results /\ m.previous_states = n.previous_states
    /\ m.current_miniblock = n.current_miniblock
    /\ m.current_miniblock_hash = n.current_miniblock_hash
    /\ m.block_hashes = n.block_hashes /\ m.blocks = n.blocks
    /\ DOMAIN m.audit.stateAt = DOMAIN n.audit.stateAt
    /\ \A k \in DOMAIN n.audit.stateAt :
          k # n.current_miniblock => m.audit.stateAt[k] = n.audit.stateAt[k]
    /\ loggedIn(m) = loggedIn(n)

LEMMA ReceiptsFrame ==
  ASSUME NEW n, NEW m, Receipts(n), SameHistory(n, m)
  PROVE  Receipts(m)
<1>1. \A k : blockOf(m, k) = blockOf(n, k)
  BY DEF blockOf, SameHistory
<1>2. \A t : placesOf(m, t) = placesOf(n, t)
  BY <1>1 DEF placesOf, SameHistory
<1>. QED BY <1>1, <1>2 DEF Receipts, SameHistory

LEMMA NoncesFrame ==
  ASSUME NEW n, NEW m, NoncesCount(n), m.tx_results = n.tx_results,
         m.storage.nonces = n.storage.nonces, m.audit.jumped = n.audit.jumped
  PROVE  NoncesCount(m)
BY DEF NoncesCount, nonceOf, receiptsOf

(* A nonce that is set is larger than before, and the account is named.    *)
LEMMA SetNonceCounts ==
  ASSUME ForkNonces, NEW n, NEW m, NEW account \in Accounts, NEW nonce \in Nat, NoncesCount(n),
         \A t \in Transactions : From[t] \in Accounts /\ Nonce[t] \in Nat,
         DOMAIN n.tx_results \subseteq Transactions,
         nonceOf(n, account) < nonce, m.tx_results = n.tx_results,
         m.storage.nonces = [n.storage.nonces EXCEPT ![account] = nonce],
         m.audit.jumped = n.audit.jumped \cup {account}
  PROVE  NoncesCount(m)
<1>1. \A a \in Accounts : nonceOf(n, a) \in Nat
  BY DEF ForkNonces, forkNonce, NoncesCount, nonceOf
<1>2. nonce # 0
  BY <1>1
<1>3. nonceOf(m, account) = nonce /\ \A a \in Accounts \ {account} : nonceOf(m, a) = nonceOf(n, a)
  BY <1>2 DEF nonceOf, NoncesCount
<1>4. \A t \in DOMAIN m.tx_results : nonceOf(m, From[t]) > Nonce[t]
  BY <1>1, <1>3 DEF NoncesCount
<1>5. \A a : receiptsOf(m, a) = receiptsOf(n, a)
  BY DEF receiptsOf
<1>. QED BY <1>3, <1>4, <1>5 DEF NoncesCount

LEMMA ReceiptsMine ==
  ASSUME ForkInRange, NEW n, NEW m, Numbered(n), Counted(n), Receipts(n), MinesOne(n, m)
  PROVE  Receipts(m)
<1>. DEFINE c == n.current_miniblock
<1>1. /\ first \in Nat /\ c \in Nat /\ first <= c /\ create_l1_batch_env(n).miniblock = c + 1
  BY FirstInNat, BatchEnvFields DEF Numbered
<1>2. PICK b : /\ b.number = c + 1 /\ b.hash[1] = b.number /\ b.transactions = <<>>
               /\ m.current_miniblock = b.number
               /\ m.block_hashes = with(n.block_hashes, b.number, b.hash)
               /\ m.blocks = with(n.blocks, b.hash, b)
  BY <1>1 DEF MinesOne
<1>3. Adds(n, m, b)
  BY <1>2, AddedBlock
<1>4. \A t : ~holds(b, t)
  BY <1>2 DEF holds
<1>5. \A t : placesOf(m, t) = placesOf(n, t)
  <2>1. \A k : k \in (first + 1)..(c + 1) <=> k \in (first + 1)..c \/ k = c + 1
    BY <1>1
  <2>2. \A k \in (first + 1)..c : blockOf(m, k) = blockOf(n, k)
    BY <1>1, <1>3 DEF Adds
  <2>3. blockOf(m, c + 1) = b
    BY <1>3 DEF Adds
  <2>. QED BY <1>2, <1>4, <2>1, <2>2, <2>3 DEF placesOf
<1>6. m.tx_results = n.tx_results
  BY DEF MinesOne
<1>7. \A t \in DOMAIN n.tx_results : n.tx_results[t].block_number \in first..c
  BY <1>1 DEF Receipts, placesOf
<1>8. \A k \in first..c : m.block_hashes[k] = n.block_hashes[k] /\ blockOf(m, k) = blockOf(n, k)
  BY <1>3 DEF Adds
<1>. QED BY <1>5, <1>6, <1>7, <1>8 DEF Receipts

LEMMA ReceiptsCommit ==
  ASSUME ForkInRange, NEW n, NEW m, NEW t \in Transactions, Numbered(n), Receipts(n),
         t \notin DOMAIN n.tx_results, Committed(n, m, t)
  PROVE  Receipts(m)
<1>. DEFINE c == n.current_miniblock
<1>1. PICK b, e, receipt : CommittedAs(n, m, t, b, e, receipt)
  BY DEF Committed
<1>2. first \in Nat /\ c \in Nat /\ first <= c
  BY FirstInNat DEF Numbered
<1>3. /\ m.current_miniblock = c + 2
      /\ \A k \in first..c : m.block_hashes[k] = n.block_hashes[k] /\ blockOf(m, k) = blockOf(n, k)
      /\ m.block_hashes[c + 1] = b.hash /\ blockOf(m, c + 1) = b
      /\ blockOf(m, c + 2) = e
  BY <1>1, AddedBlocks
<1>4. /\ m.tx_results = with(n.tx_results, t, receipt)
      /\ receipt.block_hash = b.hash /\ receipt.block_number = c + 1 /\ receipt.batch = b.batch
      /\ (\A u : holds(b, u) <=> u = t) /\ (\A u : ~holds(e, u))
  BY <1>1 DEF CommittedAs, holds
<1>5. /\ DOMAIN m.tx_results = DOMAIN n.tx_results \cup {t} /\ m.tx_results[t] = receipt
      /\ \A u \in DOMAIN n.tx_results : m.tx_results[u] = n.tx_results[u]
  BY <1>4 DEF with
<1>6. IsFiniteSet(DOMAIN m.tx_results) /\ DOMAIN m.tx_results \subseteq Transactions
  BY <1>5, FS_AddElement DEF Receipts
<1>7. \A u \in Transactions : placesOf(m, u) = placesOf(n, u) \cup (IF u = t THEN {c + 1} ELSE {})
  <2>1. \A k : k \in (first + 1)..(c + 2) <=> k \in (first + 1)..c \/ k = c + 1 \/ k = c + 2
    BY <1>2
  <2>2. \A k \in (first + 1)..c : blockOf(m, k) = blockOf(n, k)
    BY <1>2, <1>3
  <2>. QED BY <1>3, <1>4, <2>1, <2>2 DEF placesOf
<1>8. \A u \in DOMAIN n.tx_results : n.tx_results[u].block_number \in first..c
  BY <1>2 DEF Receipts, placesOf
<1>9. \A u \in Transactions :
        placesOf(m, u) = IF u \in DOMAIN m.tx_results THEN {m.tx_results[u].block_number} ELSE {}
  BY <1>4, <1>5, <1>7 DEF Receipts
<1>10. \A u \in DOMAIN m.tx_results :
         /\ m.tx_results[u].block_hash = m.block_hashes[m.tx_results[u].block_number]
         /\ m.tx_results[u].batch = blockOf(m, m.tx_results[u].block_number).batch
  <2>. SUFFICES ASSUME NEW u \in DOMAIN m.tx_results
                PROVE  /\ m.tx_results[u].block_hash = m.block_hashes[m.tx_results[u].block_number]
                       /\ m.tx_results[u].batch = blockOf(m, m.tx_results[u].block_number).batch
    OBVIOUS
  <2>1. CASE u = t
    BY <1>3, <1>4, <1>5, <2>1
  <2>2. CASE u # t
    BY <1>3, <1>5, <1>8, <2>2 DEF Receipts
  <2>. QED BY <2>1, <2>2
<1>. QED BY <1>6, <1>9, <1>10 DEF Receipts

(* The nonce of a committed transaction was its sender's next one, so it   *)
(* was not committed before.                                               *)
LEMMA NoncesCommit ==
  ASSUME ForkNonces, NEW n, NEW m, NEW t \in Transactions, Receipts(n), NoncesCount(n),
         nonceOf(n, From[t]) = Nonce[t], Committed(n, m, t)
  PROVE  t \notin DOMAIN n.tx_results /\ NoncesCount(m)
<1>. DEFINE a == From[t]
<1>1. PICK b, e, receipt : CommittedAs(n, m, t, b, e, receipt)
  BY DEF Committed
<1>2. a \in Accounts /\ Nonce[t] \in Nat /\ \A u \in Transactions : From[u] \in Accounts /\ Nonce[u] \in Nat
  BY NodeAssumption
<1>3. t \notin DOMAIN n.tx_results
  BY <1>2 DEF NoncesCount
<1>4. /\ DOMAIN m.tx_results = DOMAIN n.tx_results \cup {t}
      /\ m.storage.nonces = [n.storage.nonces EXCEPT ![a] = Nonce[t] + 1]
      /\ m.audit.jumped = n.audit.jumped
  BY <1>1 DEF CommittedAs, with
<1>5. m.storage.nonces \in [Accounts -> Nat]
  BY <1>2, <1>4 DEF NoncesCount
<1>6. nonceOf(m, a) = Nonce[t] + 1 /\ \A x \in Accounts \ {a} : nonceOf(m, x) = nonceOf(n, x)
  BY <1>2, <1>4 DEF nonceOf, NoncesCount
<1>7. \A u \in DOMAIN m.tx_results : nonceOf(m, From[u]) > Nonce[u]
  <2>. SUFFICES ASSUME NEW u \in DOMAIN m.tx_results PROVE nonceOf(m, From[u]) > Nonce[u]
    OBVIOUS
  <2>1. CASE u = t
    BY <1>2, <1>6, <2>1
  <2>2. CASE u # t
    <3>1. u \in DOMAIN n.tx_results /\ u \in Transactions
      BY <1>4, <2>2 DEF Receipts
    <3>2. nonceOf(n, From[u]) > Nonce[u]
      BY <3>1 DEF NoncesCount
    <3>. QED BY <1>2, <1>6, <3>1, <3>2
  <2>. QED BY <2>1, <2>2
<1>8. \A x \in Accounts \ m.audit.jumped :
        nonceOf(m, x) = Cardinality(receiptsOf(m, x)) + forkNonce(x)
  <2>. SUFFICES ASSUME NEW x \in Accounts \ m.audit.jumped
                PROVE  nonceOf(m, x) = Cardinality(receiptsOf(m, x)) + forkNonce(x)
    OBVIOUS
  <2>1. nonceOf(n, x) = Cardinality(receiptsOf(n, x)) + forkNonce(x)
    BY <1>4 DEF NoncesCount
  <2>2. IsFiniteSet(receiptsOf(n, x))
    BY FS_Subset DEF receiptsOf, Receipts
  <2>3. Cardinality(receiptsOf(n, x)) \in Nat /\ forkNonce(x) \in Nat
    BY <2>2, FS_CardinalityType DEF ForkNonces
  <2>4. CASE x = a
    <3>1. receiptsOf(m, x) = receiptsOf(n, x) \cup {t} /\ t \notin receiptsOf(n, x)
      BY <1>3, <1>4, <2>4 DEF receiptsOf
    <3>2. Cardinality(receiptsOf(m, x)) = Cardinality(receiptsOf(n, x)) + 1
      BY <2>2, <3>1, FS_AddElement
    <3>. QED BY <1>2, <1>6, <2>1, <2>3, <2>4, <3>2
  <2>5. CASE x # a
    <3>1. receiptsOf(m, x) = receiptsOf(n, x)
      BY <1>4, <2>5 DEF receiptsOf
    <3>. QED BY <1>6, <2>1, <2>5, <3>1
  <2>. QED BY <2>4, <2>5
<1>. QED BY <1>3, <1>5, <1>7, <1>8 DEF NoncesCount

-----------------------------------------------------------------------------
(* Finitely many finite sets have a finite union.                          *)
LEMMA FiniteUnion ==
  ASSUME NEW f, NEW L \in Nat, \A i \in 1..L : IsFiniteSet(f[i])
  PROVE  IsFiniteSet(UNION {f[i] : i \in 1..L})
<1>. DEFINE up(k) == UNION {f[i] : i \in 1..k}
            T == {k \in Nat : k <= L => IsFiniteSet(up(k))}
<1>1. 0 \in T
  <2>1. up(0) = {}
    OBVIOUS
  <2>2. IsFiniteSet(up(0))
    BY <2>1, FS_EmptySet
  <2>. QED BY <2>2
<1>2. ASSUME NEW k \in T PROVE k + 1 \in T
  <2>. SUFFICES ASSUME k + 1 <= L PROVE IsFiniteSet(up(k + 1))
    OBVIOUS
  <2>1. \A i : i \in 1..(k + 1) <=> i \in 1..k \/ i = k + 1
    OBVIOUS
  <2>2. up(k + 1) = up(k) \cup f[k + 1]
    BY <2>1
  <2>3. k <= L => IsFiniteSet(up(k))
    OBVIOUS
  <2>. HIDE DEF up
  <2>4. IsFiniteSet(up(k)) /\ IsFiniteSet(f[k + 1])
    BY <2>3
  <2>5. IsFiniteSet(up(k) \cup f[k + 1])
    BY <2>4, FS_Union
  <2>. QED BY <2>2, <2>5
<1>3. L \in T
  <2>. HIDE DEF T
  <2>. QED BY <1>1, <1>2, SetInduction
<1>4. IsFiniteSet(up(L))
  <2>. HIDE DEF up
  <2>. QED BY <1>3
<1>. QED BY <1>4

(* The nonces of the network are numbers: of transactions in its blocks.   *)
LEMMA RemoteNoncesInNat ==
  ASSUME NEW k \in 0..Len(RemoteBlocks), NEW a \in Accounts
  PROVE  remoteNonces[k][a] \in Nat
<1>. DEFINE places == [i \in 1..k |-> {i} \X DOMAIN RemoteBlocks[i].transactions]
            all == UNION {{i} \X DOMAIN RemoteBlocks[i].transactions : i \in 1..k}
            Block == [transactions : Seq(Transactions), timestamp : Nat, batch : Nat \ {0}]
            mine == {p \in all : From[RemoteBlocks[p[1]].transactions[p[2]]] = a}
<1>1. RemoteBlocks \in Seq(Block) /\ Len(RemoteBlocks) \in Nat /\ k \in Nat
  BY NodeAssumption
<1>2. \A i \in 1..k : RemoteBlocks[i] \in Block
  <2>. HIDE DEF Block
  <2>. QED BY <1>1
<1>3. ASSUME NEW i \in 1..k PROVE IsFiniteSet(places[i])
  <2>. DEFINE own == DOMAIN RemoteBlocks[i].transactions
  <2>1. RemoteBlocks[i].transactions \in Seq(Transactions)
    BY <1>2
  <2>2. PICK len \in Nat : own = 1..len
    BY <2>1
  <2>3. IsFiniteSet(1..len)
    BY FS_Interval
  <2>4. IsFiniteSet(own)
    <3>. HIDE DEF own
    <3>. QED BY <2>2, <2>3
  <2>5. places[i] = {i} \X own
    OBVIOUS
  <2>. HIDE DEF own, places
  <2>6. IsFiniteSet({i})
    BY FS_Singleton
  <2>7. IsFiniteSet({i} \X own)
    BY <2>4, <2>6, FS_Product
  <2>. QED BY <2>5, <2>7
<1>4. IsFiniteSet(UNION {places[i] : i \in 1..k})
  <2>. HIDE DEF places
  <2>. QED BY <1>1, <1>3, FiniteUnion
<1>5. UNION {places[i] : i \in 1..k} = all
  <2>1. {places[i] : i \in 1..k} = {{i} \X DOMAIN RemoteBlocks[i].transactions : i \in 1..k}
    OBVIOUS
  <2>. QED BY Zenon, <2>1
<1>6. Cardinality(mine) \in Nat
  <2>1. mine \subseteq all
    OBVIOUS
  <2>. HIDE DEF mine, all, places
  <2>2. IsFiniteSet(all)
    BY Zenon, <1>4, <1>5
  <2>3. IsFiniteSet(mine)
    BY <2>1, <2>2, FS_Subset
  <2>. QED BY <2>3, FS_CardinalityType
<1>7. remoteNonces[k][a] = Cardinality(mine)
  BY DEF remoteNonces
<1>. QED BY <1>6, <1>7

-----------------------------------------------------------------------------
(***************************************************************************)
(* The archive.                                                            *)
(***************************************************************************)

(* A sequence q is p without its first d entries and with the entries of   *)
(* new at its end.                                                         *)
Shifts(p, q, d, new) ==
    /\ IsSequence(q) /\ Len(q) = Len(p) - d + Len(new)
    /\ \A i \in 1..(Len(p) - d) : q[i] = p[i + d]
    /\ \A i \in 1..Len(new) : q[Len(p) - d + i] = new[i]

(* A new entry goes to the end, and the first one goes when there were too *)
(* many.                                                                   *)
LEMMA ArchivedInEnd ==
  ASSUME NEW p, NEW h, NEW slots, IsSequence(p), Len(p) <= MAX_PREVIOUS_STATES + 1,
         \A i \in DOMAIN p : p[i].hash # h
  PROVE  LET q == archivedIn(p, h, slots)
         IN  /\ Len(q) <= MAX_PREVIOUS_STATES + 1
             /\ \E d \in 0..1 : /\ d = 1 => Len(p) > MAX_PREVIOUS_STATES
                                /\ Shifts(p, q, d, <<[hash |-> h, slots |-> slots]>>)
<1>. DEFINE kept == IF Len(p) > MAX_PREVIOUS_STATES THEN Tail(p) ELSE p
            new == [hash |-> h, slots |-> slots]
            q == archivedIn(p, h, slots)
<1>1. PICK S : p \in Seq(S)
  BY DEF IsSequence
<1>2. MAX_PREVIOUS_STATES \in Nat \ {0}
  BY NodeAssumption
<1>3. PICK d \in 0..1 : /\ d = 1 => Len(p) > MAX_PREVIOUS_STATES
                        /\ d = 0 => Len(p) <= MAX_PREVIOUS_STATES
                        /\ kept \in Seq(S) /\ Len(kept) = Len(p) - d
                        /\ \A i \in 1..Len(kept) : kept[i] = p[i + d]
  <2>1. CASE Len(p) > MAX_PREVIOUS_STATES
    <3>1. p # <<>> /\ kept = Tail(p)
      BY <1>1, <1>2, <2>1
    <3>2. /\ kept \in Seq(S) /\ Len(kept) = Len(p) - 1
          /\ \A i \in 1..Len(kept) : kept[i] = p[i + 1]
      BY <1>1, <3>1
    <3>. HIDE DEF kept
    <3>. QED BY <2>1, <3>2
  <2>2. CASE ~(Len(p) > MAX_PREVIOUS_STATES)
    <3>1. kept = p
      BY <2>2
    <3>. HIDE DEF kept
    <3>. QED BY <1>1, <1>2, <2>2, <3>1
  <2>. QED BY <2>1, <2>2
<1>. HIDE DEF kept
<1>4. \A i \in DOMAIN kept : kept[i].hash # h
  <2>. SUFFICES ASSUME NEW i \in DOMAIN kept PROVE kept[i].hash # h
    OBVIOUS
  <2>1. i \in 1..Len(kept) /\ i + d \in 1..Len(p)
    BY <1>1, <1>3
  <2>2. i + d \in DOMAIN p
    BY <1>1, <2>1
  <2>. QED BY <1>3, <2>1, <2>2
<1>5. q = Append(kept, new)
  BY <1>4 DEF archivedIn, kept
<1>. HIDE DEF q
<1>6. new \in S \cup {new} /\ kept \in Seq(S \cup {new})
  BY <1>3
<1>7. /\ q \in Seq(S \cup {new}) /\ Len(q) = Len(kept) + 1 /\ q[Len(kept) + 1] = new
      /\ \A i \in 1..Len(kept) : q[i] = kept[i]
  <2>. HIDE DEF new
  <2>. QED BY <1>5, <1>6
<1>8. Len(<<new>>) = 1 /\ <<new>>[1] = new
  OBVIOUS
<1>9. Shifts(p, q, d, <<new>>)
  <2>. HIDE DEF new
  <2>. QED BY <1>1, <1>3, <1>7, <1>8 DEF Shifts, IsSequence
<1>10. Len(q) <= MAX_PREVIOUS_STATES + 1
  BY <1>1, <1>2, <1>3, <1>7
<1>. QED BY <1>3, <1>9, <1>10 DEF q

(* Two new entries, one after the other: at least the second is new too.   *)
LEMMA ArchivedTwice ==
  ASSUME NEW p, NEW h, NEW g, NEW slots, IsSequence(p), Len(p) <= MAX_PREVIOUS_STATES + 1,
         h # g, \A i \in DOMAIN p : p[i].hash # h /\ p[i].hash # g
  PROVE  LET q == archivedIn(archivedIn(p, h, slots), g, slots)
         IN  /\ Len(q) <= MAX_PREVIOUS_STATES + 1
             /\ \E d \in 0..2 : /\ d <= Len(p)
                                /\ Shifts(p, q, d, <<[hash |-> h, slots |-> slots],
                                                     [hash |-> g, slots |-> slots]>>)
<1>. DEFINE r == archivedIn(p, h, slots)
            q == archivedIn(r, g, slots)
            new == [hash |-> h, slots |-> slots]
            newer == [hash |-> g, slots |-> slots]
<1>1. MAX_PREVIOUS_STATES \in Nat \ {0} /\ Len(p) \in Nat /\ DOMAIN p = 1..Len(p)
  BY NodeAssumption DEF IsSequence
<1>2. PICK d \in 0..1 : (d = 1 => Len(p) > MAX_PREVIOUS_STATES) /\ Shifts(p, r, d, <<new>>)
  BY ArchivedInEnd
<1>3. Len(r) <= MAX_PREVIOUS_STATES + 1
  BY ArchivedInEnd
<1>. HIDE DEF r
<1>4. Len(<<new>>) = 1 /\ <<new>>[1] = new /\ new.hash = h
  OBVIOUS
<1>5. Len(<<newer>>) = 1 /\ <<newer>>[1] = newer
  OBVIOUS
<1>6. Len(<<new, newer>>) = 2 /\ <<new, newer>>[1] = new /\ <<new, newer>>[2] = newer
  OBVIOUS
<1>. HIDE DEF new, newer
<1>7. /\ IsSequence(r) /\ Len(r) = Len(p) - d + 1 /\ r[Len(r)] = new
      /\ \A i \in 1..(Len(p) - d) : r[i] = p[i + d]
  BY <1>1, <1>2, <1>4 DEF Shifts
<1>8. \A i \in DOMAIN r : r[i].hash # g
  <2>. SUFFICES ASSUME NEW i \in DOMAIN r PROVE r[i].hash # g
    OBVIOUS
  <2>1. i \in 1..Len(r)
    BY <1>7 DEF IsSequence
  <2>2. CASE i = Len(r)
    BY <1>4, <1>7, <2>2
  <2>3. CASE i # Len(r)
    BY <1>1, <1>7, <2>1, <2>3
  <2>. QED BY <2>2, <2>3
<1>9. PICK f \in 0..1 : (f = 1 => Len(r) > MAX_PREVIOUS_STATES) /\ Shifts(r, q, f, <<newer>>)
  BY <1>3, <1>7, <1>8, ArchivedInEnd DEF newer
<1>10. Len(q) <= MAX_PREVIOUS_STATES + 1
  BY <1>3, <1>7, <1>8, ArchivedInEnd
<1>. HIDE DEF q
<1>11. /\ IsSequence(q) /\ Len(q) = Len(r) - f + 1 /\ q[Len(r) - f + 1] = newer
       /\ \A i \in 1..(Len(r) - f) : q[i] = r[i + f]
  BY <1>5, <1>9 DEF Shifts
<1>12. d + f \in 0..2 /\ d + f <= Len(p) /\ Len(q) = Len(p) - (d + f) + 2
  BY <1>1, <1>2, <1>7, <1>9, <1>11
<1>13. \A i \in 1..(Len(p) - (d + f)) : q[i] = p[i + (d + f)]
  BY <1>1, <1>7, <1>11, <1>12
<1>14. q[Len(p) - (d + f) + 1] = new /\ q[Len(p) - (d + f) + 2] = newer
  BY <1>1, <1>7, <1>11, <1>12
<1>15. Shifts(p, q, d + f, <<new, newer>>)
  BY <1>6, <1>11, <1>12, <1>13, <1>14 DEF Shifts
<1>. QED BY <1>10, <1>12, <1>15 DEF q, r, new, newer

(* The blocks with transactions, and the number of the last block that was *)
(* produced, whose state is the next to be archived.                       *)
withTxOf(n) == {k \in (first + 1)..n.current_miniblock : blockOf(n, k).transactions # <<>>}

headOf(n) == n.current_miniblock_hash[1]

(* The archive holds blocks of the chain before the head, in order.        *)
ArchiveOrdered(n) ==
    LET p == n.previous_states
    IN  /\ IsSequence(p) /\ Len(p) <= MAX_PREVIOUS_STATES + 1
        /\ n.current_miniblock_hash \in DOMAIN n.blocks
        /\ \A i \in 1..Len(p) : p[i].hash \in DOMAIN n.blocks /\ p[i].hash[1] < headOf(n)
        /\ \A i, j \in 1..Len(p) : i < j => p[i].hash[1] < p[j].hash[1]

(* A transaction's block is before the head, so what is written later is   *)
(* not its state; its last entry is the newest of them, and no such block  *)
(* is missing after the first entry.                                       *)
ArchiveComplete(n) ==
    LET p == n.previous_states
    IN  \A k \in withTxOf(n) :
            /\ k < headOf(n) /\ k \in DOMAIN n.audit.stateAt
            /\ 1 <= Len(p) /\ k <= p[Len(p)].hash[1] /\ p[Len(p)].hash[1] \in withTxOf(n)
            /\ \A i \in 1..Len(p) :
                  p[i].hash[1] <= k => \E j \in 1..Len(p) : p[j].hash = n.block_hashes[k]
            /\ \A i \in 1..Len(p) :
                  p[i].hash = n.block_hashes[k] => p[i].slots = n.audit.stateAt[k]

Archive(n) == ArchiveOrdered(n) /\ ArchiveComplete(n)

(* A hash of the chain is the hash of the block with the number it holds.  *)
LEMMA HashesHoldNumbers ==
  ASSUME NEW n, NEW h, Numbered(n), h \in DOMAIN n.blocks
  PROVE  /\ h[1] \in first..n.current_miniblock /\ n.block_hashes[h[1]] = h
         /\ n.blocks[h].number = h[1]
<1>1. PICK k \in first..n.current_miniblock : h = n.block_hashes[k]
  BY DEF Numbered
<1>2. h[1] = k /\ blockOf(n, k).number = k
  BY <1>1 DEF Numbered
<1>. QED BY <1>1, <1>2 DEF blockOf

LEMMA ArchiveFrame ==
  ASSUME ForkInRange, NEW n, NEW m, Numbered(n), Archive(n), SameHistory(n, m)
  PROVE  Archive(m)
<1>1. \A k : blockOf(m, k) = blockOf(n, k)
  BY DEF blockOf, SameHistory
<1>2. withTxOf(m) = withTxOf(n) /\ headOf(m) = headOf(n)
  BY <1>1 DEF withTxOf, headOf, SameHistory
<1>3. \A k \in withTxOf(n) : m.audit.stateAt[k] = n.audit.stateAt[k]
  <2>1. headOf(n) \in first..n.current_miniblock
    BY HashesHoldNumbers DEF headOf, Archive, ArchiveOrdered
  <2>2. first \in Nat /\ n.current_miniblock \in Nat
    BY FirstInNat DEF Numbered
  <2>3. \A k \in withTxOf(n) : k \in Nat /\ k < headOf(n) /\ k \in DOMAIN n.audit.stateAt
    BY <2>2 DEF withTxOf, Archive, ArchiveComplete
  <2>. QED BY <2>1, <2>2, <2>3 DEF SameHistory
<1>4. ArchiveOrdered(m)
  BY <1>2 DEF Archive, ArchiveOrdered, SameHistory
<1>5. ArchiveComplete(m)
  BY <1>2, <1>3 DEF Archive, ArchiveComplete, SameHistory
<1>. QED BY <1>4, <1>5 DEF Archive

LEMMA ArchiveMine ==
  ASSUME ForkInRange, NEW n, NEW m, Numbered(n), Counted(n), Archive(n), MinesOne(n, m)
  PROVE  Archive(m)
<1>. DEFINE c == n.current_miniblock
<1>1. /\ first \in Nat /\ c \in Nat /\ first <= c /\ create_l1_batch_env(n).miniblock = c + 1
  BY FirstInNat, BatchEnvFields DEF Numbered
<1>2. PICK b : /\ b.number = c + 1 /\ b.hash[1] = b.number /\ b.transactions = <<>>
               /\ m.current_miniblock = b.number
               /\ m.block_hashes = with(n.block_hashes, b.number, b.hash)
               /\ m.blocks = with(n.blocks, b.hash, b)
               /\ m.audit.stateAt = with(n.audit.stateAt, b.number, n.storage.slots)
  BY <1>1 DEF MinesOne
<1>3. Adds(n, m, b)
  BY <1>2, AddedBlock
<1>4. withTxOf(m) = withTxOf(n)
  <2>1. \A k : k \in (first + 1)..(c + 1) <=> k \in (first + 1)..c \/ k = c + 1
    BY <1>1
  <2>2. \A k \in (first + 1)..c : blockOf(m, k) = blockOf(n, k)
    BY <1>1, <1>3 DEF Adds
  <2>3. blockOf(m, c + 1) = b
    BY <1>3 DEF Adds
  <2>. QED BY <1>2, <2>1, <2>2, <2>3 DEF withTxOf
<1>5. m.previous_states = n.previous_states /\ m.current_miniblock_hash = n.current_miniblock_hash
      /\ headOf(m) = headOf(n)
  BY DEF MinesOne, headOf
<1>6. \A k \in withTxOf(n) : k \in first..c /\ k # c + 1
  BY <1>1 DEF withTxOf
<1>7. \A k \in withTxOf(n) : m.block_hashes[k] = n.block_hashes[k]
  BY <1>3, <1>6 DEF Adds
<1>8. \A k \in withTxOf(n) : m.audit.stateAt[k] = n.audit.stateAt[k]
  <2>1. \A k \in withTxOf(n) : k \in DOMAIN n.audit.stateAt /\ k # b.number
    BY <1>2, <1>6 DEF Archive, ArchiveComplete
  <2>. QED BY <1>2, <2>1 DEF with
<1>9. ArchiveOrdered(m)
  BY <1>3, <1>5 DEF Archive, ArchiveOrdered, Adds
<1>10. DOMAIN n.audit.stateAt \subseteq DOMAIN m.audit.stateAt
  BY <1>2 DEF with
<1>11. ArchiveComplete(m)
  BY <1>4, <1>5, <1>7, <1>8, <1>10 DEF Archive, ArchiveComplete
<1>. QED BY <1>9, <1>11 DEF Archive

(* A commit archives the head and its own block, with the state after it.  *)
LEMMA ArchiveCommit ==
  ASSUME ForkInRange, NEW n, NEW m, NEW t, Numbered(n), Archive(n), Committed(n, m, t)
  PROVE  Archive(m)
<1>. DEFINE c == n.current_miniblock
            p == n.previous_states
            q == m.previous_states
            h == n.current_miniblock_hash
            L == Len(p)
            slots == m.storage.slots
<1>1. PICK b, e, receipt : CommittedAs(n, m, t, b, e, receipt)
  BY DEF Committed
<1>2. first \in Nat /\ c \in Nat /\ first <= c
  BY FirstInNat DEF Numbered
<1>3. /\ m.current_miniblock = c + 2
      /\ \A k \in first..c : m.block_hashes[k] = n.block_hashes[k] /\ blockOf(m, k) = blockOf(n, k)
      /\ m.block_hashes[c + 1] = b.hash /\ blockOf(m, c + 1) = b /\ blockOf(m, c + 2) = e
      /\ DOMAIN m.blocks = DOMAIN n.blocks \cup {b.hash, e.hash}
  BY <1>1, AddedBlocks
<1>4. /\ b.hash[1] = c + 1 /\ e.hash[1] = c + 2 /\ b.transactions # <<>> /\ e.transactions = <<>>
      /\ m.current_miniblock_hash = e.hash
      /\ q = archivedIn(archivedIn(p, h, slots), b.hash, slots)
      /\ m.audit.stateAt = with(with(n.audit.stateAt, b.number, slots), e.number, slots)
      /\ b.number = c + 1 /\ e.number = c + 2
  BY <1>1 DEF CommittedAs
<1>5. h[1] \in first..c /\ headOf(n) = h[1] /\ headOf(m) = c + 2
  BY <1>4, HashesHoldNumbers DEF Archive, ArchiveOrdered, headOf
<1>6. /\ IsSequence(p) /\ L \in Nat /\ DOMAIN p = 1..L /\ L <= MAX_PREVIOUS_STATES + 1
      /\ h \in DOMAIN n.blocks
      /\ \A i \in 1..L : p[i].hash \in DOMAIN n.blocks /\ p[i].hash[1] < h[1]
      /\ \A i, j \in 1..L : i < j => p[i].hash[1] < p[j].hash[1]
  BY <1>5 DEF Archive, ArchiveOrdered, IsSequence
<1>7. \A i \in 1..L : p[i].hash[1] \in first..c
  BY <1>6, HashesHoldNumbers
<1>8. h # b.hash /\ \A i \in DOMAIN p : p[i].hash # h /\ p[i].hash # b.hash
  BY <1>2, <1>4, <1>5, <1>6, <1>7
<1>. HIDE DEF q
<1>9. Len(q) <= MAX_PREVIOUS_STATES + 1
  BY <1>4, <1>6, <1>8, ArchivedTwice
<1>10. PICK d \in 0..2 : /\ d <= L
                         /\ Shifts(p, q, d, <<[hash |-> h, slots |-> slots],
                                              [hash |-> b.hash, slots |-> slots]>>)
  BY <1>4, <1>6, <1>8, ArchivedTwice
<1>11. /\ IsSequence(q) /\ Len(q) = L - d + 2
       /\ \A i \in 1..(L - d) : q[i] = p[i + d] /\ i + d \in 1..L
       /\ q[L - d + 1].hash = h /\ q[L - d + 2].hash = b.hash
       /\ q[L - d + 2].slots = slots
  BY <1>6, <1>10 DEF Shifts
<1>12. \A i \in 1..Len(q) : i \in 1..(L - d) \/ i = L - d + 1 \/ i = L - d + 2
  BY <1>6, <1>11
<1>. HIDE DEF L, h, c, slots, p
<1>13. ArchiveOrdered(m)
  <2>1. ASSUME NEW i \in 1..Len(q) PROVE q[i].hash \in DOMAIN m.blocks /\ q[i].hash[1] < c + 2
    <3>1. CASE i \in 1..(L - d)
      <4>1. q[i] = p[i + d] /\ i + d \in 1..L
        BY <1>11, <3>1
      <4>2. p[i + d].hash \in DOMAIN n.blocks /\ p[i + d].hash[1] \in first..c
        BY <1>6, <1>7, <4>1
      <4>. QED BY <1>2, <1>3, <4>1, <4>2
    <3>2. CASE i = L - d + 1
      <4>1. q[i].hash = h
        BY <1>11, <3>2
      <4>. QED BY <1>2, <1>3, <1>5, <1>6, <4>1
    <3>3. CASE i = L - d + 2
      <4>1. q[i].hash = b.hash
        BY <1>11, <3>3
      <4>. QED BY <1>2, <1>3, <1>4, <4>1
    <3>. QED BY <1>12, <3>1, <3>2, <3>3
  <2>2. ASSUME NEW i \in 1..Len(q), NEW j \in 1..Len(q), i < j
        PROVE  q[i].hash[1] < q[j].hash[1]
    <3>1. CASE j \in 1..(L - d)
      <4>1. i \in 1..(L - d) /\ i + d < j + d
        BY <1>6, <2>2, <3>1
      <4>2. q[i] = p[i + d] /\ q[j] = p[j + d] /\ i + d \in 1..L /\ j + d \in 1..L
        BY <1>11, <3>1, <4>1
      <4>3. p[i + d].hash[1] < p[j + d].hash[1]
        BY <1>6, <4>1, <4>2
      <4>. QED BY <4>2, <4>3
    <3>2. CASE j = L - d + 1
      <4>1. i \in 1..(L - d)
        BY <1>6, <2>2, <3>2
      <4>. QED BY <1>6, <1>11, <3>2, <4>1
    <3>3. CASE j = L - d + 2
      <4>1. i \in 1..(L - d) \/ i = L - d + 1
        BY <1>6, <2>2, <3>3
      <4>2. q[i].hash[1] \in first..c
        BY <1>5, <1>7, <1>11, <4>1
      <4>. QED BY <1>2, <1>4, <1>11, <3>3, <4>2
    <3>. QED BY <1>12, <3>1, <3>2, <3>3
  <2>. QED BY <1>3, <1>4, <1>5, <1>9, <1>11, <2>1, <2>2 DEF ArchiveOrdered, q
<1>14. withTxOf(m) = withTxOf(n) \cup {c + 1}
  <2>1. \A k : k \in (first + 1)..(c + 2) <=> k \in (first + 1)..c \/ k = c + 1 \/ k = c + 2
    BY <1>2
  <2>2. \A k \in (first + 1)..c : blockOf(m, k) = blockOf(n, k)
    BY <1>2, <1>3
  <2>. QED BY <1>2, <1>3, <1>4, <2>1, <2>2 DEF withTxOf, c
<1>15. /\ Len(q) >= 1 /\ Len(q) \in 1..Len(q) /\ q[Len(q)].hash = b.hash
       /\ q[Len(q)].slots = slots /\ q[Len(q)].hash[1] = c + 1
  <2>1. L - d + 2 >= 1 /\ L - d + 2 \in 1..(L - d + 2)
    BY <1>6, <1>10
  <2>2. b.hash[1] = c + 1
    BY <1>4
  <2>. QED BY <1>11, <2>1, <2>2
<1>16. ASSUME NEW i \in 1..Len(q), q[i].hash = b.hash
       PROVE  i = Len(q)
  <2>1. b.hash[1] = c + 1
    BY <1>4
  <2>2. CASE i \in 1..(L - d)
    <3>1. q[i].hash[1] \in first..c
      BY <1>7, <1>11, <2>2
    <3>. QED BY <1>2, <1>16, <2>1, <3>1
  <2>3. CASE i = L - d + 1
    <3>1. q[i].hash[1] \in first..c
      BY <1>5, <1>11, <2>3
    <3>. QED BY <1>2, <1>16, <2>1, <3>1
  <2>4. CASE i = L - d + 2
    BY <1>11, <2>4
  <2>. QED BY <1>12, <2>2, <2>3, <2>4
<1>17. /\ c + 1 \in DOMAIN m.audit.stateAt /\ m.audit.stateAt[c + 1] = slots
       /\ \A k \in DOMAIN n.audit.stateAt :
             /\ k \in DOMAIN m.audit.stateAt
             /\ k # c + 1 /\ k # c + 2 => m.audit.stateAt[k] = n.audit.stateAt[k]
  <2>1. c + 1 # c + 2
    BY <1>2
  <2>. QED BY <1>4, <2>1 DEF with
<1>18. ASSUME NEW k \in withTxOf(n)
       PROVE  /\ k < headOf(m) /\ k \in DOMAIN m.audit.stateAt /\ k <= c + 1
              /\ \A i \in 1..Len(q) :
                    q[i].hash[1] <= k => \E j \in 1..Len(q) : q[j].hash = m.block_hashes[k]
              /\ \A i \in 1..Len(q) :
                    q[i].hash = m.block_hashes[k] => q[i].slots = m.audit.stateAt[k]
  <2>1. /\ k < h[1] /\ k \in DOMAIN n.audit.stateAt
        /\ \A i \in 1..L : p[i].hash[1] <= k => \E j \in 1..L : p[j].hash = n.block_hashes[k]
        /\ \A i \in 1..L : p[i].hash = n.block_hashes[k] => p[i].slots = n.audit.stateAt[k]
    BY <1>5 DEF Archive, ArchiveComplete, p, L
  <2>2. k \in first..c /\ k # c + 1 /\ k # c + 2
    BY <1>2 DEF withTxOf, c
  <2>3. m.block_hashes[k] = n.block_hashes[k] /\ n.block_hashes[k][1] = k
    BY <1>3, <2>2 DEF Numbered, c
  <2>4. m.audit.stateAt[k] = n.audit.stateAt[k]
    BY <1>17, <2>1, <2>2
  <2>5. ASSUME NEW i \in 1..Len(q), q[i].hash[1] <= k
        PROVE  i \in 1..(L - d) /\ q[i] = p[i + d] /\ i + d \in 1..L
    <3>1. i # L - d + 1 /\ i # L - d + 2
      BY <1>2, <1>4, <1>5, <1>11, <2>1, <2>2, <2>5
    <3>. QED BY <1>11, <1>12, <3>1
  <2>6. ASSUME NEW i \in 1..Len(q), q[i].hash[1] <= k
        PROVE  \E j \in 1..Len(q) : q[j].hash = m.block_hashes[k]
    <3>1. i \in 1..(L - d) /\ q[i] = p[i + d] /\ i + d \in 1..L
      BY <2>5, <2>6
    <3>2. PICK j \in 1..L : p[j].hash = n.block_hashes[k]
      BY <2>1, <2>6, <3>1
    <3>3. p[j].hash[1] = k /\ p[i + d].hash[1] <= k /\ p[i + d].hash[1] \in Nat /\ k \in Nat
      BY <1>2, <1>7, <2>2, <2>3, <2>6, <3>1, <3>2
    <3>4. ~(j < i + d)
      BY <1>6, <3>1, <3>3
    <3>5. j - d \in 1..(L - d) /\ j - d \in 1..Len(q)
      BY <1>6, <1>11, <3>1, <3>4
    <3>6. q[j - d] = p[j]
      <4>1. q[j - d] = p[(j - d) + d]
        BY <1>11, <3>5
      <4>2. (j - d) + d = j
        OBVIOUS
      <4>. QED BY <4>1, <4>2
    <3>. QED BY <2>3, <3>2, <3>5, <3>6
  <2>7. ASSUME NEW i \in 1..Len(q), q[i].hash = m.block_hashes[k]
        PROVE  q[i].slots = m.audit.stateAt[k]
    <3>1. q[i].hash[1] <= k
      BY <1>2, <2>2, <2>3, <2>7
    <3>. QED BY <2>1, <2>3, <2>4, <2>5, <2>7, <3>1
  <2>. QED BY <1>2, <1>5, <1>17, <2>1, <2>2, <2>6, <2>7
<1>19. ArchiveComplete(m)
  <2>. SUFFICES ASSUME NEW k \in withTxOf(m)
                PROVE  /\ k < headOf(m) /\ k \in DOMAIN m.audit.stateAt /\ k <= c + 1
                       /\ \A i \in 1..Len(q) :
                             q[i].hash[1] <= k => \E j \in 1..Len(q) : q[j].hash = m.block_hashes[k]
                       /\ \A i \in 1..Len(q) :
                             q[i].hash = m.block_hashes[k] => q[i].slots = m.audit.stateAt[k]
    BY <1>14, <1>15 DEF ArchiveComplete, q
  <2>1. CASE k \in withTxOf(n)
    BY <1>18, <2>1
  <2>2. CASE k = c + 1
    BY <1>2, <1>3, <1>5, <1>15, <1>16, <1>17, <2>2
  <2>. QED BY <1>14, <2>1, <2>2
<1>. QED BY <1>13, <1>19 DEF Archive

-----------------------------------------------------------------------------
(***************************************************************************)
(* What the blocks hold, and where the logs that filters were told are.    *)
(***************************************************************************)
firstBlock == IF fork = NoFork THEN create_empty_block(0, FirstTimestamp, 0) ELSE remoteBlock(fork)

(* A block of the node is empty or has one transaction, which the node     *)
(* ran; its hash is one the node computes.                                 *)
Contents(n) ==
    /\ blockOf(n, first) = firstBlock
    /\ \A k \in (first + 1)..n.current_miniblock :
          /\ \E t \in Transactions \cup {NoTransaction} : n.block_hashes[k] = <<k, t>>
          /\ \/ blockOf(n, k).transactions = <<>>
             \/ \E x : blockOf(n, k).transactions = <<x>> /\ x.hash \in DOMAIN n.tx_results

(* A receipt has each log that was told of.                                *)
Logged(n) ==
    \A e \in loggedIn(n) :
        /\ e.update.block_number \in 1..n.current_miniblock
        /\ \E t \in DOMAIN n.tx_results : e.update \in Range(n.tx_results[t].logs)

LEMMA ContentsFrame ==
  ASSUME NEW n, NEW m, Contents(n), Logged(n), SameHistory(n, m)
  PROVE  Contents(m) /\ Logged(m)
<1>1. \A k : blockOf(m, k) = blockOf(n, k)
  BY DEF blockOf, SameHistory
<1>. QED BY <1>1 DEF Contents, Logged, SameHistory

LEMMA ContentsMine ==
  ASSUME ForkInRange, NEW n, NEW m, Numbered(n), Counted(n), Contents(n), Logged(n), MinesOne(n, m)
  PROVE  Contents(m) /\ Logged(m)
<1>. DEFINE c == n.current_miniblock
<1>1. /\ first \in Nat /\ c \in Nat /\ first <= c /\ create_l1_batch_env(n).miniblock = c + 1
  BY FirstInNat, BatchEnvFields DEF Numbered
<1>2. PICK b : /\ b.number = c + 1 /\ b.hash[1] = b.number /\ b.transactions = <<>>
               /\ b.hash = <<b.number, NoTransaction>>
               /\ m.current_miniblock = b.number
               /\ m.block_hashes = with(n.block_hashes, b.number, b.hash)
               /\ m.blocks = with(n.blocks, b.hash, b)
  BY <1>1 DEF MinesOne
<1>3. Adds(n, m, b)
  BY <1>2, AddedBlock
<1>4. m.tx_results = n.tx_results /\ m.audit.events = n.audit.events
  BY DEF MinesOne
<1>5. /\ \A k \in first..c : m.block_hashes[k] = n.block_hashes[k] /\ blockOf(m, k) = blockOf(n, k)
      /\ m.block_hashes[c + 1] = b.hash /\ blockOf(m, c + 1) = b
  BY <1>3 DEF Adds
<1>6. \A k : k \in (first + 1)..(c + 1) => k \in (first + 1)..c \/ k = c + 1
  BY <1>1
<1>7. first \in first..c /\ \A k \in (first + 1)..c : k \in first..c
  BY <1>1
<1>8. Contents(m)
  BY <1>2, <1>4, <1>5, <1>6, <1>7 DEF Contents
<1>9. loggedIn(m) = loggedIn(n)
  BY <1>4, SameLogged
<1>10. \A k : k \in 1..c => k \in 1..(c + 1)
  BY <1>1
<1>11. Logged(m)
  BY <1>2, <1>4, <1>9, <1>10 DEF Logged
<1>. QED BY <1>8, <1>11

LEMMA ContentsCommit ==
  ASSUME ForkInRange, NEW n, NEW m, NEW t \in Transactions, Numbered(n), Contents(n), Logged(n),
         t \notin DOMAIN n.tx_results, Committed(n, m, t)
  PROVE  Contents(m) /\ Logged(m)
<1>. DEFINE c == n.current_miniblock
<1>1. PICK b, e, receipt : CommittedAs(n, m, t, b, e, receipt)
  BY DEF Committed
<1>2. first \in Nat /\ c \in Nat /\ first <= c
  BY FirstInNat DEF Numbered
<1>3. /\ m.current_miniblock = c + 2
      /\ \A k \in first..c : m.block_hashes[k] = n.block_hashes[k] /\ blockOf(m, k) = blockOf(n, k)
      /\ m.block_hashes[c + 1] = b.hash /\ blockOf(m, c + 1) = b
      /\ m.block_hashes[c + 2] = e.hash /\ blockOf(m, c + 2) = e
  BY <1>1, AddedBlocks
<1>4. /\ m.tx_results = with(n.tx_results, t, receipt)
      /\ b.number = c + 1 /\ e.number = c + 2
      /\ b.hash = <<b.number, t>> /\ e.hash = <<e.number, NoTransaction>>
      /\ e.transactions = <<>>
      /\ \E x : b.transactions = <<x>> /\ x.hash = t
  BY <1>1 DEF CommittedAs
<1>5. /\ DOMAIN m.tx_results = DOMAIN n.tx_results \cup {t} /\ m.tx_results[t] = receipt
      /\ \A u \in DOMAIN n.tx_results : m.tx_results[u] = n.tx_results[u]
  BY <1>4 DEF with
<1>6. \A k : k \in (first + 1)..(c + 2) => k \in (first + 1)..c \/ k = c + 1 \/ k = c + 2
  BY <1>2
<1>7. first \in first..c /\ \A k \in (first + 1)..c : k \in first..c
  BY <1>2
<1>8. Contents(m)
  <2>1. blockOf(m, first) = firstBlock
    BY <1>3, <1>7 DEF Contents
  <2>2. ASSUME NEW k \in (first + 1)..(c + 2)
        PROVE  /\ \E u \in Transactions \cup {NoTransaction} : m.block_hashes[k] = <<k, u>>
               /\ \/ blockOf(m, k).transactions = <<>>
                  \/ \E x : blockOf(m, k).transactions = <<x>> /\ x.hash \in DOMAIN m.tx_results
    <3>1. CASE k \in (first + 1)..c
      BY <1>3, <1>5, <1>7, <3>1 DEF Contents
    <3>2. CASE k = c + 1
      BY <1>3, <1>4, <1>5, <3>2
    <3>3. CASE k = c + 2
      BY <1>3, <1>4, <3>3
    <3>. QED BY <1>6, <3>1, <3>2, <3>3
  <2>. QED BY <1>3, <2>1, <2>2 DEF Contents
<1>9. Logged(m)
  <2>. SUFFICES ASSUME NEW event \in loggedIn(m)
                PROVE  /\ event.update.block_number \in 1..m.current_miniblock
                       /\ \E u \in DOMAIN m.tx_results : event.update \in Range(m.tx_results[u].logs)
    BY DEF Logged
  <2>1. event \in loggedIn(n) \/ event \in logEvents(receipt.logs)
    BY <1>1 DEF CommittedAs
  <2>2. CASE event \in loggedIn(n)
    <3>1. /\ event.update.block_number \in 1..c
          /\ \E u \in DOMAIN n.tx_results : event.update \in Range(n.tx_results[u].logs)
      BY <2>2 DEF Logged
    <3>. QED BY <1>2, <1>3, <1>5, <3>1
  <2>3. CASE event \in logEvents(receipt.logs)
    <3>1. PICK i \in DOMAIN receipt.logs : event = [kind |-> "log", update |-> receipt.logs[i]]
      BY <2>3 DEF logEvents
    <3>2. event.update = receipt.logs[i] /\ event.update \in Range(receipt.logs)
      BY <3>1 DEF Range
    <3>3. receipt.logs[i].block_number = b.number
      BY <1>1 DEF CommittedAs
    <3>. QED BY <1>2, <1>3, <1>4, <1>5, <3>2, <3>3
  <2>. QED BY <2>1, <2>2, <2>3
<1>. QED BY <1>8, <1>9

-----------------------------------------------------------------------------
(***************************************************************************)
(* The history of a node: receipts, nonces, the archive, the blocks and    *)
(* the logs, of the node and of its snapshots.                             *)
(***************************************************************************)
History(n) == Receipts(n) /\ NoncesCount(n) /\ Archive(n) /\ Contents(n) /\ Logged(n)

ForkInNetwork == fork \in {NoFork} \cup 0..Len(RemoteBlocks)

HistoryInv ==
    /\ ForkNonces /\ ForkInNetwork
    /\ ~poisoned => History(node)
    /\ \A i \in DOMAIN snapshots : History(snapshots[i])

LEMMA HistoryFrame ==
  ASSUME ForkInRange, NEW n, NEW m, Good(n), History(n), SameHistory(n, m),
         m.storage.nonces = n.storage.nonces, m.audit.jumped = n.audit.jumped
  PROVE  History(m)
<1>1. Numbered(n) /\ m.tx_results = n.tx_results
  BY DEF Good, Sound, Chain, SameHistory
<1>. QED BY <1>1, ReceiptsFrame, NoncesFrame, ArchiveFrame, ContentsFrame DEF History

(* What the filters are told is not history.                               *)
LEMMA TellHistory ==
  ASSUME ForkInRange, NEW n, NEW m, Good(n), History(n), Told(n, m), loggedIn(m) = loggedIn(n)
  PROVE  History(m)
<1>1. SameHistory(n, m) /\ m.storage = n.storage /\ m.audit.jumped = n.audit.jumped
  BY DEF Told, SameBatch, SameHistory
<1>. QED BY <1>1, HistoryFrame

(* A node that is new has no receipts, and on a fork the fork's nonces.    *)
LEMMA NewNodeHistory ==
  ASSUME ForkInRange, ForkNonces, NEW block, NEW batch, NEW l2_block,
         block = firstBlock, block.number = first
  PROVE  History(newNode(block, batch, l2_block))
<1>. DEFINE n == newNode(block, batch, l2_block)
<1>1. /\ n.tx_results = <<>> /\ n.previous_states = <<>>
      /\ n.current_miniblock = first /\ n.current_miniblock_hash = block.hash
      /\ n.blocks = with(<<>>, block.hash, block)
      /\ n.block_hashes = with(<<>>, block.number, block.hash)
      /\ n.storage.nonces = [a \in Accounts |-> 0] /\ n.audit.jumped = {}
      /\ n.audit.events = <<>>
  BY DEF newNode, localStorage
<1>. HIDE DEF n
<1>2. first \in Nat /\ (first + 1)..first = {} /\ DOMAIN <<>> = {} /\ Len(<<>>) = 0
  BY FirstInNat
<1>3. Receipts(n)
  BY <1>1, <1>2, FS_EmptySet DEF Receipts, placesOf
<1>4. NoncesCount(n)
  <2>1. \A a : receiptsOf(n, a) = {}
    BY <1>1, <1>2 DEF receiptsOf
  <2>2. \A a \in Accounts : nonceOf(n, a) = forkNonce(a)
    BY <1>1 DEF nonceOf, forkNonce
  <2>3. Cardinality({}) = 0
    BY FS_EmptySet
  <2>4. \A a \in Accounts : forkNonce(a) = 0 + forkNonce(a)
    BY DEF ForkNonces
  <2>5. n.storage.nonces \in [Accounts -> Nat]
    BY <1>1
  <2>6. \A t \in DOMAIN n.tx_results : nonceOf(n, From[t]) > Nonce[t]
    BY <1>1, <1>2
  <2>7. \A a \in Accounts : nonceOf(n, a) = Cardinality(receiptsOf(n, a)) + forkNonce(a)
    BY <2>1, <2>2, <2>3, <2>4
  <2>. QED BY <2>5, <2>6, <2>7 DEF NoncesCount
<1>5. Archive(n)
  <2>1. IsSequence(<<>>)
    <3>1. <<>> \in Seq({})
      OBVIOUS
    <3>. QED BY <3>1 DEF IsSequence
  <2>2. block.hash \in DOMAIN n.blocks
    BY <1>1 DEF with
  <2>3. MAX_PREVIOUS_STATES \in Nat
    BY NodeAssumption
  <2>4. ArchiveOrdered(n)
    BY <1>1, <1>2, <2>1, <2>2, <2>3 DEF ArchiveOrdered
  <2>5. withTxOf(n) = {}
    BY <1>1, <1>2 DEF withTxOf
  <2>. QED BY <2>4, <2>5 DEF Archive, ArchiveComplete
<1>6. Contents(n)
  BY <1>1, <1>2 DEF Contents, blockOf, with
<1>7. Logged(n)
  BY <1>1, <1>2 DEF Logged, loggedIn, Range
<1>8. History(n)
  BY <1>3, <1>4, <1>5, <1>6, <1>7 DEF History
<1>. QED BY <1>8 DEF n

LEMMA HistoryInit == Init => HistoryInv
<1>. SUFFICES ASSUME Init PROVE HistoryInv
  OBVIOUS
<1>1. ForkInRange /\ snapshots = <<>>
  BY InitInv DEF NodeInv, Init
<1>2. ForkNonces
  <2>1. \A k \in 0..Len(RemoteBlocks), a \in Accounts : remoteNonces[k][a] \in Nat
    BY RemoteNoncesInNat
  <2>. QED BY <2>1, InitFork DEF ForkNonces, forkNonce
<1>3. History(node)
  <2>1. node = IF fork = NoFork THEN firstNode ELSE forkNode(fork)
    BY DEF Init
  <2>2. CASE fork = NoFork
    <3>. DEFINE block == create_empty_block(0, FirstTimestamp, 0)
    <3>1. block.number = first /\ block = firstBlock
      BY <2>2 DEF first, firstBlock, create_empty_block
    <3>2. node = newNode(block, [number |-> 0, timestamp |-> 0], [number |-> 0, timestamp |-> 0])
      BY <2>1, <2>2 DEF firstNode
    <3>. HIDE DEF block
    <3>. QED BY <1>1, <1>2, <3>1, <3>2, NewNodeHistory
  <2>3. CASE fork # NoFork
    <3>. DEFINE block == remoteBlock(fork)
    <3>1. block.number = first /\ block = firstBlock
      BY <2>3 DEF first, firstBlock, remoteBlock
    <3>2. node = newNode(block, [number |-> block.batch, timestamp |-> block.timestamp],
                         [number |-> fork, timestamp |-> block.timestamp])
      BY <2>1, <2>3 DEF forkNode
    <3>. HIDE DEF block
    <3>. QED BY <1>1, <1>2, <3>1, <3>2, NewNodeHistory
  <2>. QED BY <2>2, <2>3
<1>4. DOMAIN snapshots = {}
  BY <1>1
<1>5. ForkInNetwork
  BY InitFork DEF ForkInNetwork
<1>. QED BY <1>2, <1>3, <1>4, <1>5 DEF HistoryInv

(* The notice to the filters is not of what a block logs.                  *)
LEMMA PendingIsTold ==
  ASSUME Good(node), NEW t
  PROVE  Told(node, pending(t)) /\ loggedIn(pending(t)) = loggedIn(node)
<1>. DEFINE e == [kind |-> "pending", update |-> t]
            g == [node EXCEPT !.filters = notify_new_pending_transaction(node.filters, t)]
<1>1. Shaped(node) /\ Shaped(g) /\ g.audit = node.audit /\ e.kind # "log"
  BY DEF Good, Sound, Shaped, IsNode
<1>2. pending(t) = happened(g, e) /\ Told(node, pending(t))
  BY <1>1, TellFields DEF pending
<1>. HIDE DEF g, e
<1>3. pending(t).audit.events = Append(node.audit.events, e) /\ IsSequence(node.audit.events)
  <2>1. pending(t) = [g EXCEPT !.audit.events = Append(g.audit.events, e)]
    BY <1>1, <1>2, HappenedFields
  <2>. QED BY <1>1, <2>1 DEF Shaped, IsNode, IsAudit
<1>4. loggedIn(pending(t)) = loggedIn(node) \cup (IF e.kind = "log" THEN {e} ELSE {})
  BY <1>3, LoggedAppend
<1>. QED BY <1>1, <1>2, <1>4

(* A transaction that is committed, and does not panic.                    *)
LEMMA CommitIsCommitted ==
  ASSUME ForkInRange, Good(node), NEW t \in Transactions, CommitTx(t), ~poisoned'
  PROVE  Committed(node, node', t)
<1>1. Told(node, pending(t)) /\ loggedIn(pending(t)) = loggedIn(node)
  BY PendingIsTold
<1>. DEFINE s == commit(pending(t), t, create_l1_batch_env(node))
<1>2. node' = s.node /\ poisoned' = s.poisoned
  BY DEF CommitTx
<1>3. s.poisoned \in BOOLEAN
  BY <1>1, CommitFields DEF Commits
<1>4. s.poisoned = FALSE => Committed(node, s.node, t)
  BY <1>1, CommitKeeps
<1>. HIDE DEF s
<1>. QED BY <1>2, <1>3, <1>4

(* A transaction that is committed was not committed before.               *)
LEMMA TransactionHistory ==
  ASSUME ForkInRange, ForkNonces, Good(node), History(node), NEW t \in Transactions, run_l2_tx(t),
         poisoned \in BOOLEAN, ~poisoned
  PROVE  ~poisoned' => History(node')
<1>1. Told(node, pending(t)) /\ loggedIn(pending(t)) = loggedIn(node)
  BY PendingIsTold
<1>2. CASE RejectTx(t)
  BY <1>2 DEF RejectTx
<1>3. CASE HaltTx(t)
  BY <1>1, <1>3, TellHistory DEF HaltTx
<1>4. CASE CommitTx(t)
  <2>. SUFFICES ASSUME ~poisoned' PROVE History(node')
    OBVIOUS
  <2>1. nonceOf(node, From[t]) = Nonce[t]
    BY <1>4 DEF CommitTx, halts
  <2>2. Committed(node, node', t)
    BY <1>4, CommitIsCommitted
  <2>3. Numbered(node)
    BY DEF Good, Sound, Chain
  <2>4. t \notin DOMAIN node.tx_results /\ NoncesCount(node')
    BY <2>1, <2>2, NoncesCommit DEF History
  <2>5. Receipts(node')
    BY <2>2, <2>3, <2>4, ReceiptsCommit DEF History
  <2>6. Archive(node')
    BY <2>2, <2>3, ArchiveCommit DEF History
  <2>7. Contents(node') /\ Logged(node')
    BY <2>2, <2>3, <2>4, ContentsCommit DEF History
  <2>. QED BY <2>4, <2>5, <2>6, <2>7 DEF History
<1>. QED BY <1>2, <1>3, <1>4 DEF run_l2_tx

(* Empty blocks add nothing to it.                                         *)
LEMMA MiningHistory ==
  ASSUME ForkInRange, Good(node), History(node), NEW num_blocks \in Nat \ {0}, NEW interval \in Nat,
         MineBlocks(num_blocks, interval)
  PROVE  History(node')
<1>. DEFINE L == num_blocks
            ms == interval * Millis
            close == num_blocks > 1 /\ interval = 0
            packed == node.audit.packed \/ close
            m == mine_empty_blocks(node, L, ms)
<1>1. Millis \in Nat \ {0}
  BY NodeAssumption
<1>2. ms \in Nat /\ (interval # 0 => ms # 0)
  BY <1>1
<1>3. Sound(node, packed)
  BY DEF Good, Sound, Chain, Ordered, inOrder, InTime
<1>. HIDE DEF ms
<1>4. num_blocks > 1 /\ ms = 0 => packed
  BY <1>2
<1>. HIDE DEF packed
<1>5. PICK f : MinesSoundly(f, node, packed, L, ms)
  BY <1>2, <1>3, <1>4, MinedSound
<1>6. /\ m = f[L] /\ f[0] = node
      /\ \A i \in 1..L : f[i] = mineOne(f[i - 1], i - 1, ms)
      /\ \A i \in 0..L : Sound(f[i], packed)
  BY <1>5 DEF MinesSoundly
<1>. HIDE DEF m
<1>. DEFINE T == {k \in Nat : k <= L => History(f[k])}
<1>7. 0 \in T
  BY <1>6
<1>8. ASSUME NEW k \in T PROVE k + 1 \in T
  <2>. SUFFICES ASSUME k + 1 <= L PROVE History(f[k + 1])
    OBVIOUS
  <2>1. f[k + 1] = mineOne(f[k], k, ms) /\ Sound(f[k], packed) /\ History(f[k])
    BY <1>6
  <2>2. MinesOne(f[k], f[k + 1])
    BY <2>1, MineOneKeeps DEF Sound
  <2>3. Numbered(f[k]) /\ Counted(f[k])
    BY <2>1 DEF Sound, Chain
  <2>4. NoncesCount(f[k + 1])
    BY <2>1, <2>2, NoncesFrame DEF MinesOne, History
  <2>. QED BY <2>1, <2>2, <2>3, <2>4, ReceiptsMine, ArchiveMine, ContentsMine DEF History
<1>9. Nat \subseteq T
  <2>. HIDE DEF T
  <2>. QED BY <1>7, <1>8, SetInduction
<1>10. History(m) /\ Sound(m, packed)
  BY <1>6, <1>9
<1>11. node' = [m EXCEPT !.audit.packed = @ \/ close]
  BY DEF MineBlocks, m, ms
<1>. HIDE DEF close
<1>12. /\ SameHistory(m, node') /\ node'.storage = m.storage
       /\ node'.audit.jumped = m.audit.jumped
  BY <1>10, <1>11 DEF Sound, Shaped, IsNode, IsAudit, SameHistory, loggedIn
<1>. QED BY <1>10, <1>12, ReceiptsFrame, NoncesFrame, ArchiveFrame, ContentsFrame
         DEF History, Sound, Chain, SameHistory

LEMMA StartupHistory ==
  ASSUME NodeInv, HistoryInv, Startup
  PROVE  ~poisoned' => History(node')
<1>1. ForkInRange /\ StartupTyped /\ Good(node) /\ poisoned \in BOOLEAN /\ ~poisoned
  BY DEF NodeInv, NodeGood, Startup, ApplyTx, SetRichAccounts
<1>2. ForkNonces /\ History(node)
  BY <1>1 DEF HistoryInv
<1>3. CASE ApplyTx
  <2>. DEFINE t == Head(startup.replay)
  <2>1. startup.replay \in Seq(Transactions) /\ startup.replay # <<>>
    BY <1>1, <1>3 DEF ApplyTx, StartupTyped
  <2>2. t \in Transactions
    BY <2>1
  <2>3. run_l2_tx(t)
    BY <1>3 DEF ApplyTx, run_l2_tx
  <2>. HIDE DEF t
  <2>. QED BY <1>1, <1>2, <2>2, <2>3, TransactionHistory
<1>4. CASE SetRichAccounts
  <2>1. /\ SameHistory(node, node') /\ node'.storage.nonces = node.storage.nonces
        /\ node'.audit.jumped = node.audit.jumped
    BY <1>1, <1>4 DEF SetRichAccounts, Good, Sound, Shaped, IsNode, IsAudit, IsStorage, SameHistory, loggedIn
  <2>. QED BY <1>1, <1>2, <2>1, HistoryFrame
<1>. QED BY <1>3, <1>4 DEF Startup

LEMMA EthHistory ==
  ASSUME NodeInv, HistoryInv, Eth
  PROVE  ~poisoned' => History(node')
<1>1. serving
  BY DEF Eth, SendRawTransaction, SendTransaction, NewBlockFilter, NewPendingTransactionFilter,
         NewFilter, install, UninstallFilter, GetFilterChanges
<1>2. ForkInRange /\ Good(node) /\ poisoned \in BOOLEAN /\ ~poisoned
  BY <1>1 DEF NodeInv, NodeGood, serving
<1>3. ForkNonces /\ History(node)
  BY <1>2 DEF HistoryInv
<1>4. ASSUME NEW t \in Sent, SendRawTransaction(t) \/ SendTransaction(t)
      PROVE  ~poisoned' => History(node')
  <2>1. t \in Transactions /\ run_l2_tx(t)
    BY <1>4, NodeAssumption DEF SendRawTransaction, SendTransaction
  <2>. QED BY <1>2, <1>3, <2>1, TransactionHistory
<1>5. ASSUME NEW ef, install(ef) PROVE History(node')
  <2>1. /\ SameHistory(node, node') /\ node'.storage = node.storage
        /\ node'.audit.jumped = node.audit.jumped
    BY <1>2, <1>5 DEF install, Good, Sound, Shaped, IsNode, IsAudit, SameHistory, loggedIn
  <2>. QED BY <1>2, <1>3, <2>1, HistoryFrame
<1>6. ASSUME NEW id, UninstallFilter(id) \/ GetFilterChanges(id) PROVE History(node')
  <2>1. PICK filters, delivered, installedAt :
          node' = [node EXCEPT !.filters = filters, !.audit.delivered = delivered,
                               !.audit.installedAt = installedAt]
    <3>1. CASE UninstallFilter(id)
      BY Zenon, <3>1 DEF UninstallFilter
    <3>2. CASE GetFilterChanges(id)
      <4>. DEFINE delivered == [node.audit.delivered EXCEPT
                                   ![id] = node.audit.delivered[id] \o node.filters.filters[id].updates]
      <4>1. node' = [node EXCEPT !.filters = get_new_changes(node.filters, id),
                                 !.audit.delivered = delivered,
                                 !.audit.installedAt = node.audit.installedAt]
        BY <1>2, <3>2 DEF GetFilterChanges, Good, Sound, Shaped, IsNode, IsAudit
      <4>. QED BY Zenon, <4>1
    <3>. QED BY <1>6, <3>1, <3>2
  <2>2. /\ SameHistory(node, node') /\ node'.storage = node.storage
        /\ node'.audit.jumped = node.audit.jumped
    BY <1>2, <2>1 DEF Good, Sound, Shaped, IsNode, IsAudit, SameHistory, loggedIn
  <2>. QED BY <1>2, <1>3, <2>2, HistoryFrame
<1>. QED BY <1>4, <1>5, <1>6 DEF Eth, NewBlockFilter, NewPendingTransactionFilter, NewFilter

(* Requests that set something: of the node only what is not history.      *)
LEMMA SetHistory ==
  ASSUME ForkInRange, Good(node), History(node), NEW m, set(m), Shaped(m), SameHistory(node, m),
         m.storage.nonces = node.storage.nonces, m.audit.jumped = node.audit.jumped
  PROVE  History(node')
<1>1. node' = [m EXCEPT !.audit.settings = @ + 1]
  BY DEF set
<1>2. /\ SameHistory(node, node') /\ node'.storage.nonces = node.storage.nonces
      /\ node'.audit.jumped = node.audit.jumped
  BY <1>1 DEF Shaped, IsNode, IsAudit, SameHistory, loggedIn
<1>. QED BY <1>2, HistoryFrame

LEMMA EvmHistory ==
  ASSUME NodeInv, HistoryInv, Evm
  PROVE  ~poisoned' => History(node')
<1>1. serving /\ ForkInRange /\ SnapshotsGood
  BY DEF Evm, IncreaseTime, SetNextBlockTimestamp, SetTime, set, MineBlock, MineBlocks, Snapshot,
         RevertSnapshot, NodeInv
<1>2. Good(node) /\ Shaped(node) /\ History(node)
  BY <1>1 DEF NodeInv, NodeGood, HistoryInv, serving, Good, Sound
<1>3. ASSUME NEW time, NEW rewound,
             set([node EXCEPT !.current_timestamp = time, !.audit.rewound = rewound])
      PROVE  History(node')
  <2>. DEFINE m == [node EXCEPT !.current_timestamp = time, !.audit.rewound = rewound]
  <2>1. /\ Shaped(m) /\ SameHistory(node, m) /\ m.storage = node.storage
        /\ m.audit.jumped = node.audit.jumped
    BY <1>2 DEF Shaped, IsNode, IsAudit, SameHistory, loggedIn
  <2>2. set(m)
    BY <1>3
  <2>. HIDE DEF m
  <2>. QED BY <1>1, <1>2, <2>1, <2>2, SetHistory
<1>4. ASSUME NEW time, set([node EXCEPT !.current_timestamp = time]) PROVE History(node')
  <2>. DEFINE m == [node EXCEPT !.current_timestamp = time]
  <2>1. Shaped(m) /\ SameHistory(node, m) /\ m.storage = node.storage /\ m.audit = node.audit
    BY <1>2 DEF Shaped, IsNode, SameHistory, loggedIn
  <2>2. set(m)
    BY <1>4
  <2>. HIDE DEF m
  <2>. QED BY <1>1, <1>2, <2>1, <2>2, SetHistory
<1>5. ASSUME NEW delta \in Deltas, IncreaseTime(delta) PROVE History(node')
  <2>1. set([node EXCEPT !.current_timestamp = node.current_timestamp + delta * Millis])
    BY <1>5 DEF IncreaseTime
  <2>. QED BY <1>4, <2>1
<1>6. ASSUME NEW time \in Times, SetNextBlockTimestamp(time) PROVE History(node')
  BY <1>4, <1>6 DEF SetNextBlockTimestamp
<1>7. ASSUME NEW time \in Times, SetTime(time) PROVE History(node')
  <2>. DEFINE back == time < node.current_timestamp
  <2>1. set([node EXCEPT !.current_timestamp = time, !.audit.rewound = @ \/ back])
    BY <1>7 DEF SetTime
  <2>. HIDE DEF back
  <2>2. set([node EXCEPT !.current_timestamp = time, !.audit.rewound = node.audit.rewound \/ back])
    BY <2>1
  <2>. QED BY <1>3, <2>2
<1>8. CASE MineBlock
  BY <1>1, <1>2, <1>8, MiningHistory DEF MineBlock
<1>9. CASE Snapshot
  BY <1>2, <1>9 DEF Snapshot
<1>10. ASSUME NEW id \in 0..MAX_SNAPSHOTS, RevertSnapshot(id) PROVE History(node')
  <2>. DEFINE index == IF id = 0 THEN 1 ELSE id
  <2>1. index <= Len(snapshots) /\ node' = snapshots[index] /\ id \in Nat
    BY <1>10, NodeAssumption DEF RevertSnapshot, restore_snapshot
  <2>2. index \in DOMAIN snapshots
    BY <1>1, <2>1 DEF SnapshotsGood, IsSequence
  <2>. QED BY <2>1, <2>2 DEF HistoryInv
<1>. QED BY <1>5, <1>6, <1>7, <1>8, <1>9, <1>10 DEF Evm

LEMMA HardhatHistory ==
  ASSUME NodeInv, HistoryInv, Hardhat
  PROVE  ~poisoned' => History(node')
<1>1. serving /\ ForkInRange /\ ForkNonces
  BY DEF Hardhat, SetBalance, SetNonce, SetCode, set, MineBlocks, ImpersonateAccount,
         StopImpersonatingAccount, NodeInv, HistoryInv
<1>2. Good(node) /\ Shaped(node) /\ History(node)
  BY <1>1 DEF NodeInv, NodeGood, HistoryInv, serving, Good, Sound
<1>3. ASSUME NEW account, NEW balance, SetBalance(account, balance) PROVE History(node')
  <2>. DEFINE m == [node EXCEPT !.storage.slots[account] = balance,
                                !.audit.stateAt[node.current_miniblock][account] = balance]
  <2>1. set(m)
    BY <1>3 DEF SetBalance
  <2>2. /\ Shaped(m) /\ SameHistory(node, m) /\ m.storage.nonces = node.storage.nonces
        /\ m.audit.jumped = node.audit.jumped
    BY <1>2 DEF Shaped, IsNode, IsAudit, IsStorage, SameHistory, loggedIn
  <2>. HIDE DEF m
  <2>. QED BY <1>1, <1>2, <2>1, <2>2, SetHistory
<1>4. ASSUME NEW pair \in Nonces, SetNonce(pair[1], pair[2]) PROVE History(node')
  <2>. DEFINE account == pair[1]
              nonce == pair[2]
  <2>1. /\ account \in Accounts /\ nonce \in Nat
        /\ \A t \in Transactions : From[t] \in Accounts /\ Nonce[t] \in Nat
    BY NodeAssumption
  <2>2. /\ nonceOf(node, account) < nonce
        /\ node' = [node EXCEPT !.storage.nonces[account] = nonce,
                                !.audit.jumped = @ \cup {account},
                                !.audit.settings = @ + 1]
    BY <1>2, <1>4 DEF SetNonce, set, Shaped, IsNode, IsAudit
  <2>. HIDE DEF account, nonce
  <2>3. /\ SameHistory(node, node')
        /\ node'.storage.nonces = [node.storage.nonces EXCEPT ![account] = nonce]
        /\ node'.audit.jumped = node.audit.jumped \cup {account}
    BY <1>2, <2>2 DEF Shaped, IsNode, IsAudit, IsStorage, SameHistory, loggedIn
  <2>4. NoncesCount(node')
    BY <1>1, <1>2, <2>1, <2>2, <2>3, SetNonceCounts DEF History, Receipts, SameHistory
  <2>. QED BY <1>1, <1>2, <2>3, <2>4, ReceiptsFrame, ArchiveFrame, ContentsFrame
           DEF History, Good, Sound, Chain
<1>5. ASSUME NEW account, NEW code, SetCode(account, code) PROVE History(node')
  <2>. DEFINE m == [node EXCEPT !.storage.codes[account] = code]
  <2>1. set(m)
    BY <1>5 DEF SetCode
  <2>2. /\ Shaped(m) /\ SameHistory(node, m) /\ m.storage.nonces = node.storage.nonces
        /\ m.audit = node.audit
    BY <1>2 DEF Shaped, IsNode, IsStorage, SameHistory, loggedIn
  <2>. HIDE DEF m
  <2>. QED BY <1>1, <1>2, <2>1, <2>2, SetHistory
<1>6. ASSUME NEW num \in Counts, NEW interval \in Intervals, MineBlocks(num, interval)
      PROVE  History(node')
  <2>1. num \in Nat \ {0} /\ interval \in Nat
    BY NodeAssumption
  <2>. QED BY <1>1, <1>2, <1>6, <2>1, MiningHistory
<1>7. ASSUME NEW account, ImpersonateAccount(account) PROVE History(node')
  <2>. DEFINE m == [node EXCEPT !.impersonated = @ \cup {account}]
  <2>1. set(m)
    BY <1>7 DEF ImpersonateAccount
  <2>2. Shaped(m) /\ SameHistory(node, m) /\ m.storage = node.storage /\ m.audit = node.audit
    BY <1>2 DEF Shaped, IsNode, SameHistory, loggedIn
  <2>. HIDE DEF m
  <2>. QED BY <1>1, <1>2, <2>1, <2>2, SetHistory
<1>8. ASSUME NEW account, StopImpersonatingAccount(account) PROVE History(node')
  <2>1. /\ SameHistory(node, node') /\ node'.storage = node.storage /\ node'.audit = node.audit
    BY <1>2, <1>8 DEF StopImpersonatingAccount, Shaped, IsNode, SameHistory, loggedIn
  <2>. QED BY <1>1, <1>2, <2>1, HistoryFrame
<1>. QED BY <1>3, <1>4, <1>5, <1>6, <1>7, <1>8 DEF Hardhat

LEMMA NextHistory == NodeInv /\ HistoryInv /\ [Next]_vars => HistoryInv'
<1>. SUFFICES ASSUME NodeInv, HistoryInv, [Next]_vars PROVE HistoryInv'
  OBVIOUS
<1>1. ~poisoned' => History(node')
  <2>1. CASE ForkFails \/ Dead \/ UNCHANGED vars
    BY <2>1 DEF ForkFails, Dead, vars, HistoryInv
  <2>. QED BY <2>1, StartupHistory, EthHistory, EvmHistory, HardhatHistory DEF Next
<1>2. \A i \in DOMAIN snapshots' : History(snapshots'[i])
  BY SnapshotsAreOld DEF HistoryInv
<1>3. fork' = fork
  BY DEF Next, Startup, ApplyTx, SetRichAccounts, Eth, SendRawTransaction, SendTransaction,
         NewBlockFilter, NewPendingTransactionFilter, NewFilter, install, UninstallFilter,
         GetFilterChanges, Evm, IncreaseTime, SetNextBlockTimestamp, SetTime, set, MineBlock,
         MineBlocks, Snapshot, RevertSnapshot, Hardhat, SetBalance, SetNonce, SetCode,
         ImpersonateAccount, StopImpersonatingAccount, ForkFails, Dead, vars
<1>4. ForkNonces' /\ ForkInNetwork'
  BY <1>3 DEF HistoryInv, ForkNonces, forkNonce, ForkInNetwork
<1>5. \A n : History(n)' = History(n)
  BY <1>3 DEF History, Receipts, placesOf, blockOf, holds, first, NoncesCount, nonceOf,
              forkNonce, receiptsOf, Archive, ArchiveOrdered, ArchiveComplete, withTxOf, headOf,
              Contents, Logged, firstBlock, loggedIn
<1>. QED BY <1>1, <1>2, <1>4, <1>5 DEF HistoryInv

(* The inductive invariant of the history.                                 *)
LEMMA HistoryInvariant == Spec => []HistoryInv
<1>1. NodeInv /\ HistoryInv /\ [Next]_vars => HistoryInv'
  BY NextHistory
<1>. QED BY NodeInvariant, HistoryInit, <1>1, PTL DEF Spec

(* A transaction has a receipt exactly when one block holds it, the        *)
(* receipt names that block, and the nonces count the receipts, for any    *)
(* transactions, halted, committed, replayed or reverted in any order.     *)
THEOREM ReceiptsMatch == Spec => []ReceiptsMatchChain
<1>1. NodeInv /\ HistoryInv => ReceiptsMatchChain
  <2>. SUFFICES ASSUME NodeInv, HistoryInv, ~poisoned PROVE ReceiptsMatchChain
    BY DEF ReceiptsMatchChain
  <2>1. Receipts(node) /\ NoncesCount(node) /\ Numbered(node) /\ first \in Nat
    BY FirstInNat DEF NodeInv, NodeGood, Good, Sound, Chain, HistoryInv, History
  <2>2. \A k : k \in DOMAIN node.block_hashes \ {first} <=> k \in (first + 1)..node.current_miniblock
    BY <2>1 DEF Numbered
  <2>3. \A t \in Transactions :
          {k \in DOMAIN node.block_hashes \ {first} : holds(blockAt(k), t)} = placesOf(node, t)
    BY <2>2, NodesNames DEF placesOf
  <2>4. \A t \in DOMAIN node.tx_results :
          LET receipt == node.tx_results[t]
          IN  /\ receipt.block_hash = node.block_hashes[receipt.block_number]
              /\ receipt.batch = blockAt(receipt.block_number).batch
              /\ nonceOf(node, From[t]) > Nonce[t]
    BY <2>1, NodesNames DEF Receipts, NoncesCount
  <2>5. \A a \in Accounts \ node.audit.jumped :
          nonceOf(node, a) = Cardinality({t \in DOMAIN node.tx_results : From[t] = a})
                             + IF fork = NoFork THEN 0 ELSE remoteNonces[fork][a]
    BY <2>1 DEF NoncesCount, receiptsOf, forkNonce
  <2>. QED BY <2>1, <2>3, <2>4, <2>5 DEF ReceiptsMatchChain, Receipts
<1>. QED BY NodeInvariant, HistoryInvariant, <1>1, PTL

(* The archive has the newest transactions' blocks, none missing between   *)
(* them, each with the state after it, for any size of it, although each   *)
(* commit archives a block that an earlier one produced.                   *)
THEOREM ArchiveStaysExact == Spec => []ArchiveIsExact
<1>1. NodeInv /\ HistoryInv => ArchiveIsExact
  <2>. SUFFICES ASSUME NodeInv, HistoryInv, ~poisoned PROVE ArchiveIsExact
    BY DEF ArchiveIsExact
  <2>. DEFINE p == node.previous_states
              W == {k \in DOMAIN node.block_hashes \ {first} : blockAt(k).transactions # <<>>}
  <2>1. ArchiveOrdered(node) /\ ArchiveComplete(node) /\ Numbered(node) /\ first \in Nat
    BY FirstInNat DEF NodeInv, NodeGood, Good, Sound, Chain, HistoryInv, History, Archive
  <2>2. \A k : k \in DOMAIN node.block_hashes \ {first} <=> k \in (first + 1)..node.current_miniblock
    BY <2>1 DEF Numbered
  <2>3. W = withTxOf(node)
    BY <2>2, NodesNames DEF withTxOf
  <2>4. /\ IsSequence(p) /\ DOMAIN p = 1..Len(p) /\ Len(p) \in Nat
        /\ \A i \in 1..Len(p) : /\ p[i].hash \in DOMAIN node.blocks
                                /\ node.blocks[p[i].hash].number = p[i].hash[1]
                                /\ node.block_hashes[p[i].hash[1]] = p[i].hash
        /\ \A i, j \in 1..Len(p) : i < j => p[i].hash[1] < p[j].hash[1]
    BY <2>1, HashesHoldNumbers DEF ArchiveOrdered, IsSequence
  <2>5. \A k \in first..node.current_miniblock : node.block_hashes[k][1] = k
    BY <2>1 DEF Numbered
  <2>6. \A k \in W : k \in Nat /\ k \in first..node.current_miniblock
    BY <2>1, <2>2
  <2>. HIDE DEF W
  <2>7. ASSUME W # {} PROVE archived(Max(W)) # {}
    <3>. DEFINE top == p[Len(p)].hash[1]
    <3>1. top \in W /\ (\A k \in W : k <= top) /\ Len(p) \in 1..Len(p)
      BY <2>1, <2>3, <2>4, <2>7 DEF ArchiveComplete
    <3>2. Max(W) \in W /\ \A k \in W : Max(W) >= k
      <4>1. \E x \in W : \A k \in W : x >= k
        BY <2>6, <3>1
      <4>. QED BY <4>1 DEF Max
    <3>3. Max(W) = top
      BY <2>6, <3>1, <3>2
    <3>. QED BY <2>4, <3>1, <3>3 DEF archived
  <2>8. ASSUME NEW k \in W, NEW older \in first..(k - 1), archived(older) # {}
        PROVE  archived(k) # {}
    <3>1. PICK i \in 1..Len(p) : p[i].hash = node.block_hashes[older]
      BY <2>4, <2>8 DEF archived
    <3>2. older \in first..node.current_miniblock /\ older <= k
      BY <2>1, <2>6 DEF Numbered
    <3>3. p[i].hash[1] <= k
      BY <2>5, <3>1, <3>2
    <3>4. PICK j \in 1..Len(p) : p[j].hash = node.block_hashes[k]
      BY <2>1, <2>3, <3>3 DEF ArchiveComplete
    <3>. QED BY <2>4, <3>4 DEF archived
  <2>9. \A k \in W : \A i \in archived(k) : p[i].slots = node.audit.stateAt[k]
    BY <2>1, <2>3, <2>4 DEF archived, ArchiveComplete
  <2>10. \A k \in W : (\E older \in first..(k - 1) : archived(older) # {}) => archived(k) # {}
    BY <2>8
  <2>11. Len(p) <= MAX_PREVIOUS_STATES + 1
    BY <2>1 DEF ArchiveOrdered
  <2>12. /\ \A i \in DOMAIN p : p[i].hash \in DOMAIN node.blocks
         /\ \A i, j \in DOMAIN p :
               i < j => node.blocks[p[i].hash].number < node.blocks[p[j].hash].number
    BY <2>4
  <2>13. LET withTx == {n \in DOMAIN node.block_hashes \ {first} : blockAt(n).transactions # <<>>}
         IN  /\ withTx # {} => archived(Max(withTx)) # {}
             /\ \A n \in withTx :
                   (\E older \in first..(n - 1) : archived(older) # {}) => archived(n) # {}
             /\ \A n \in withTx : \A i \in archived(n) :
                   node.previous_states[i].slots = node.audit.stateAt[n]
    BY Zenon, <2>7, <2>9, <2>10 DEF W
  <2>. QED BY Zenon, <2>11, <2>12, <2>13 DEF ArchiveIsExact
<1>. QED BY NodeInvariant, HistoryInvariant, <1>1, PTL

-----------------------------------------------------------------------------
(***************************************************************************)
(* Logs asked for.                                                         *)
(***************************************************************************)

(* updatesAt has the updates of its places and no others.                  *)
LEMMA UpdatesAtHolds ==
  ASSUME NEW events, NEW places, IsSequence(events)
  PROVE  ToSet(updatesAt(events, places)) = {events[i].update : i \in 1..Len(events) \cap places}
<1>. DEFINE L == Len(events)
<1>1. L \in Nat
  BY DEF IsSequence
<1>2. PICK f : /\ updatesAt(events, places) = f[L] /\ f[0] = <<>>
               /\ \A i \in 1..L :
                     f[i] = IF i \in places THEN Append(f[i - 1], events[i].update) ELSE f[i - 1]
  BY <1>1, UpdatesAtSteps
<1>. DEFINE updates(k) == {events[i].update : i \in 1..k \cap places}
            S == {k \in Nat : k <= L => IsSequence(f[k]) /\ ToSet(f[k]) = updates(k)}
<1>3. 0 \in S
  <2>1. IsSequence(<<>>)
    <3>1. <<>> \in Seq({})
      OBVIOUS
    <3>. QED BY <3>1 DEF IsSequence
  <2>2. ToSet(<<>>) = {} /\ updates(0) = {}
    BY DEF ToSet
  <2>. HIDE DEF updates
  <2>. QED BY <1>2, <2>1, <2>2
<1>4. ASSUME NEW k \in S PROVE k + 1 \in S
  <2>. SUFFICES ASSUME k + 1 <= L PROVE IsSequence(f[k + 1]) /\ ToSet(f[k + 1]) = updates(k + 1)
    OBVIOUS
  <2>. DEFINE u == events[k + 1].update
  <2>1. /\ IsSequence(f[k]) /\ ToSet(f[k]) = updates(k)
        /\ f[k + 1] = IF k + 1 \in places THEN Append(f[k], u) ELSE f[k]
    BY <1>1, <1>2
  <2>2. \A i : i \in 1..(k + 1) <=> i \in 1..k \/ i = k + 1
    BY <1>1
  <2>3. updates(k + 1) = updates(k) \cup (IF k + 1 \in places THEN {u} ELSE {})
    BY <2>2
  <2>4. ToSet(Append(f[k], u)) = ToSet(f[k]) \cup {u} /\ IsSequence(Append(f[k], u))
    <3>. DEFINE p == f[k]
                q == Append(p, u)
    <3>1. /\ Len(p) \in Nat /\ DOMAIN p = 1..Len(p) /\ DOMAIN q = 1..(Len(p) + 1)
          /\ q[Len(p) + 1] = u /\ (\A i \in 1..Len(p) : q[i] = p[i]) /\ IsSequence(q)
      BY <2>1, AppendFields
    <3>2. \A i : i \in 1..(Len(p) + 1) <=> i \in 1..Len(p) \/ i = Len(p) + 1
      BY <3>1
    <3>. HIDE DEF p, q, u
    <3>3. ToSet(q) = ToSet(p) \cup {u}
      BY <3>1, <3>2 DEF ToSet
    <3>. QED BY <3>1, <3>3 DEF p, q
  <2>. HIDE DEF updates, u
  <2>. QED BY <2>1, <2>3, <2>4
<1>5. Nat \subseteq S
  <2>. HIDE DEF S
  <2>. QED BY <1>3, <1>4, SetInduction
<1>. QED BY <1>1, <1>2, <1>5

(* The events after a place of their sequence.                             *)
LEMMA EventsAfter ==
  ASSUME NEW events, NEW at, IsSequence(events), at \in 0..Len(events)
  PROVE  ToSet(SubSeq(events, at + 1, Len(events))) = {events[i] : i \in (at + 1)..Len(events)}
<1>. DEFINE L == Len(events)
            since == SubSeq(events, at + 1, L)
<1>1. PICK S : events \in Seq(S)
  BY DEF IsSequence
<1>2. L \in Nat /\ at \in Nat /\ at <= L
  BY <1>1
<1>3. Len(since) = L - at /\ DOMAIN since = 1..(L - at) /\ \A j \in 1..(L - at) : since[j] = events[at + j]
  BY <1>1, <1>2
<1>. HIDE DEF L, since
<1>4. \A j \in 1..(L - at) : at + j \in (at + 1)..L
  BY <1>2
<1>5. \A i \in (at + 1)..L : i - at \in 1..(L - at) /\ at + (i - at) = i
  BY <1>2
<1>6. ToSet(since) = {events[i] : i \in (at + 1)..L}
  BY <1>3, <1>4, <1>5 DEF ToSet
<1>. QED BY <1>6 DEF L, since

(* A filter that does not start at the latest block matches a log of the   *)
(* node now as it did when it was told of it.                              *)
LEMMA MatchesAsTold ==
  ASSUME NEW f, NEW e, NEW latestNumber \in Nat, IsFilter(f), f.kind = "log", e.kind = "log",
         f.from_block.tag # "latest", e.update.block_number \in 1..latestNumber
  PROVE  wanted(f, e) <=> matches(f, e.update, latestNumber)
<1>. DEFINE log == e.update
            b == log.block_number
<1>1. IsBlockNumber(f.from_block) /\ IsBlockNumber(f.to_block) /\ DOMAIN f.topics \subseteq 1..4
  BY DEF IsFilter
<1>2. b >= to_real_block_number(f.from_block, latestNumber)
        <=> (f.from_block.tag = "number" => f.from_block.number <= b)
  BY <1>1 DEF IsBlockNumber, to_real_block_number
<1>3. b <= to_real_block_number(f.to_block, latestNumber)
        <=> (f.to_block.tag = "number" => b <= f.to_block.number) /\ f.to_block.tag # "earliest"
  BY <1>1 DEF IsBlockNumber, to_real_block_number
<1>4. (\A i \in DOMAIN log.topics \cap DOMAIN f.topics :
          i <= 4 => f.topics[i] = {} \/ log.topics[i] \in f.topics[i])
        <=> (\A i \in DOMAIN log.topics :
                i \in DOMAIN f.topics /\ f.topics[i] # {} => log.topics[i] \in f.topics[i])
  BY <1>1
<1>. QED BY <1>2, <1>3, <1>4 DEF wanted, matches

LEMMA FiltersInvariant == Spec => []FiltersInv
BY NodeInvariant, FiltersInit, NextDelivers, PTL DEF Spec

(* What eth_getFilterLogs reads from the receipts and what polling handed  *)
(* out are the same logs, for filters and logs of any kind, however the    *)
(* node was polled, mined on or reverted in between.                       *)
THEOREM FilterLogsAlwaysAgree == Spec => []FilterLogsAgree
<1>1. NodeInv /\ HistoryInv /\ FiltersInv => FilterLogsAgree
  <2>. SUFFICES ASSUME NodeInv, HistoryInv, FiltersInv, ~poisoned,
                       NEW id \in DOMAIN node.filters.filters,
                       node.filters.filters[id].kind = "log",
                       node.filters.filters[id].from_block.tag # "latest",
                       NEW logs \in get_filter_logs(id)
                PROVE  LET since == SubSeq(node.audit.events, node.audit.installedAt[id] + 1,
                                           Len(node.audit.events))
                           later == {event.update : event \in {e \in ToSet(since) : e.kind = "log"}}
                       IN  logs \cap later
                             = ToSet(node.audit.delivered[id] \o node.filters.filters[id].updates)
    BY DEF FilterLogsAgree
  <2>. DEFINE f == node.filters.filters[id]
              events == node.audit.events
              L == Len(events)
              at == node.audit.installedAt[id]
              later == {e.update : e \in {d \in {events[i] : i \in (at + 1)..L} : d.kind = "log"}}
              told == {events[i].update : i \in 1..L \cap due(node, id)}
  <2>1. /\ IsSequence(events) /\ L \in Nat /\ DOMAIN events = 1..L /\ at \in 0..L /\ IsFilter(f)
        /\ ToSet(node.audit.delivered[id] \o f.updates) = told
    <3>1. deliversTo(node, id) /\ IsSequence(events)
      BY DEF FiltersInv, Delivers, Shaped
    <3>2. node.audit.delivered[id] \o f.updates = updatesAt(events, due(node, id))
      BY <3>1 DEF deliversTo
    <3>3. L \in Nat /\ DOMAIN events = 1..L
      BY <3>1 DEF IsSequence
    <3>. QED BY <3>1, <3>2, <3>3, UpdatesAtHolds DEF deliversTo
  <2>2. ToSet(SubSeq(events, at + 1, L)) = {events[i] : i \in (at + 1)..L}
    BY <2>1, EventsAfter
  <2>3. Logged(node) /\ node.current_miniblock \in Nat
    BY DEF HistoryInv, History, NodeInv, NodeGood, Good, Sound, Chain, Numbered
  <2>4. logs = get_logs(f)
    BY DEF get_filter_logs, get
  <2>5. \A i \in 1..L : i \in due(node, id) <=> i > at /\ wanted(f, events[i])
    BY <2>1 DEF due
  <2>6. ASSUME NEW i \in 1..L, i > at, events[i].kind = "log"
        PROVE  events[i].update \in logs <=> wanted(f, events[i])
    <3>. DEFINE e == events[i]
                log == e.update
    <3>1. e \in loggedIn(node)
      BY <2>1, <2>6 DEF loggedIn, Range
    <3>2. /\ log.block_number \in 1..node.current_miniblock
          /\ \E t \in DOMAIN node.tx_results : log \in Range(node.tx_results[t].logs)
      BY <2>3, <3>1 DEF Logged
    <3>3. wanted(f, e) <=> matches(f, log, node.current_miniblock)
      <4>. HIDE DEF f, e
      <4>1. f.kind = "log" /\ e.kind = "log" /\ f.from_block.tag # "latest"
        BY <2>6 DEF f, e
      <4>. QED BY <2>1, <2>3, <3>2, <4>1, MatchesAsTold
    <3>4. \E receipt \in Range(node.tx_results) : log \in ToSet(receipt.logs)
      BY <3>2 DEF Range, ToSet
    <3>5. log \in get_logs(f) <=> matches(f, log, node.current_miniblock)
      <4>. HIDE DEF f, log
      <4>. QED BY <3>4 DEF get_logs
    <3>. QED BY <2>4, <3>3, <3>5
  <2>7. \A i : i \in (at + 1)..L <=> i \in 1..L /\ i > at
    BY <2>1
  <2>8. \A i : wanted(f, events[i]) => events[i].kind = "log"
    BY DEF wanted
  <2>. HIDE DEF f, L, at, events
  <2>9. logs \cap later = told
    BY <2>5, <2>6, <2>7, <2>8
  <2>. QED BY <2>1, <2>2, <2>9 DEF f, L, at, events
<1>. QED BY NodeInvariant, HistoryInvariant, FiltersInvariant, <1>1, PTL

-----------------------------------------------------------------------------
(***************************************************************************)
(* Blocks asked for.                                                       *)
(***************************************************************************)

(* What the lookups rest on.                                               *)
Answers ==
    /\ Numbered(node) /\ Linked(node) /\ Receipts(node) /\ Contents(node)
    /\ ForkInNetwork /\ first \in Nat /\ Len(RemoteBlocks) \in Nat

LEMMA AnswersHold == NodeInv /\ HistoryInv /\ ~poisoned => Answers
<1>1. Len(RemoteBlocks) \in Nat
  <2>. DEFINE Block == [transactions : Seq(Transactions), timestamp : Nat, batch : Nat \ {0}]
  <2>1. RemoteBlocks \in Seq(Block)
    BY NodeAssumption
  <2>. QED BY <2>1
<1>. QED BY <1>1, FirstInNat DEF Answers, NodeInv, NodeGood, Good, Sound, Chain, HistoryInv, History

(* A block of the network, by its number and by its hash.                  *)
LEMMA NetworkBlocks ==
  ASSUME NEW k \in 0..Len(RemoteBlocks)
  PROVE  /\ remoteBlocksAt(k) = {remoteBlock(k)} /\ remoteBlocksOf(remoteHash(k)) = {remoteBlock(k)}
         /\ remoteBlock(k).number = k /\ remoteBlock(k).hash = remoteHash(k)
         /\ k # 0 => remoteBlock(k).parent_hash = remoteHash(k - 1)
<1>1. \A j \in 0..Len(RemoteBlocks) : remoteHash(j) = remoteHash(k) <=> j = k
  BY DEF remoteHash
<1>. QED BY <1>1 DEF remoteBlocksAt, remoteBlocksOf, remoteBlock

(* The hashes of the chain, and no others, are keys of the node's blocks:  *)
(* those after the first are none of the network's.                        *)
LEMMA HashesOfNode ==
  ASSUME Answers
  PROVE  /\ \A k \in first..node.current_miniblock :
               node.block_hashes[k] \in DOMAIN node.blocks /\ node.block_hashes[k][1] = k
         /\ \A k \in (first + 1)..node.current_miniblock : remoteBlocksOf(node.block_hashes[k]) = {}
         /\ \A k : remoteHash(k) \in DOMAIN node.blocks => fork # NoFork /\ k = fork
<1>. DEFINE c == node.current_miniblock
<1>1. /\ first \in Nat /\ c \in Nat /\ DOMAIN node.blocks = {node.block_hashes[k] : k \in first..c}
      /\ \A k \in first..c : node.block_hashes[k][1] = k /\ blockOf(node, k).hash = node.block_hashes[k]
      /\ first \in first..c
  BY DEF Answers, Numbered
<1>2. \A k \in (first + 1)..c : \A j : node.block_hashes[k] # remoteHash(j)
  <2>. SUFFICES ASSUME NEW k \in (first + 1)..c, NEW j PROVE node.block_hashes[k] # remoteHash(j)
    OBVIOUS
  <2>1. PICK t \in Transactions \cup {NoTransaction} : node.block_hashes[k] = <<k, t>>
    BY DEF Answers, Contents
  <2>2. t # Remote
    BY NodeAssumption
  <2>. QED BY <2>1, <2>2 DEF remoteHash
<1>3. fork = NoFork => \A j : node.block_hashes[first] # remoteHash(j)
  <2>1. NoTransaction # Remote
    BY NodeAssumption
  <2>2. fork = NoFork => node.block_hashes[first] = <<0, NoTransaction>>
    BY <1>1 DEF Answers, Contents, firstBlock, create_empty_block, compute_hash
  <2>. QED BY <2>1, <2>2 DEF remoteHash
<1>4. fork # NoFork => node.block_hashes[first] = remoteHash(fork)
  BY <1>1 DEF Answers, Contents, firstBlock, remoteBlock
<1>5. \A k \in first..c : k = first \/ k \in (first + 1)..c
  BY <1>1
<1>6. \A k : remoteHash(k) \in DOMAIN node.blocks => fork # NoFork /\ k = fork
  <2>. SUFFICES ASSUME NEW k, remoteHash(k) \in DOMAIN node.blocks PROVE fork # NoFork /\ k = fork
    OBVIOUS
  <2>1. PICK j \in first..c : node.block_hashes[j] = remoteHash(k)
    BY <1>1
  <2>2. j = first /\ fork # NoFork
    BY <1>2, <1>3, <1>5, <2>1
  <2>3. remoteHash(k) = remoteHash(fork)
    BY <1>4, <2>1, <2>2
  <2>. QED BY <2>2, <2>3 DEF remoteHash
<1>. QED BY <1>1, <1>2, <1>6 DEF remoteBlocksOf

(* The block with a number: the node's own, or before the fork the         *)
(* network's.                                                              *)
blockNumbered(n) == IF n < first THEN remoteBlock(n) ELSE blockOf(node, n)

LEMMA BlockByNumber ==
  ASSUME Answers, NEW n \in 0..node.current_miniblock
  PROVE  LET block == blockNumbered(n)
         IN  /\ localBlocks(n) = IF n < first THEN {} ELSE {block}
             /\ or_else(localBlocks(n), remoteBlocksAt(n)) = {block}
             /\ block.number = n
             /\ get_block_by_hash(block.hash) = {block}
             /\ n < first => fork # NoFork /\ n \in 0..Len(RemoteBlocks) /\ remoteBlocksAt(n) = {block}
<1>. DEFINE c == node.current_miniblock
            block == blockNumbered(n)
<1>1. /\ first \in Nat /\ c \in Nat /\ DOMAIN node.block_hashes = first..c
      /\ \A k \in first..c : blockOf(node, k).number = k /\ blockOf(node, k).hash = node.block_hashes[k]
  BY DEF Answers, Numbered
<1>2. CASE n < first
  <2>1. fork # NoFork /\ first = fork /\ fork \in 0..Len(RemoteBlocks)
    BY <1>1, <1>2 DEF Answers, ForkInNetwork, first, NoFork
  <2>2. n \in 0..Len(RemoteBlocks) /\ n # fork
    BY <1>2, <2>1 DEF Answers
  <2>3. localBlocks(n) = {}
    BY <1>1, <1>2 DEF localBlocks, get
  <2>4. get(node.blocks, remoteHash(n)) = {}
    BY <2>2, HashesOfNode DEF get
  <2>5. block = remoteBlock(n)
    BY <1>2 DEF blockNumbered
  <2>6. remoteBlocksAt(n) = {block} /\ remoteBlocksOf(remoteHash(n)) = {block}
        /\ block.number = n /\ block.hash = remoteHash(n)
    BY <2>2, <2>5, NetworkBlocks
  <2>7. or_else(localBlocks(n), remoteBlocksAt(n)) = {block}
    BY <2>1, <2>3, <2>6 DEF or_else
  <2>8. get_block_by_hash(block.hash) = {block}
    BY <2>1, <2>4, <2>6 DEF or_else, get_block_by_hash
  <2>. QED BY <1>2, <2>1, <2>2, <2>3, <2>6, <2>7, <2>8
<1>3. CASE ~(n < first)
  <2>1. n \in first..c /\ block = blockOf(node, n)
    BY <1>1, <1>3 DEF blockNumbered
  <2>2. node.block_hashes[n] \in DOMAIN node.blocks
    BY <2>1, HashesOfNode
  <2>3. get(node.block_hashes, n) = {node.block_hashes[n]}
    BY <1>1, <2>1 DEF get
  <2>4. get(node.blocks, node.block_hashes[n]) = {block}
    BY <2>1, <2>2 DEF get, blockOf
  <2>5. localBlocks(n) = {block}
    BY <2>3, <2>4 DEF localBlocks
  <2>6. block.number = n /\ block.hash = node.block_hashes[n]
    BY <1>1, <2>1
  <2>7. or_else(localBlocks(n), remoteBlocksAt(n)) = {block}
    BY <2>5 DEF or_else
  <2>8. get_block_by_hash(block.hash) = {block}
    BY <2>4, <2>6 DEF or_else, get_block_by_hash
  <2>. QED BY <1>3, <2>5, <2>6, <2>7, <2>8
<1>. QED BY <1>2, <1>3

(* The node ran every transaction of its blocks after the first.           *)
LEMMA BlocksRanHere ==
  ASSUME Answers, NEW n \in first..node.current_miniblock, fork = NoFork \/ n # first
  PROVE  LET block == blockOf(node, n)
         IN  /\ ranHere(block) = hashesOf(block)
             /\ ToSet(hashesOf(block)) \subseteq DOMAIN node.tx_results
<1>. DEFINE block == blockOf(node, n)
            ran(i) == block.transactions[i].hash \in DOMAIN node.tx_results
            step(r, i) == IF ran(i) THEN Append(r, block.transactions[i].hash) ELSE r
            L == Len(block.transactions)
            isRaw(raw) == raw = [i \in 0..L |-> IF i = 0 THEN <<>> ELSE step(raw[i - 1], i)]
<1>1. \/ block.transactions = <<>>
      \/ \E x : block.transactions = <<x>> /\ x.hash \in DOMAIN node.tx_results
  <2>1. CASE n = first
    BY <2>1 DEF Answers, Contents, firstBlock, create_empty_block
  <2>2. CASE n # first
    <3>1. n \in (first + 1)..node.current_miniblock
      BY <2>2 DEF Answers, Numbered
    <3>. QED BY <3>1 DEF Answers, Contents
  <2>. QED BY <2>1, <2>2
<1>2. ranHere(block) = (CHOOSE raw : isRaw(raw))[L]
  BY DEF ranHere
<1>3. CASE block.transactions = <<>>
  <2>1. L = 0 /\ hashesOf(block) = <<>>
    BY <1>3 DEF hashesOf
  <2>2. isRaw([i \in 0..0 |-> <<>>])
    BY <2>1
  <2>3. \A raw : isRaw(raw) => raw[0] = <<>>
    BY <2>1
  <2>. HIDE DEF isRaw
  <2>4. ranHere(block) = <<>>
    BY <1>2, <2>1, <2>2, <2>3
  <2>5. ToSet(hashesOf(block)) = {}
    BY <2>1 DEF ToSet
  <2>. QED BY <2>1, <2>4, <2>5
<1>4. ASSUME NEW x, block.transactions = <<x>>, x.hash \in DOMAIN node.tx_results
      PROVE  ranHere(block) = hashesOf(block) /\ ToSet(hashesOf(block)) \subseteq DOMAIN node.tx_results
  <2>1. L = 1 /\ hashesOf(block) = <<x.hash>> /\ ran(1) /\ block.transactions[1].hash = x.hash
    BY <1>4 DEF hashesOf
  <2>2. isRaw([i \in 0..1 |-> IF i = 0 THEN <<>> ELSE <<x.hash>>])
    BY <2>1
  <2>3. \A raw : isRaw(raw) => raw[1] = <<x.hash>>
    <3>. SUFFICES ASSUME NEW raw, isRaw(raw) PROVE raw[1] = <<x.hash>>
      OBVIOUS
    <3>1. raw[0] = <<>> /\ raw[1] = step(raw[0], 1)
      <4>. HIDE DEF step
      <4>. QED BY <2>1
    <3>. QED BY <2>1, <3>1
  <2>. HIDE DEF isRaw
  <2>4. ranHere(block) = <<x.hash>>
    BY <1>2, <2>1, <2>2, <2>3
  <2>. QED BY <1>4, <2>1, <2>4 DEF ToSet
<1>. QED BY <1>1, <1>3, <1>4

(* The prices of eth_feeHistory are of blocks up to the latest.            *)
LEMMA FeesOfBlocks ==
  ASSUME node.current_miniblock \in Nat, NEW count \in Nat
  PROVE  fee_history(count) \subseteq 0..node.current_miniblock
<1>. DEFINE most == node.current_miniblock + 1
            smaller(a, b) == IF a <= b THEN a ELSE b
<1>1. \A a, b \in Nat : Min({a, b}) = smaller(a, b)
  <2>. SUFFICES ASSUME NEW a \in Nat, NEW b \in Nat PROVE Min({a, b}) = smaller(a, b)
    OBVIOUS
  <2>1. smaller(a, b) \in {a, b} /\ \A y \in {a, b} : smaller(a, b) <= y
    OBVIOUS
  <2>2. \A x \in {a, b} : (\A y \in {a, b} : x <= y) => x = smaller(a, b)
    OBVIOUS
  <2>. HIDE DEF smaller
  <2>. QED BY <2>1, <2>2 DEF Min
<1>2. Min({count, 1024}) \in Nat
  BY <1>1
<1>3. Max({Min({count, 1024}), 1}) \in Nat
  BY <1>2, MaxOfTwo
<1>4. Min({Max({Min({count, 1024}), 1}), most}) \in 0..most
  <2>. DEFINE asked == Max({Min({count, 1024}), 1})
  <2>1. most \in Nat /\ asked \in Nat
    BY <1>3
  <2>2. Min({asked, most}) = smaller(asked, most)
    <3>. HIDE DEF most, asked, smaller
    <3>. QED BY <1>1, <2>1
  <2>3. smaller(asked, most) \in 0..most
    <3>. HIDE DEF asked
    <3>. QED BY <2>1
  <2>. QED BY <2>2, <2>3
<1>. QED BY <1>4 DEF fee_history

(* However a block of the chain is asked for, before the fork and after    *)
(* it, the answer is of the same block, and its parent's hash leads to the *)
(* block before, for any transactions and networks.                        *)
THEOREM BlockLookupsAlwaysAgree == Spec => []BlockLookupsAgree
<1>1. NodeInv /\ HistoryInv => BlockLookupsAgree
  <2>. SUFFICES ASSUME Answers, ~poisoned PROVE BlockLookupsAgree
    BY AnswersHold DEF BlockLookupsAgree
  <2>. DEFINE c == node.current_miniblock
  <2>1. first \in Nat /\ c \in Nat /\ first <= c
    BY DEF Answers, Numbered
  <2>2. \A n : realNumber(number(n)) = n
    BY DEF realNumber, number, to_real_block_number
  <2>3. \A n \in 0..c : get_block_by_number(number(n)) = {blockNumbered(n)}
    BY <2>2, BlockByNumber DEF get_block_by_number
  <2>4. \A count \in {0, 2, 2000} : \A n \in fee_history(count) : get_block_by_number(number(n)) # {}
    BY <2>1, <2>3, FeesOfBlocks
  <2>5. {block.number : block \in get_block_by_number([tag |-> "latest"])} = {get_block_number}
    <3>1. realNumber([tag |-> "latest"]) = c
      BY DEF realNumber, to_real_block_number
    <3>2. c \in 0..c
      BY <2>1
    <3>3. get_block_by_number([tag |-> "latest"]) = {blockNumbered(c)} /\ blockNumbered(c).number = c
      BY <3>1, <3>2, BlockByNumber DEF get_block_by_number
    <3>. QED BY <3>3 DEF get_block_number
  <2>6. ASSUME NEW n \in 0..c
        PROVE  LET block == blockNumbered(n)
               IN  /\ get_block_transaction_count_by_number(number(n)) = {Len(block.transactions)}
                   /\ get_block_transaction_count_by_hash(block.hash) = {Len(block.transactions)}
                   /\ get_block_details(n) =
                         {[number |-> n, l1_batch_number |-> block.batch, timestamp |-> block.timestamp,
                           l2_tx_count |-> Len(block.transactions), root_hash |-> block.hash]}
    <3>1. or_else(localBlocks(n), remoteBlocksAt(n)) = {blockNumbered(n)} /\ blockNumbered(n).number = n
      BY BlockByNumber
    <3>2. or_else(get(node.blocks, blockNumbered(n).hash), remoteBlocksOf(blockNumbered(n).hash))
            = {blockNumbered(n)}
      BY BlockByNumber DEF get_block_by_hash
    <3>. QED BY <2>2, <3>1, <3>2 DEF get_block_transaction_count_by_number,
                 get_block_transaction_count_by_hash, get_block_details
  <2>7. ASSUME NEW n \in 0..c, n # fork
        PROVE  get_raw_block_transactions(n) = {hashesOf(blockNumbered(n))}
    <3>1. CASE n < first
      BY <3>1, BlockByNumber DEF get_raw_block_transactions
    <3>2. CASE ~(n < first)
      <4>1. n \in first..c /\ (fork = NoFork \/ n # first)
        BY <2>1, <2>7, <3>2 DEF first
      <4>2. localBlocks(n) = {blockOf(node, n)} /\ blockNumbered(n) = blockOf(node, n)
        BY <3>2, BlockByNumber DEF blockNumbered
      <4>3. ranHere(blockOf(node, n)) = hashesOf(blockOf(node, n))
        BY <4>1, BlocksRanHere
      <4>. QED BY <4>2, <4>3 DEF get_raw_block_transactions
    <3>. QED BY <3>1, <3>2
  <2>8. ASSUME NEW n \in 0..c, n > first
        PROVE  /\ trace_block_by_number(number(n)) = {hashesOf(blockNumbered(n))}
               /\ trace_block_by_hash(blockNumbered(n).hash) = {hashesOf(blockNumbered(n))}
    <3>1. n \in first..c /\ n # first /\ ~(n < first)
      BY <2>1, <2>8
    <3>2. localBlocks(n) = {blockOf(node, n)} /\ blockNumbered(n) = blockOf(node, n)
      BY <3>1, BlockByNumber DEF blockNumbered
    <3>3. ToSet(hashesOf(blockOf(node, n))) \subseteq DOMAIN node.tx_results
      BY <3>1, BlocksRanHere
    <3>4. get(node.blocks, blockOf(node, n).hash) = {blockOf(node, n)}
      <4>1. blockOf(node, n).hash = node.block_hashes[n] /\ node.block_hashes[n] \in DOMAIN node.blocks
        BY <3>1, HashesOfNode DEF Answers, Numbered
      <4>. QED BY <4>1 DEF get, blockOf
    <3>. QED BY <2>2, <3>2, <3>3, <3>4 DEF trace_block_by_number, trace_block_by_hash, tracesOf
  <2>9. ASSUME NEW n \in 0..c, n > 0, ~orphan(blockNumbered(n))
        PROVE  get_block_by_hash(blockNumbered(n).parent_hash) = get_block_by_number(number(n - 1))
    <3>1. n - 1 \in 0..c
      BY <2>1, <2>9
    <3>2. blockNumbered(n).parent_hash = blockNumbered(n - 1).hash
      <4>1. CASE n > first
        <5>1. n \in (first + 1)..c /\ ~(n < first) /\ ~(n - 1 < first)
          BY <2>1, <4>1
        <5>. QED BY <2>9, <5>1 DEF Answers, Linked, blockNumbered
      <4>2. CASE ~(n > first)
        <5>1. n - 1 < first /\ fork # NoFork /\ first = fork /\ n \in 0..Len(RemoteBlocks) /\ n # 0
              /\ n - 1 \in 0..Len(RemoteBlocks)
          BY <2>1, <2>9, <4>2 DEF Answers, ForkInNetwork, first, NoFork
        <5>2. blockNumbered(n) = remoteBlock(n)
          BY <4>2, <5>1 DEF blockNumbered, Answers, Contents, firstBlock
        <5>3. blockNumbered(n - 1) = remoteBlock(n - 1)
          BY <5>1 DEF blockNumbered
        <5>. QED BY <5>1, <5>2, <5>3, NetworkBlocks
      <4>. QED BY <4>1, <4>2
    <3>. QED BY <2>3, <3>1, <3>2, BlockByNumber
  <2>10. ASSUME NEW n \in 0..get_block_number
         PROVE  ToldOfOneBlock(n)
    <3>1. n \in 0..c
      BY DEF get_block_number
    <3>2. get_block_by_number(number(n)) = {blockNumbered(n)}
      BY <2>3, <3>1
    <3>3. Cardinality({blockNumbered(n)}) = 1
      BY FS_Singleton
    <3>4. blockNumbered(n).number = n /\ get_block_by_hash(blockNumbered(n).hash) = {blockNumbered(n)}
      BY <3>1, BlockByNumber
    <3>. QED BY <2>6, <2>7, <2>8, <2>9, <3>1, <3>2, <3>3, <3>4 DEF ToldOfOneBlock
  <2>. QED BY <2>4, <2>5, <2>10 DEF BlockLookupsAgree
<1>. QED BY NodeInvariant, HistoryInvariant, <1>1, PTL

-----------------------------------------------------------------------------
(***************************************************************************)
(* Transactions asked for.                                                 *)
(***************************************************************************)

(* A transaction of the network is found by the hash of its block and its  *)
(* place in it, also in the fork's own block, which the node has.          *)
LEMMA NetworkTransaction ==
  ASSUME Answers, fork # NoFork, NEW t \in Transactions, NEW x \in remoteTransaction(t)
  PROVE  \E i \in positions(x.block_number) :
            get_transaction_by_block_hash_and_index(x.block_hash, i) = {x}
<1>. DEFINE Block == [transactions : Seq(Transactions), timestamp : Nat, batch : Nat \ {0}]
<1>1. PICK k \in remoteBlockOf(t) : x = included(t, remoteHash(k), k)
  BY DEF remoteTransaction
<1>2. RemoteBlocks \in Seq(Block)
  BY NodeAssumption
<1>3. k \in 1..Len(RemoteBlocks) /\ RemoteBlocks[k].transactions \in Seq(Transactions)
  <2>1. k \in DOMAIN RemoteBlocks
    BY <1>1 DEF remoteBlockOf
  <2>2. k \in 1..Len(RemoteBlocks) /\ RemoteBlocks[k] \in Block
    <3>. HIDE DEF Block
    <3>. QED BY <1>2, <2>1
  <2>. QED BY <2>2
<1>4. PICK j \in DOMAIN RemoteBlocks[k].transactions : RemoteBlocks[k].transactions[j] = t
  BY <1>1 DEF remoteBlockOf
<1>5. j \in 1..Len(RemoteBlocks[k].transactions) /\ Len(RemoteBlocks[k].transactions) \in Nat
  BY <1>3, <1>4
<1>6. k # 0 /\ k \in 0..Len(RemoteBlocks)
  BY <1>3
<1>7. DOMAIN remoteBlock(k).transactions = 1..Len(RemoteBlocks[k].transactions)
      /\ remoteBlock(k).transactions[j] = x
  BY <1>1, <1>3, <1>4, <1>6 DEF remoteBlock
<1>. DEFINE i == j - 1
<1>8. i \in positions(k) /\ i + 1 = j
  <2>1. i = 0 \/ i \in 1..Len(RemoteBlocks[k].transactions)
    BY <1>5
  <2>2. remoteBlocksAt(k) = {remoteBlock(k)}
    BY <1>6, NetworkBlocks
  <2>. QED BY <1>5, <1>7, <2>1, <2>2 DEF positions
<1>. HIDE DEF i
<1>9. atPosition({remoteBlock(k)}, i) = {x}
  BY <1>5, <1>7, <1>8 DEF atPosition, get
<1>10. atPosition({}, i) = {}
  BY DEF atPosition
<1>11. get(node.blocks, remoteHash(k)) \in {{}, {remoteBlock(k)}}
  <2>1. CASE remoteHash(k) \notin DOMAIN node.blocks
    BY <2>1 DEF get
  <2>2. CASE remoteHash(k) \in DOMAIN node.blocks
    <3>1. k = fork
      BY <2>2, HashesOfNode
    <3>2. blockOf(node, first) = remoteBlock(k) /\ first = fork
      BY <3>1 DEF Answers, Contents, firstBlock, first
    <3>3. blockOf(node, first).hash = node.block_hashes[first]
      BY DEF Answers, Numbered
    <3>4. node.block_hashes[first] = remoteHash(k)
      BY <3>2, <3>3 DEF remoteBlock
    <3>. QED BY <2>2, <3>2, <3>4 DEF get, blockOf
  <2>. QED BY <2>1, <2>2
<1>12. get_transaction_by_block_hash_and_index(remoteHash(k), i) = {x}
  <2>1. remoteBlocksOf(remoteHash(k)) = {remoteBlock(k)}
    BY <1>6, NetworkBlocks
  <2>. QED BY <1>9, <1>10, <1>11, <2>1 DEF get_transaction_by_block_hash_and_index, or_else
<1>13. x.block_number = k /\ x.block_hash = remoteHash(k)
  BY <1>1 DEF included
<1>. QED BY <1>8, <1>12, <1>13

(* The block a receipt names has its transaction, and no other.            *)
LEMMA ReceiptsBlock ==
  ASSUME Answers, NEW t \in DOMAIN node.tx_results
  PROVE  LET receipt == node.tx_results[t]
             n       == receipt.block_number
         IN  /\ get(node.blocks, receipt.block_hash) = {blockOf(node, n)}
             /\ localBlocks(n) = {blockOf(node, n)}
             /\ \E x : atPosition({blockOf(node, n)}, 0) = {x} /\ x.hash = t
<1>. DEFINE receipt == node.tx_results[t]
            n == receipt.block_number
            block == blockOf(node, n)
<1>1. t \in Transactions /\ placesOf(node, t) = {n} /\ receipt.block_hash = node.block_hashes[n]
  BY DEF Answers, Receipts
<1>2. n \in (first + 1)..node.current_miniblock /\ holds(block, t)
  BY <1>1 DEF placesOf
<1>3. n \in first..node.current_miniblock
  BY <1>2 DEF Answers
<1>4. node.block_hashes[n] \in DOMAIN node.blocks /\ n \in DOMAIN node.block_hashes
  BY <1>3, HashesOfNode DEF Answers, Numbered
<1>5. get(node.blocks, receipt.block_hash) = {block}
  BY <1>1, <1>4 DEF get, blockOf
<1>6. localBlocks(n) = {block}
  <2>1. get(node.block_hashes, n) = {node.block_hashes[n]}
    BY <1>4 DEF get
  <2>. QED BY <1>1, <1>5, <2>1 DEF localBlocks
<1>7. \E x : atPosition({block}, 0) = {x} /\ x.hash = t
  <2>. HIDE DEF block
  <2>1. PICK i \in DOMAIN block.transactions : block.transactions[i].hash = t
    BY <1>2 DEF holds
  <2>2. PICK x : block.transactions = <<x>>
    BY <1>2, <2>1 DEF Answers, Contents, block
  <2>3. i = 1 /\ x.hash = t /\ DOMAIN block.transactions = {1} /\ block.transactions[1] = x
    BY <2>1, <2>2
  <2>4. get(block.transactions, 0 + 1) = {x}
    BY <2>3 DEF get
  <2>. QED BY <2>3, <2>4 DEF atPosition
<1>. QED BY <1>5, <1>6, <1>7

LEMMA TransactionFound ==
  ASSUME Answers, NEW t \in Transactions
  PROVE  FoundInOnePlace(t)
<1>. DEFINE found == get_transaction_by_hash(t)
            R == DOMAIN node.tx_results
            remote == remoteTransaction(t)
            local == {included(t, t, receipt.block_number) :
                         receipt \in get(node.tx_results, t), input \in Input[t],
                         chain_id \in extract_chain_id(t)}
<1>0. /\ found = or_else(local, remote)
      /\ t \notin R \/ hidden(t) => local = {}
      /\ t \in R /\ ~hidden(t) => local = {included(t, t, node.tx_results[t].block_number)}
  <2>1. found = or_else(local, remote)
    BY DEF get_transaction_by_hash
  <2>2. ASSUME t \notin R PROVE local = {}
    <3>1. get(node.tx_results, t) = {}
      BY <2>2 DEF get
    <3>. QED BY <3>1
  <2>3. ASSUME t \in R
        PROVE  /\ hidden(t) => local = {}
               /\ ~hidden(t) => local = {included(t, t, node.tx_results[t].block_number)}
    <3>1. get(node.tx_results, t) = {node.tx_results[t]}
      BY <2>3 DEF get
    <3>2. hidden(t) <=> (Input[t] = {} \/ extract_chain_id(t) = {})
      BY <2>3 DEF hidden
    <3>3. hidden(t) => local = {}
      BY <3>2
    <3>4. ASSUME ~hidden(t) PROVE local = {included(t, t, node.tx_results[t].block_number)}
      <4>1. PICK input, chain_id : input \in Input[t] /\ chain_id \in extract_chain_id(t)
        BY <3>2, <3>4
      <4>. QED BY <3>1, <4>1
    <3>. QED BY <3>3, <3>4
  <2>4. hidden(t) => t \in R
    BY DEF hidden
  <2>. HIDE DEF local, found
  <2>. QED BY <2>1, <2>2, <2>3, <2>4
<1>. HIDE DEF local
<1>1. (get_transaction_details(t) = {}) = (found = {} /\ ~hidden(t))
  <2>1. CASE t \in R
    <3>1. get_transaction_details(t) # {}
      BY <2>1 DEF get_transaction_details, or_else, get
    <3>2. ~hidden(t) => found # {}
      BY <1>0, <2>1 DEF or_else
    <3>. QED BY <3>1, <3>2
  <2>2. CASE t \notin R
    <3>1. get(node.tx_results, t) = {} /\ ~hidden(t) /\ local = {}
      BY <1>0, <2>2 DEF get, hidden
    <3>2. (get_transaction_details(t) = {}) = (fork = NoFork \/ remote = {})
      BY <3>1 DEF get_transaction_details, or_else
    <3>3. (found = {}) = (fork = NoFork \/ remote = {})
      BY <1>0, <3>1 DEF or_else
    <3>. QED BY <3>1, <3>2, <3>3
  <2>. QED BY <2>1, <2>2
<1>2. \A only_top \in BOOLEAN :
         {trace.hash : trace \in trace_transaction(t, only_top)} = {t} \cap R
  <2>1. CASE t \in R
    <3>1. get(node.tx_results, t) = {node.tx_results[t]}
      BY <2>1 DEF get
    <3>2. \A only_top \in BOOLEAN : trace_transaction(t, only_top) = {debug_info(t, only_top)}
      BY <3>1 DEF trace_transaction
    <3>3. \A only_top \in BOOLEAN : debug_info(t, only_top).hash = t
      BY DEF debug_info
    <3>4. \A only_top \in BOOLEAN : {trace.hash : trace \in {debug_info(t, only_top)}} = {t}
      BY <3>3
    <3>. QED BY <2>1, <3>2, <3>4
  <2>2. CASE t \notin R
    <3>1. get(node.tx_results, t) = {}
      BY <2>2 DEF get
    <3>2. \A only_top \in BOOLEAN : trace_transaction(t, only_top) = {}
      BY <3>1 DEF trace_transaction
    <3>. QED BY <2>2, <3>2
  <2>. QED BY <2>1, <2>2
<1>3. ASSUME NEW receipt \in get_transaction_receipt(t)
      PROVE  /\ ~hidden(t) => {x.block_number : x \in found} = {receipt.block_number}
             /\ \A places \in {get_transaction_by_block_hash_and_index(receipt.block_hash, 0),
                               get_transaction_by_block_number_and_index(number(receipt.block_number), 0)} :
                   {x.hash : x \in places} = {t}
  <2>1. t \in R /\ receipt = node.tx_results[t] /\ get(node.tx_results, t) = {receipt}
    BY <1>3 DEF get_transaction_receipt, get
  <2>2. ~hidden(t) => found = {included(t, t, receipt.block_number)}
    BY <1>0, <2>1 DEF or_else
  <2>3. ~hidden(t) => {x.block_number : x \in found} = {receipt.block_number}
    <3>1. included(t, t, receipt.block_number).block_number = receipt.block_number
      BY DEF included
    <3>. HIDE DEF found
    <3>. QED BY <2>2, <3>1
  <2>4. PICK block, x : /\ get(node.blocks, receipt.block_hash) = {block}
                        /\ localBlocks(receipt.block_number) = {block}
                        /\ atPosition({block}, 0) = {x} /\ x.hash = t
    BY <2>1, ReceiptsBlock
  <2>5. realNumber(number(receipt.block_number)) = receipt.block_number
    BY DEF realNumber, number, to_real_block_number
  <2>6. /\ get_transaction_by_block_hash_and_index(receipt.block_hash, 0) = {x}
        /\ get_transaction_by_block_number_and_index(number(receipt.block_number), 0) = {x}
    BY <2>4, <2>5 DEF get_transaction_by_block_hash_and_index,
                      get_transaction_by_block_number_and_index, or_else
  <2>7. {y.hash : y \in {x}} = {t}
    BY <2>4
  <2>. QED BY <2>3, <2>6, <2>7
<1>4. ASSUME get_transaction_receipt(t) = {} \/ hidden(t), NEW x \in found
      PROVE  \E i \in positions(x.block_number) :
                get_transaction_by_block_hash_and_index(x.block_hash, i) = {x}
  <2>1. t \notin R \/ hidden(t)
    BY <1>4 DEF get_transaction_receipt, get
  <2>2. fork # NoFork /\ x \in remote
    BY <1>0, <1>4, <2>1 DEF or_else
  <2>. QED BY <2>2, NetworkTransaction
<1>. QED BY <1>1, <1>2, <1>3, <1>4 DEF FoundInOnePlace

(* However a transaction is asked for, the answers name the block of its   *)
(* receipt or the network's, and no block is said to hold a transaction it *)
(* does not have, for any transactions and networks.  Only by its hash is  *)
(* a transaction that the node ran answered with the network's block or    *)
(* not at all: one whose bytes are missing or have no chain id.            *)
THEOREM TransactionLookupsAlwaysAgree == Spec => []TransactionLookupsAgree
<1>1. NodeInv /\ HistoryInv => TransactionLookupsAgree
  <2>. SUFFICES ASSUME Answers, ~poisoned PROVE TransactionLookupsAgree
    BY AnswersHold DEF TransactionLookupsAgree
  <2>1. ASSUME NEW n \in (first + 1)..node.current_miniblock, NEW i \in positions(n)
        PROVE  /\ \A x \in get_transaction_by_block_hash_and_index(node.block_hashes[n], i) :
                     holds(blockAt(n), x.hash)
               /\ \A x \in get_transaction_by_block_number_and_index(number(n), i) :
                     holds(blockAt(n), x.hash) \/ (fork # NoFork /\ x \in remoteTransaction(x.hash))
    <3>1. n \in first..node.current_miniblock /\ n # 0
      BY DEF Answers
    <3>2. node.block_hashes[n] \in DOMAIN node.blocks /\ n \in DOMAIN node.block_hashes
      BY <3>1, HashesOfNode DEF Answers, Numbered
    <3>3. get(node.blocks, node.block_hashes[n]) = {blockAt(n)}
      BY <3>2 DEF get, blockAt
    <3>4. localBlocks(n) = {blockAt(n)}
      <4>1. get(node.block_hashes, n) = {node.block_hashes[n]}
        BY <3>2 DEF get
      <4>. QED BY <3>3, <4>1 DEF localBlocks
    <3>5. \A x \in atPosition({blockAt(n)}, i) : holds(blockAt(n), x.hash)
      BY DEF atPosition, get, holds
    <3>6. \A x \in get_transaction_by_block_hash_and_index(node.block_hashes[n], i) :
            holds(blockAt(n), x.hash)
      <4>1. remoteBlocksOf(node.block_hashes[n]) = {}
        BY HashesOfNode
      <4>2. atPosition({}, i) = {}
        BY DEF atPosition
      <4>. QED BY <3>3, <3>5, <4>1, <4>2 DEF get_transaction_by_block_hash_and_index, or_else
    <3>7. ASSUME NEW x \in atPosition(remoteBlocksAt(n), i) PROVE x \in remoteTransaction(x.hash)
      <4>1. n \in 0..Len(RemoteBlocks) /\ x \in get(remoteBlock(n).transactions, i + 1)
        BY <3>7 DEF atPosition, remoteBlocksAt
      <4>. DEFINE all == RemoteBlocks[n].transactions
      <4>2. remoteBlock(n).transactions = [j \in DOMAIN all |-> included(all[j], remoteHash(n), n)]
        BY <3>1 DEF remoteBlock
      <4>3. i + 1 \in DOMAIN all /\ x = included(all[i + 1], remoteHash(n), n)
        <5>. HIDE DEF all
        <5>. QED BY <4>1, <4>2 DEF get
      <4>4. x.hash = all[i + 1] /\ n \in DOMAIN RemoteBlocks
        <5>. DEFINE Block == [transactions : Seq(Transactions), timestamp : Nat, batch : Nat \ {0}]
        <5>1. RemoteBlocks \in Seq(Block)
          BY NodeAssumption
        <5>2. DOMAIN RemoteBlocks = 1..Len(RemoteBlocks)
          <6>. HIDE DEF Block
          <6>. QED BY <5>1
        <5>3. n \in 1..Len(RemoteBlocks)
          BY <3>1, <4>1 DEF Answers
        <5>. QED BY <4>3, <5>2, <5>3 DEF included
      <4>5. n \in remoteBlockOf(x.hash)
        BY <4>3, <4>4 DEF remoteBlockOf
      <4>. QED BY <4>3, <4>4, <4>5 DEF remoteTransaction
    <3>8. realNumber(number(n)) = n
      BY DEF realNumber, number, to_real_block_number
    <3>9. ASSUME NEW x \in get_transaction_by_block_number_and_index(number(n), i)
          PROVE  holds(blockAt(n), x.hash) \/ (fork # NoFork /\ x \in remoteTransaction(x.hash))
      <4>1. \/ x \in atPosition({blockAt(n)}, i)
            \/ fork # NoFork /\ x \in atPosition(remoteBlocksAt(n), i)
        BY <3>4, <3>8, <3>9 DEF get_transaction_by_block_number_and_index, or_else
      <4>. QED BY <3>5, <3>7, <4>1
    <3>. QED BY <3>6, <3>9
  <2>. QED BY <2>1, TransactionFound DEF TransactionLookupsAgree
<1>. QED BY NodeInvariant, HistoryInvariant, <1>1, PTL

-----------------------------------------------------------------------------
(***************************************************************************)
(* The replay of a block of the network.                                   *)
(***************************************************************************)

(* What executed computes, one transaction after the other.                *)
LEMMA ExecutedSteps ==
  ASSUME NEW slots, NEW transactions, Len(transactions) \in Nat
  PROVE  /\ executed(slots, transactions)[0] = slots
         /\ \A i \in 1..Len(transactions) :
               executed(slots, transactions)[i]
                 = over(Writes[transactions[i]], executed(slots, transactions)[i - 1])
<1>. DEFINE L == Len(transactions)
            put(u, i) == over(Writes[transactions[i]], u)
            upTo(k, f) == f = [i \in 0..k |-> IF i = 0 THEN slots ELSE put(f[i - 1], i)]
            after == CHOOSE f : upTo(L, f)
            S == {k \in Nat : \E f : upTo(k, f)}
<1>1. executed(slots, transactions) = after
  BY DEF executed
<1>2. 0 \in S
  <2>1. upTo(0, [i \in 0..0 |-> slots])
    OBVIOUS
  <2>. HIDE DEF upTo
  <2>. QED BY <2>1
<1>3. ASSUME NEW k \in S PROVE k + 1 \in S
  <2>1. PICK f : upTo(k, f)
    <3>. HIDE DEF upTo
    <3>. QED OBVIOUS
  <2>2. upTo(k + 1, [i \in 0..(k + 1) |-> IF i = k + 1 THEN put(f[k], k + 1) ELSE f[i]])
    <3>. HIDE DEF put
    <3>. QED BY <2>1
  <2>. HIDE DEF upTo
  <2>. QED BY <2>2
<1>4. upTo(L, after)
  <2>1. Nat \subseteq S
    <3>. HIDE DEF S
    <3>. QED BY <1>2, <1>3, SetInduction
  <2>2. \E f : upTo(L, f)
    BY <2>1
  <2>. HIDE DEF upTo
  <2>. QED BY <2>2
<1>. HIDE DEF after
<1>5. after[0] = slots /\ \A i \in 1..L : after[i] = put(after[i - 1], i)
  <2>. HIDE DEF put
  <2>. QED BY <1>4
<1>. QED BY <1>1, <1>5

(* The transactions of a block of the network.                             *)
transactionsOf(k) == RemoteBlocks[k].transactions

(* They are sequences of transactions.                                     *)
LEMMA NetworkTransactions ==
  /\ Len(RemoteBlocks) \in Nat /\ DOMAIN RemoteBlocks = 1..Len(RemoteBlocks)
  /\ \A k \in DOMAIN RemoteBlocks :
        /\ transactionsOf(k) \in Seq(Transactions)
        /\ Len(transactionsOf(k)) \in Nat
        /\ DOMAIN transactionsOf(k) = 1..Len(transactionsOf(k))
<1>. DEFINE Block == [transactions : Seq(Transactions), timestamp : Nat, batch : Nat \ {0}]
<1>1. RemoteBlocks \in Seq(Block)
  BY NodeAssumption
<1>2. /\ Len(RemoteBlocks) \in Nat /\ DOMAIN RemoteBlocks = 1..Len(RemoteBlocks)
      /\ \A k \in DOMAIN RemoteBlocks : RemoteBlocks[k] \in Block
  <2>. HIDE DEF Block
  <2>. QED BY <1>1
<1>3. \A k \in DOMAIN RemoteBlocks : transactionsOf(k) \in Seq(Transactions)
  BY <1>2 DEF transactionsOf
<1>. HIDE DEF Block
<1>. QED BY <1>2, <1>3

(* The state of the network after a block is the one before it with the    *)
(* block's transactions executed.                                          *)
LEMMA RemoteSlotsSteps ==
  /\ remoteSlots[0] = RemoteGenesis
  /\ \A k \in DOMAIN RemoteBlocks :
        remoteSlots[k] = executed(remoteSlots[k - 1], transactionsOf(k))
                                [Len(transactionsOf(k))]
<1>. DEFINE L == Len(RemoteBlocks)
            put(u, i) == executed(u, transactionsOf(i))[Len(transactionsOf(i))]
            upTo(k, f) == f = [i \in 0..k |-> IF i = 0 THEN RemoteGenesis ELSE put(f[i - 1], i)]
            after == CHOOSE f : upTo(L, f)
            S == {k \in Nat : \E f : upTo(k, f)}
<1>1. remoteSlots = after
  BY DEF remoteSlots, transactionsOf
<1>2. 0 \in S
  <2>1. upTo(0, [i \in 0..0 |-> RemoteGenesis])
    OBVIOUS
  <2>. HIDE DEF upTo
  <2>. QED BY <2>1
<1>3. ASSUME NEW k \in S PROVE k + 1 \in S
  <2>1. PICK f : upTo(k, f)
    <3>. HIDE DEF upTo
    <3>. QED OBVIOUS
  <2>2. upTo(k + 1, [i \in 0..(k + 1) |-> IF i = k + 1 THEN put(f[k], k + 1) ELSE f[i]])
    <3>. HIDE DEF put
    <3>. QED BY <2>1
  <2>. HIDE DEF upTo
  <2>. QED BY <2>2
<1>4. upTo(L, after)
  <2>1. Nat \subseteq S
    <3>. HIDE DEF S
    <3>. QED BY <1>2, <1>3, SetInduction
  <2>2. \E f : upTo(L, f)
    BY <2>1, NetworkTransactions
  <2>. HIDE DEF upTo
  <2>. QED BY <2>2
<1>. HIDE DEF after
<1>5. after[0] = RemoteGenesis /\ \A i \in 1..L : after[i] = put(after[i - 1], i)
  <2>. HIDE DEF put
  <2>. QED BY <1>4, NetworkTransactions
<1>. QED BY <1>1, <1>5, NetworkTransactions

(* Executing transactions adds no slots to those there are.                *)
LEMMA ExecutedDomain ==
  ASSUME NEW slots, NEW transactions \in Seq(Transactions), DOMAIN slots = Slots
  PROVE  \A i \in 0..Len(transactions) : DOMAIN executed(slots, transactions)[i] = Slots
<1>. DEFINE f == executed(slots, transactions)
            S == {k \in Nat : k <= Len(transactions) => DOMAIN f[k] = Slots}
<1>1. Len(transactions) \in Nat /\ \A i \in 1..Len(transactions) : transactions[i] \in Transactions
  OBVIOUS
<1>2. f[0] = slots /\ \A i \in 1..Len(transactions) : f[i] = over(Writes[transactions[i]], f[i - 1])
  BY <1>1, ExecutedSteps
<1>3. \A t \in Transactions : DOMAIN Writes[t] \subseteq Slots
  BY NodeAssumption
<1>. HIDE DEF f
<1>4. 0 \in S
  BY <1>2
<1>5. ASSUME NEW k \in S PROVE k + 1 \in S
  <2>. SUFFICES ASSUME k + 1 <= Len(transactions) PROVE DOMAIN f[k + 1] = Slots
    OBVIOUS
  <2>1. k + 1 \in 1..Len(transactions) /\ (k + 1) - 1 = k /\ DOMAIN f[k] = Slots
    BY <1>1
  <2>2. f[k + 1] = over(Writes[transactions[k + 1]], f[k])
    BY <1>2, <2>1
  <2>3. DOMAIN Writes[transactions[k + 1]] \subseteq Slots
    BY <1>1, <1>3, <2>1
  <2>. QED BY <2>1, <2>2, <2>3 DEF over
<1>6. Nat \subseteq S
  <2>. HIDE DEF S
  <2>. QED BY <1>4, <1>5, SetInduction
<1>7. \A i \in 0..Len(transactions) : DOMAIN f[i] = Slots
  BY <1>1, <1>6
<1>. QED BY <1>7 DEF f

(* Every state of the network has all slots.                               *)
LEMMA RemoteSlotsDomain ==
  ASSUME DOMAIN RemoteGenesis = Slots
  PROVE  \A k \in 0..Len(RemoteBlocks) : DOMAIN remoteSlots[k] = Slots
<1>. DEFINE S == {k \in Nat : k <= Len(RemoteBlocks) => DOMAIN remoteSlots[k] = Slots}
<1>1. 0 \in S
  BY RemoteSlotsSteps
<1>2. ASSUME NEW k \in S PROVE k + 1 \in S
  <2>. SUFFICES ASSUME k + 1 <= Len(RemoteBlocks) PROVE DOMAIN remoteSlots[k + 1] = Slots
    OBVIOUS
  <2>1. k + 1 \in DOMAIN RemoteBlocks /\ (k + 1) - 1 = k /\ DOMAIN remoteSlots[k] = Slots
    BY NetworkTransactions
  <2>2. remoteSlots[k + 1] = executed(remoteSlots[k], transactionsOf(k + 1))[Len(transactionsOf(k + 1))]
    BY <2>1, RemoteSlotsSteps
  <2>3. /\ transactionsOf(k + 1) \in Seq(Transactions)
        /\ Len(transactionsOf(k + 1)) \in 0..Len(transactionsOf(k + 1))
    BY <2>1, NetworkTransactions
  <2>. QED BY <2>1, <2>2, <2>3, ExecutedDomain
<1>3. Nat \subseteq S
  <2>. HIDE DEF S
  <2>. QED BY <1>1, <1>2, SetInduction
<1>. QED BY <1>3, NetworkTransactions

(* What is replayed is of the block after the fork; the states that the    *)
(* network had in it.                                                      *)
replayed == transactionsOf(fork + 1)
statesReplayed == executed(remoteSlots[fork], replayed)

(* A node that has replayed so many of its transactions.                   *)
ReplayedTo(n, i) ==
    /\ DOMAIN n.tx_results = {replayed[j] : j \in 1..i}
    /\ n.audit.jumped = {} /\ DOMAIN n.storage.slots = Slots
    /\ \A s \in Slots : slotValue(n, s) = statesReplayed[i][s]

(* What is left to be replayed is the rest of a first part of the block,   *)
(* or nothing when a transaction was refused.                              *)
LeftToReplay(i) ==
    \/ startup.replay = <<>> /\ \E t \in ToSet(replayed) : ~validate_tx(t)
    \/ \E l \in 1..Len(replayed) : i <= l /\ startup.replay = SubSeq(replayed, i + 1, l)

(* The inductive invariant of the replay.                                  *)
ReplayInv ==
    startup.command = "replay" /\ ~startup.ready /\ ~poisoned =>
        /\ fork # NoFork /\ fork + 1 \in DOMAIN RemoteBlocks
        /\ \E i \in 0..Len(replayed) : ReplayedTo(node, i) /\ LeftToReplay(i)

(* The first nodes have replayed nothing.                                  *)
LEMMA ReplayInit ==
  ASSUME NetworkIsExecuted, Init
  PROVE  ReplayInv
<1>. SUFFICES ASSUME startup.command = "replay" PROVE ReplayInv
  BY DEF ReplayInv
<1>1. PICK start \in Starts :
        /\ fork = forkOf(start)
        /\ startup = [command |-> start.command, contracts |-> start.contracts, ready |-> FALSE,
                      replay |-> IF start.command = "replay"
                                 THEN get_earlier_transactions_in_same_block(start.tx) ELSE <<>>]
        /\ node = IF fork = NoFork THEN firstNode ELSE forkNode(fork)
  BY DEF Init
<1>2. start.command = "replay"
  BY <1>1
<1>. DEFINE b == CHOOSE b \in remoteBlockOf(start.tx) : TRUE
            all == RemoteBlocks[b].transactions
            last == CHOOSE i \in DOMAIN all : all[i] = start.tx
<1>3. b \in DOMAIN RemoteBlocks /\ b \in Nat \ {0} /\ \E i \in DOMAIN all : all[i] = start.tx
  <2>1. b \in remoteBlockOf(start.tx)
    BY <1>2, ReplayedBlock
  <2>. HIDE DEF b
  <2>. QED BY <2>1, NetworkTransactions DEF remoteBlockOf
<1>4. fork = b - 1 /\ startup.replay = SubSeq(all, 1, last)
  BY <1>1, <1>2 DEF forkOf, from_network_tx, get_earlier_transactions_in_same_block
<1>. HIDE DEF b
<1>5. fork \in Nat /\ fork # NoFork /\ fork + 1 = b /\ fork \in 0..Len(RemoteBlocks)
      /\ replayed = all
  BY <1>3, <1>4, NetworkTransactions DEF NoFork, replayed, transactionsOf
<1>6. all \in Seq(Transactions) /\ Len(all) \in Nat /\ DOMAIN all = 1..Len(all)
  BY <1>3, NetworkTransactions DEF transactionsOf
<1>. HIDE DEF all
<1>7. last \in 1..Len(all)
  BY <1>3, <1>6
<1>. HIDE DEF last
<1>8. LeftToReplay(0)
  <2>1. 0 <= last /\ startup.replay = SubSeq(replayed, 0 + 1, last)
    BY <1>4, <1>5, <1>7
  <2>. QED BY <1>5, <1>7, <2>1 DEF LeftToReplay
<1>9. ReplayedTo(node, 0)
  <2>1. /\ node.tx_results = <<>> /\ node.audit.jumped = {}
        /\ node.storage.slots = [s \in Slots |-> 0]
    BY <1>1, <1>5 DEF forkNode, newNode, localStorage
  <2>2. DOMAIN node.tx_results = {replayed[j] : j \in 1..0}
    BY <2>1
  <2>3. \A s \in Slots : slotValue(node, s) = remoteSlots[fork][s]
    BY <1>5, <2>1 DEF slotValue
  <2>4. statesReplayed[0] = remoteSlots[fork]
    BY <1>5, <1>6, ExecutedSteps DEF statesReplayed
  <2>. QED BY <2>1, <2>2, <2>3, <2>4 DEF ReplayedTo
<1>10. 0 \in 0..Len(replayed)
  BY <1>5, <1>6
<1>. QED BY <1>3, <1>5, <1>8, <1>9, <1>10 DEF ReplayInv

(* The next transaction has the nonce of its account: it is not halted.    *)
LEMMA ReplayedIsNotHalted ==
  ASSUME NetworkIsExecuted, fork # NoFork, fork + 1 \in DOMAIN RemoteBlocks, fork \in Nat,
         NEW i \in 0..Len(replayed), ReplayedTo(node, i), Receipts(node), NoncesCount(node),
         i + 1 \in 1..Len(replayed)
  PROVE  ~halts(replayed[i + 1])
<1>. DEFINE t == replayed[i + 1]
            a == From[t]
<1>1. i \in Nat /\ i + 1 \in DOMAIN replayed /\ t \in Transactions /\ a \in Accounts
  <2>1. /\ replayed \in Seq(Transactions) /\ Len(replayed) \in Nat
        /\ DOMAIN replayed = 1..Len(replayed)
    BY NetworkTransactions DEF replayed
  <2>2. t \in Transactions
    BY <2>1
  <2>. QED BY <2>1, <2>2, NodeAssumption
<1>2. /\ t \in Signed
      /\ Nonce[t] = remoteNonces[fork][a]
                    + Cardinality({u \in {replayed[l] : l \in 1..i} : From[u] = a})
  <2>1. (fork + 1) - 1 = fork /\ (i + 1) - 1 = i /\ i + 1 \in DOMAIN RemoteBlocks[fork + 1].transactions
    BY <1>1 DEF replayed, transactionsOf
  <2>2. /\ RemoteBlocks[fork + 1].transactions[i + 1] \in Signed
        /\ Nonce[RemoteBlocks[fork + 1].transactions[i + 1]]
             = remoteNonces[(fork + 1) - 1][From[RemoteBlocks[fork + 1].transactions[i + 1]]]
               + Cardinality({u \in {RemoteBlocks[fork + 1].transactions[l] : l \in 1..((i + 1) - 1)} :
                                From[u] = From[RemoteBlocks[fork + 1].transactions[i + 1]]})
    BY <2>1 DEF NetworkIsExecuted
  <2>. QED BY <2>1, <2>2 DEF replayed, transactionsOf
<1>. HIDE DEF t
<1>3. nonceOf(node, a) = Cardinality(receiptsOf(node, a)) + remoteNonces[fork][a]
  BY <1>1 DEF NoncesCount, ReplayedTo, forkNonce
<1>4. receiptsOf(node, a) = {u \in {replayed[l] : l \in 1..i} : From[u] = a}
  BY DEF ReplayedTo, receiptsOf
<1>5. Cardinality(receiptsOf(node, a)) \in Nat /\ remoteNonces[fork][a] \in Nat
  <2>1. IsFiniteSet(receiptsOf(node, a))
    BY FS_Subset DEF receiptsOf, Receipts
  <2>2. fork \in 0..Len(RemoteBlocks)
    BY NetworkTransactions
  <2>. QED BY <1>1, <2>1, <2>2, FS_CardinalityType, RemoteNoncesInNat
<1>6. nonceOf(node, a) = Nonce[t]
  BY <1>2, <1>3, <1>4, <1>5
<1>7. ~halts(t)
  BY <1>2, <1>6 DEF halts
<1>. QED BY <1>7 DEF t

(* With it committed the slots are those of the network after it.          *)
LEMMA ReplayCommit ==
  ASSUME NetworkIsExecuted, NothingIsCleared, fork # NoFork, fork + 1 \in DOMAIN RemoteBlocks,
         fork \in Nat, NEW i \in 0..Len(replayed), NEW n, NEW m, ReplayedTo(n, i),
         i + 1 \in 1..Len(replayed), Committed(n, m, replayed[i + 1])
  PROVE  ReplayedTo(m, i + 1)
<1>. DEFINE t == replayed[i + 1]
            before == statesReplayed[i]
            after == statesReplayed[i + 1]
<1>1. /\ replayed \in Seq(Transactions) /\ Len(replayed) \in Nat
      /\ DOMAIN replayed = 1..Len(replayed) /\ i \in Nat
  BY NetworkTransactions DEF replayed
<1>2. t \in Transactions /\ DOMAIN Writes[t] \subseteq Slots
  BY <1>1, NodeAssumption
<1>3. t \in ToSet(replayed)
  BY <1>1 DEF ToSet
<1>4. \A s \in DOMAIN Writes[t] : Writes[t][s] # 0 \/ remoteSlots[fork][s] = 0
  <2>1. (fork + 1) - 1 = fork /\ t \in ToSet(RemoteBlocks[fork + 1].transactions)
    BY <1>3 DEF replayed, transactionsOf
  <2>. HIDE DEF t
  <2>2. \A s \in DOMAIN Writes[t] : Writes[t][s] # 0 \/ remoteSlots[(fork + 1) - 1][s] = 0
    BY <2>1 DEF NothingIsCleared
  <2>. QED BY <2>1, <2>2
<1>5. after = over(Writes[t], before)
  <2>1. (i + 1) - 1 = i
    BY <1>1
  <2>. QED BY <1>1, <2>1, ExecutedSteps DEF statesReplayed
<1>6. DOMAIN before = Slots
  <2>1. DOMAIN remoteSlots[fork] = Slots
    BY NetworkTransactions, RemoteSlotsDomain DEF NetworkIsExecuted
  <2>. QED BY <1>1, <2>1, ExecutedDomain DEF statesReplayed
<1>7. PICK b, e, receipt : CommittedAs(n, m, t, b, e, receipt)
  BY DEF Committed
<1>8. /\ DOMAIN m.tx_results = DOMAIN n.tx_results \cup {t}
      /\ m.audit.jumped = n.audit.jumped
      /\ m.storage.slots = over(Writes[t], n.storage.slots)
  <2>. HIDE DEF t
  <2>. QED BY <1>7 DEF CommittedAs, with
<1>9. DOMAIN m.tx_results = {replayed[j] : j \in 1..(i + 1)}
  <2>1. \A j : j \in 1..(i + 1) <=> j \in 1..i \/ j = i + 1
    BY <1>1
  <2>2. {replayed[j] : j \in 1..(i + 1)} = {replayed[j] : j \in 1..i} \cup {t}
    BY <2>1
  <2>. HIDE DEF t
  <2>. QED BY <1>8, <2>2 DEF ReplayedTo
<1>. HIDE DEF t, before, after
<1>10. DOMAIN m.storage.slots = Slots
  BY <1>2, <1>8 DEF ReplayedTo, over
<1>11. ASSUME NEW s \in Slots PROVE slotValue(m, s) = after[s]
  <2>1. slotValue(n, s) = before[s]
    BY DEF ReplayedTo, before
  <2>2. CASE s \in DOMAIN Writes[t]
    <3>1. m.storage.slots[s] = Writes[t][s] /\ after[s] = Writes[t][s]
      BY <1>5, <1>8, <2>2 DEF over
    <3>. QED BY <1>4, <2>2, <3>1 DEF slotValue
  <2>3. CASE s \notin DOMAIN Writes[t]
    <3>1. m.storage.slots[s] = n.storage.slots[s] /\ after[s] = before[s]
      BY <1>5, <1>6, <1>8, <2>3 DEF over, ReplayedTo
    <3>. QED BY <2>1, <3>1 DEF slotValue
  <2>. QED BY <2>2, <2>3
<1>12. \A s \in Slots : slotValue(m, s) = statesReplayed[i + 1][s]
  BY <1>11 DEF after
<1>. QED BY <1>8, <1>9, <1>10, <1>12 DEF ReplayedTo

(* A transaction that is replayed is refused, or committed.                *)
LEMMA ReplayApply ==
  ASSUME NetworkIsExecuted, NothingIsCleared, NodeInv, HistoryInv, ReplayInv, ApplyTx
  PROVE  ReplayInv'
<1>. DEFINE t == Head(startup.replay)
<1>. SUFFICES ASSUME startup.command = "replay", ~poisoned' PROVE ReplayInv'
  BY DEF ReplayInv, ApplyTx, NodeInv, StartupTyped
<1>1. /\ ~startup.ready /\ ~poisoned /\ startup.replay # <<>> /\ UNCHANGED fork
      /\ Good(node) /\ Receipts(node) /\ NoncesCount(node) /\ fork # NoFork /\ fork \in Nat
      /\ fork + 1 \in DOMAIN RemoteBlocks /\ ForkInRange /\ StartupTyped
  BY DEF ApplyTx, ReplayInv, NodeInv, NodeGood, HistoryInv, History, ForkInRange
<1>2. PICK i \in 0..Len(replayed) : ReplayedTo(node, i) /\ LeftToReplay(i)
  BY <1>1 DEF ReplayInv
<1>3. PICK l \in 1..Len(replayed) : i <= l /\ startup.replay = SubSeq(replayed, i + 1, l)
  BY <1>1, <1>2 DEF LeftToReplay
<1>4. /\ replayed \in Seq(Transactions) /\ Len(replayed) \in Nat
      /\ DOMAIN replayed = 1..Len(replayed) /\ i \in Nat /\ l \in Nat
  BY <1>1, NetworkTransactions DEF replayed
<1>5. /\ i + 1 <= l /\ i + 1 \in 1..Len(replayed) /\ t = replayed[i + 1]
      /\ Tail(startup.replay) = SubSeq(replayed, (i + 1) + 1, l)
  <2>1. i + 1 <= l
    BY <1>1, <1>3, <1>4
  <2>2. Len(SubSeq(replayed, i + 1, l)) = l - i
    BY <1>4, <2>1
  <2>3. SubSeq(replayed, i + 1, l) \in Seq(Transactions)
    BY <1>4, <2>1
  <2>4. Tail(SubSeq(replayed, i + 1, l)) = SubSeq(replayed, (i + 1) + 1, l)
    BY <1>4, <2>1, <2>2, <2>3
  <2>5. Head(SubSeq(replayed, i + 1, l)) = replayed[i + 1]
    BY <1>4, <2>1
  <2>. QED BY <1>3, <1>4, <2>1, <2>4, <2>5
<1>6. t \in Transactions /\ t \in ToSet(replayed)
  BY <1>4, <1>5 DEF ToSet
<1>. HIDE DEF t
<1>7. replayed' = replayed /\ statesReplayed' = statesReplayed
  BY <1>1 DEF replayed, statesReplayed
<1>8. ~halts(t)
  BY <1>1, <1>2, <1>5, ReplayedIsNotHalted
<1>9. CASE RejectTx(t) /\ startup' = [startup EXCEPT !.replay = <<>>]
  <2>1. node' = node /\ ~validate_tx(t) /\ startup'.replay = <<>>
    BY <1>1, <1>9 DEF RejectTx, StartupTyped
  <2>2. ReplayedTo(node, i)'
    BY <1>1, <1>2, <1>7, <2>1 DEF ReplayedTo, slotValue
  <2>3. LeftToReplay(i)'
    BY <1>6, <1>7, <2>1 DEF LeftToReplay, validate_tx
  <2>. QED BY <1>1, <1>7, <2>2, <2>3 DEF ReplayInv
<1>10. CASE CommitTx(t) /\ startup' = [startup EXCEPT !.replay = Tail(startup.replay)]
  <2>1. Committed(node, node', t)
    BY <1>1, <1>6, <1>10, CommitIsCommitted
  <2>2. ReplayedTo(node', i + 1)
    BY <1>1, <1>2, <1>5, <2>1, ReplayCommit
  <2>3. ReplayedTo(node, i + 1)'
    BY <1>1, <1>7, <2>2 DEF ReplayedTo, slotValue
  <2>4. startup'.replay = SubSeq(replayed, (i + 1) + 1, l)
    BY <1>1, <1>5, <1>10 DEF StartupTyped
  <2>5. LeftToReplay(i + 1)'
    BY <1>5, <1>7, <2>4 DEF LeftToReplay
  <2>6. i + 1 \in (0..Len(replayed))'
    BY <1>4, <1>5, <1>7
  <2>. QED BY <1>1, <1>7, <2>3, <2>5, <2>6 DEF ReplayInv
<1>. QED BY <1>8, <1>9, <1>10 DEF ApplyTx, HaltTx, t

(* Nothing else is done before the node serves.                            *)
LEMMA ReplayNext ==
  ASSUME NetworkIsExecuted, NothingIsCleared, NodeInv, HistoryInv, ReplayInv, [Next]_vars
  PROVE  ReplayInv'
<1>1. CASE ApplyTx
  BY <1>1, ReplayApply
<1>2. CASE SetRichAccounts
  BY <1>2 DEF SetRichAccounts, ReplayInv, NodeInv, StartupTyped
<1>3. CASE ForkFails
  BY <1>3 DEF ForkFails, ReplayInv
<1>4. CASE UNCHANGED vars
  BY <1>4 DEF vars, ReplayInv, replayed, statesReplayed, ReplayedTo, slotValue, LeftToReplay,
              validate_tx
<1>5. CASE Eth \/ Evm \/ Hardhat
  <2>1. startup.ready /\ UNCHANGED startup
    BY <1>5 DEF Eth, SendRawTransaction, SendTransaction, NewBlockFilter,
         NewPendingTransactionFilter, NewFilter, install, UninstallFilter, GetFilterChanges, Evm,
         IncreaseTime, SetNextBlockTimestamp, SetTime, set, MineBlock, MineBlocks, Snapshot,
         RevertSnapshot, Hardhat, SetBalance, SetNonce, SetCode, ImpersonateAccount,
         StopImpersonatingAccount, serving
  <2>. QED BY <2>1 DEF ReplayInv
<1>. QED BY <1>1, <1>2, <1>3, <1>4, <1>5 DEF Next, Startup, Dead

(* The blocks of the network share no transactions.                        *)
LEMMA BlocksAreDisjoint ==
  ASSUME NetworkIsExecuted, NEW k \in DOMAIN RemoteBlocks, NEW n \in DOMAIN RemoteBlocks,
         NEW j \in DOMAIN transactionsOf(k), NEW l \in DOMAIN transactionsOf(n),
         transactionsOf(k)[j] = transactionsOf(n)[l]
  PROVE  k = n /\ j = l
<1>1. \A m \in DOMAIN RemoteBlocks : \A p \in DOMAIN RemoteBlocks[m].transactions :
        \A b \in DOMAIN RemoteBlocks : \A q \in DOMAIN RemoteBlocks[b].transactions :
            RemoteBlocks[b].transactions[q] = RemoteBlocks[m].transactions[p] => b = m /\ q = p
  BY Zenon DEF NetworkIsExecuted
<1>. QED BY <1>1 DEF transactionsOf

(* What was replayed is the whole of a block only if it is all of the one  *)
(* after the fork.                                                         *)
LEMMA ReplayReaches ==
  ASSUME NetworkIsExecuted, NodeInv, ReplayInv
  PROVE  ReplayReachesNetwork
<1>. SUFFICES ASSUME startup.command = "replay", ~startup.ready, ~poisoned
              PROVE  ReplayReachesNetwork
  BY DEF ReplayReachesNetwork
<1>. DEFINE done == DOMAIN node.tx_results
            refused == \E n \in {fork + 1} \cap DOMAIN RemoteBlocks :
                          \E t \in ToSet(RemoteBlocks[n].transactions) : ~validate_tx(t)
<1>1. fork # NoFork /\ fork + 1 \in DOMAIN RemoteBlocks
  BY DEF ReplayInv
<1>2. PICK i \in 0..Len(replayed) : ReplayedTo(node, i) /\ LeftToReplay(i)
  BY DEF ReplayInv
<1>3. /\ replayed \in Seq(Transactions) /\ Len(replayed) \in Nat
      /\ DOMAIN replayed = 1..Len(replayed) /\ i \in Nat
      /\ (fork + 1) - 1 = fork
  BY <1>1, NetworkTransactions DEF replayed, NodeInv, ForkInRange
<1>4. done = {replayed[j] : j \in 1..i}
  BY <1>2 DEF ReplayedTo
<1>5. startup.replay = <<>> => done # {} \/ refused
  <2>. SUFFICES ASSUME startup.replay = <<>>, ~refused PROVE done # {}
    OBVIOUS
  <2>1. ~\E t \in ToSet(replayed) : ~validate_tx(t)
    BY <1>1 DEF replayed, transactionsOf
  <2>2. PICK l \in 1..Len(replayed) : i <= l /\ startup.replay = SubSeq(replayed, i + 1, l)
    BY <1>2, <2>1 DEF LeftToReplay
  <2>3. Len(SubSeq(replayed, i + 1, l)) = l - i
    BY <1>3, <2>2
  <2>4. i = l /\ 1 \in 1..i
    BY <1>3, <2>2, <2>3
  <2>. QED BY <1>4, <2>4
<1>6. ASSUME NEW n \in DOMAIN RemoteBlocks, done # {}, done = ToSet(RemoteBlocks[n].transactions),
             NEW s \in Slots
      PROVE  slotValue(node, s) = remoteSlots[n][s]
  <2>1. done = ToSet(transactionsOf(n))
    BY <1>6 DEF transactionsOf
  <2>2. PICK j \in 1..i : replayed[j] \in ToSet(transactionsOf(n))
    BY <1>4, <1>6, <2>1
  <2>3. PICK l \in DOMAIN transactionsOf(n) : transactionsOf(n)[l] = replayed[j]
    BY <2>2 DEF ToSet
  <2>4. n = fork + 1
    BY <1>1, <1>3, <2>3, BlocksAreDisjoint DEF replayed
  <2>5. Len(replayed) \in 1..Len(replayed)
    BY <1>3
  <2>6. replayed[Len(replayed)] \in done
    BY <1>3, <2>1, <2>4, <2>5 DEF ToSet, replayed
  <2>7. PICK k \in 1..i : replayed[k] = replayed[Len(replayed)]
    BY <1>4, <2>6
  <2>8. i = Len(replayed)
    <3>1. k \in DOMAIN replayed /\ Len(replayed) \in DOMAIN replayed
      BY <1>3, <2>5
    <3>2. k = Len(replayed)
      BY <1>1, <2>7, <3>1, BlocksAreDisjoint DEF replayed
    <3>3. Len(replayed) \in 1..i
      BY <3>2
    <3>4. i \in Nat /\ Len(replayed) \in Nat /\ i <= Len(replayed)
      BY <1>3
    <3>. QED BY <3>3, <3>4
  <2>9. slotValue(node, s) = statesReplayed[Len(replayed)][s]
    BY <1>2, <2>8 DEF ReplayedTo
  <2>10. remoteSlots[fork + 1] = statesReplayed[Len(replayed)]
    BY <1>1, <1>3, RemoteSlotsSteps DEF replayed, statesReplayed
  <2>. QED BY <2>4, <2>9, <2>10
<1>. QED BY <1>5, <1>6 DEF ReplayReachesNetwork

(* A replayed block leaves each slot with the value the network has after  *)
(* it, for any network, block and transaction of it that is replayed; and  *)
(* unless one is refused for its fees, something is replayed.              *)
THEOREM ReplayAlwaysReachesNetwork ==
  ASSUME NetworkIsExecuted, NothingIsCleared
  PROVE  Spec => []ReplayReachesNetwork
<1>1. Init => ReplayInv
  BY ReplayInit
<1>2. NodeInv /\ HistoryInv /\ ReplayInv /\ [Next]_vars => ReplayInv'
  BY ReplayNext
<1>3. NodeInv /\ ReplayInv => ReplayReachesNetwork
  BY ReplayReaches
<1>. QED BY NodeInvariant, HistoryInvariant, <1>1, <1>2, <1>3, PTL DEF Spec

=============================================================================
