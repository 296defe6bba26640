--------------------------------- MODULE Pool ---------------------------------
(***************************************************************************)
(* The data structure of crates/mempool/src/pool.rs and its operations as  *)
(* functions on it.  A pool is a record of the two indexes of the code:    *)
(*   txs        hash -> transaction                                        *)
(*   by_sender  address -> (nonce -> hash), no entry for an idle sender    *)
(***************************************************************************)
EXTENDS ChainTypes, HashMaps, FiniteSets

CONSTANT Capacity

ASSUME CapacityAssumption == Capacity \in Nat

EmptyPool == [txs |-> EmptyMap, by_sender |-> EmptyMap]

(* Faulty variant: no conflict is ever noticed.                            *)
NonceNeverTaken(pool, tx) == FALSE

NonceTaken(pool, tx) ==
    /\ tx.from \in DOMAIN pool.by_sender
    /\ tx.nonce \in DOMAIN pool.by_sender[tx.from]

(* Faulty variant: no check of the capacity.                               *)
InsertResultUnbounded(pool, tx) ==
    IF ~VerifySignature(tx)                 THEN "InvalidSignature"
    ELSE IF tx.amount = 0                   THEN "ZeroAmount"
    ELSE IF TxHash(tx) \in DOMAIN pool.txs  THEN "Duplicate"
    ELSE IF NonceTaken(pool, tx)            THEN "NonceConflict"
    ELSE "Ok"

(* Faulty variant: the capacity is looked at first.                        *)
InsertResultFullFirst(pool, tx) ==
    IF Cardinality(DOMAIN pool.txs) >= Capacity THEN "Full"
    ELSE InsertResultUnbounded(pool, tx)

(* What insert answers: the first check that fails names the error.        *)
InsertResult(pool, tx) ==
    IF ~VerifySignature(tx)                               THEN "InvalidSignature"
    ELSE IF tx.amount = 0                                 THEN "ZeroAmount"
    ELSE IF TxHash(tx) \in DOMAIN pool.txs                THEN "Duplicate"
    ELSE IF NonceTaken(pool, tx)                          THEN "NonceConflict"
    ELSE IF Cardinality(DOMAIN pool.txs) >= Capacity      THEN "Full"
    ELSE "Ok"

(* or_default(): the sender's map, or an empty one.                        *)
NonceMap(pool, a) ==
    IF a \in DOMAIN pool.by_sender THEN pool.by_sender[a] ELSE EmptyMap

AddTx(pool, tx) ==
    [txs       |-> Bind(pool.txs, TxHash(tx), tx),
     by_sender |-> Bind(pool.by_sender, tx.from,
                        Bind(NonceMap(pool, tx.from), tx.nonce, TxHash(tx)))]

PoolInsert(pool, tx) ==
    IF InsertResult(pool, tx) = "Ok" THEN AddTx(pool, tx) ELSE pool

(* Faulty variant: an emptied nonce map stays behind.                      *)
DropNonceOnly(by_sender, a, nonce) ==
    Bind(by_sender, a, Unbind(by_sender[a], nonce))

(* The sender's entry without one nonce; an emptied map is dropped.        *)
DropNonce(by_sender, a, nonce) ==
    IF DOMAIN by_sender[a] \subseteq {nonce}
    THEN Unbind(by_sender, a)
    ELSE Bind(by_sender, a, Unbind(by_sender[a], nonce))

(* Faulty variant: the nonce index is not told.                            *)
RemoveFromOneIndex(pool, hash) ==
    [pool EXCEPT !.txs = Unbind(pool.txs, hash)]

PoolRemove(pool, hash) ==
    IF hash \notin DOMAIN pool.txs THEN pool
    ELSE LET tx == pool.txs[hash]
         IN  [txs       |-> Unbind(pool.txs, hash),
              by_sender |-> IF tx.from \in DOMAIN pool.by_sender
                            THEN DropNonce(pool.by_sender, tx.from, tx.nonce)
                            ELSE pool.by_sender]

(* Removal of every transaction of a block body, as finalize does.         *)
PoolRemoveAll(pool, txs) ==
    LET after[i \in 0 .. Len(txs)] ==
            IF i = 0 THEN pool ELSE PoolRemove(after[i - 1], TxHash(txs[i]))
    IN  after[Len(txs)]

(* The pool after Node::run has seeded it, in order, skipping what insert  *)
(* refuses.                                                                *)
SeededPool(txs) ==
    LET after[i \in 0 .. Len(txs)] ==
            IF i = 0 THEN EmptyPool ELSE PoolInsert(after[i - 1], txs[i])
    IN  after[Len(txs)]

-----------------------------------------------------------------------------

Senders(pool) == DOMAIN pool.by_sender

(* Pending transactions of a sender in ascending nonce order: the values   *)
(* of a BTreeMap, looked up in `txs`, unknown hashes skipped.              *)
PendingFrom(pool, a) ==
    LET index  == NonceMap(pool, a)
        nonces == {n \in DOMAIN index : index[n] \in DOMAIN pool.txs}
        rank(n) == Cardinality({m \in nonces : m <= n})
    IN  [i \in 1 .. Cardinality(nonces) |->
            pool.txs[index[CHOOSE n \in nonces : rank(n) = i]]]

(* lowest_nonce, for a sender with pending transactions.                   *)
LowestNonce(pool, a) ==
    LET nonces == DOMAIN pool.by_sender[a]
    IN  CHOOSE n \in nonces : \A m \in nonces : n <= m
===============================================================================
