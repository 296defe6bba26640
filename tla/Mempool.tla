-------------------------------- MODULE Mempool -------------------------------
(***************************************************************************)
(* crates/mempool/src/pool.rs as a state machine: any sequence of the      *)
(* calls that change it.  `pool` is the Mempool value, `answer` what the   *)
(* last call returned.  The methods that only read are functions of the    *)
(* pool in module Pool.                                                    *)
(***************************************************************************)
EXTENDS Pool

CONSTANTS
    Txs,        \* the transactions callers may hand in
    Addresses

ASSUME TxsAssumption ==
    \A tx \in Txs : tx.from \in Addresses /\ tx.amount \in Nat /\ tx.nonce \in Nat

VARIABLES pool, answer

vars == <<pool, answer>>

Init == pool = EmptyPool /\ answer = [call |-> "none"]

Insert(tx) ==
    /\ pool' = PoolInsert(pool, tx)
    /\ answer' = [call |-> "insert", tx |-> tx, result |-> InsertResult(pool, tx)]

(* remove(&hash) answers the transaction, or None.                         *)
Remove(tx) ==
    /\ pool' = PoolRemove(pool, TxHash(tx))
    /\ answer' = [call |-> "remove", tx |-> tx,
                  found |-> TxHash(tx) \in DOMAIN pool.txs]

Next == \E tx \in Txs : Insert(tx) \/ Remove(tx)

Spec == Init /\ [][Next]_vars

-----------------------------------------------------------------------------

(* pending.                                                                *)
Held == {pool.txs[h] : h \in DOMAIN pool.txs}

Hashes == {TxHash(tx) : tx \in Txs}

(* The first index leads from hashes to transactions, the second from      *)
(* senders and nonces to hashes, and there are never more transactions     *)
(* than the capacity allows.                                               *)
TypeOK ==
    /\ DOMAIN pool.txs \subseteq Hashes
    /\ \A h \in DOMAIN pool.txs : pool.txs[h] \in Txs
    /\ DOMAIN pool.by_sender \subseteq Addresses
    /\ \A a \in DOMAIN pool.by_sender : \A n \in DOMAIN pool.by_sender[a] :
          n \in Nat /\ pool.by_sender[a][n] \in Hashes
    /\ IsFiniteSet(DOMAIN pool.txs)
    /\ Cardinality(DOMAIN pool.txs) <= Capacity

(* pool.rs:7-9, "Both indexes are kept in lockstep by every mutator": a    *)
(* transaction is found under its own hash and under its sender and nonce, *)
(* every entry of the nonce index leads to such a transaction, and no      *)
(* sender keeps an empty map.                                              *)
HashIndexed == \A h \in DOMAIN pool.txs : h = TxHash(pool.txs[h])

NonceIndexed ==
    \A h \in DOMAIN pool.txs :
        /\ NonceTaken(pool, pool.txs[h])
        /\ pool.by_sender[pool.txs[h].from][pool.txs[h].nonce] = h

NoDanglingNonce ==
    \A a \in DOMAIN pool.by_sender :
        /\ DOMAIN pool.by_sender[a] # {}
        /\ \A n \in DOMAIN pool.by_sender[a] :
              LET h == pool.by_sender[a][n]
              IN  /\ h \in DOMAIN pool.txs
                  /\ pool.txs[h].from = a
                  /\ pool.txs[h].nonce = n

Lockstep == HashIndexed /\ NonceIndexed /\ NoDanglingNonce

(* What the block builder reads agrees with what is held: the senders are  *)
(* those with a held transaction, pending_from lists exactly the held      *)
(* transactions of a sender, nonces strictly ascending, and lowest_nonce   *)
(* is that of the first.                                                   *)
QueriesFollowHeld ==
    /\ Senders(pool) = {tx.from : tx \in Held}
    /\ \A a \in Addresses :
          LET listed == PendingFrom(pool, a)
          IN  /\ {listed[i] : i \in DOMAIN listed} = {tx \in Held : tx.from = a}
              /\ \A i, j \in DOMAIN listed : i < j => listed[i].nonce < listed[j].nonce
              /\ a \in Senders(pool) => LowestNonce(pool, a) = listed[1].nonce

(* The two indexes implement the bounded set of transactions, one per      *)
(* sender and nonce, that a mempool promises.                              *)
Abstract == INSTANCE MempoolSpec WITH held <- Held

ImplementsMempoolSpec == Abstract!Spec
===============================================================================
