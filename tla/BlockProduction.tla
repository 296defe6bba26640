---------------------------- MODULE BlockProduction ---------------------------
(***************************************************************************)
(* A proposer between two blocks: transactions enter its mempool, blocks   *)
(* are committed to its state, its own or another proposer's, and at any   *)
(* moment it may be asked to build one.  The mempool is not revalidated    *)
(* when the state moves on, so transactions of the pool go stale here in   *)
(* every way they can: their nonce is spent by a rival transaction, their  *)
(* sender's balance is gone, their recipient is too rich.                  *)
(***************************************************************************)
EXTENDS Builder

CONSTANTS
    Txs,        \* the transactions that exist
    Allocations,    \* genesis balances: a sequence of <<address, amount>>
    Bodies,     \* the bodies other proposers may commit
    MaxTxs      \* MAX_TXS_PER_BLOCK

ASSUME MaxTxsAssumption == MaxTxs \in Nat \ {0}

(* The fields of a transaction and of an allocation are u64; nonces are    *)
(* not bounded here.                                                       *)
ASSUME TxsAssumption == \A tx \in Txs : tx.amount \in Nat /\ tx.nonce \in Nat

ASSUME BodiesAssumption == Bodies \subseteq Seq(Txs)

ASSUME AllocationsAssumption ==
    /\ Allocations \in Seq(Range(Allocations))
    /\ \A i \in DOMAIN Allocations : Allocations[i][2] \in 0 .. MaxU64

VARIABLES pool, accounts

vars == <<pool, accounts>>

Init == pool = EmptyPool /\ accounts = GenesisAccounts(Allocations)

QueueTx(tx) ==
    /\ InsertResult(pool, tx) = "Ok"
    /\ pool' = PoolInsert(pool, tx)
    /\ UNCHANGED accounts

(* finalize: `?` on apply_block leaves a block that fails, rolled back, and*)
(* the mempool as it was.                                                  *)
Commit(body) ==
    /\ accounts' = ApplyBlock(accounts, body)
    /\ pool' = IF BlockApplies(accounts, body) THEN PoolRemoveAll(pool, body) ELSE pool

Next ==
    \/ \E tx \in Txs : QueueTx(tx)
    \/ \E body \in Bodies : Commit(body)
    \/ \E body \in Selections(pool, accounts, MaxTxs) : Commit(body)

Spec == Init /\ [][Next]_vars

-----------------------------------------------------------------------------

(* Balances fit in u64, nonces are natural, the pool is within capacity.   *)
TypeOK ==
    /\ \A a \in DOMAIN accounts :
          accounts[a] \in [balance : 0 .. MaxU64, nonce : Nat]
    /\ Cardinality(DOMAIN pool.txs) <= Capacity

Supply(accts) ==
    LET total[A \in SUBSET DOMAIN accts] ==
            IF A = {} THEN 0
            ELSE LET a == CHOOSE x \in A : TRUE
                 IN  accts[a].balance + total[A \ {a}]
    IN  total[DOMAIN accts]

(* What genesis gives: to each address the sum of its allocations, which   *)
(* wraps when it does not fit in a u64.                                    *)
AllocatedTo(a) ==
    LET sum[i \in 0 .. Len(Allocations)] ==
            IF i = 0 THEN 0
            ELSE sum[i - 1]
                    + IF Allocations[i][1] = a THEN Allocations[i][2] ELSE 0
    IN  sum[Len(Allocations)]

Allocated ==
    [a \in {Allocations[i][1] : i \in DOMAIN Allocations} |->
        [balance |-> AllocatedTo(a) % (MaxU64 + 1), nonce |-> 0]]

(* There are as many coins as genesis gave out (state.rs:40): crediting an *)
(* address twice adds up, and applying transactions moves coins and neither*)
(* makes nor destroys any, self-transfers, new recipients and the u64      *)
(* ceiling included.                                                       *)
SupplyConserved == Supply(accounts) = Supply(Allocated)

(* Whatever order the senders come in and however stale the pool is, the   *)
(* body that build_block selects applies cleanly to the state it was built *)
(* from (builder.rs, test produced_block_applies_cleanly_against_state).   *)
SelectionApplies ==
    \A body \in Selections(pool, accounts, MaxTxs) : BlockApplies(accounts, body)

(* A selected body holds at most max_txs transactions, all from the pool,  *)
(* those of one sender by strictly ascending nonce, and with each of them  *)
(* every earlier one the pool holds of that sender: no nonce is skipped.   *)
SelectionTakesPrefixes ==
    \A body \in Selections(pool, accounts, MaxTxs) :
        /\ Len(body) <= MaxTxs
        /\ Range(body) \subseteq Range(pool.txs)
        /\ \A i, j \in DOMAIN body :
              i < j /\ body[i].from = body[j].from => body[i].nonce < body[j].nonce
        /\ \A i \in DOMAIN body : \A tx \in Range(pool.txs) :
              tx.from = body[i].from /\ tx.nonce < body[i].nonce => tx \in Range(body)

(* A block is built empty only when no sender's next pending transaction   *)
(* applies: one bad sender cannot keep the others out of the block.        *)
EmptyOnlyWhenNoHeadApplies ==
    <<>> \in Selections(pool, accounts, MaxTxs) =>
        \A a \in Senders(pool) : ~TxApplies(accounts, PendingFrom(pool, a)[1])

(* builder.rs:33, "gap or invalid for this sender; later nonces are        *)
(* unusable": once a sender's first pending transaction fails, none of its *)
(* later ones would apply either.                                          *)
LaterNoncesAreUnusable ==
    \A a \in Senders(pool) :
        LET pending == PendingFrom(pool, a)
        IN  ~TxApplies(accounts, pending[1]) =>
                \A i \in DOMAIN pending : ~TxApplies(accounts, pending[i])
===============================================================================
