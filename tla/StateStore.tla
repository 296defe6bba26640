------------------------------ MODULE StateStore ------------------------------
(***************************************************************************)
(* The account state of crates/storage/src/state.rs.  `accounts` is the    *)
(* HashMap: a function from the addresses that have an entry to records    *)
(* [balance, nonce]; a missing address reads as the default account.       *)
(*                                                                         *)
(* Balances keep the width of u64 (MaxU64 is its largest value, scaled     *)
(* down for model checking) because overflow is a case the code handles.   *)
(* Nonces are unbounded naturals: a u64 nonce wraps only after 2^64        *)
(* transactions of one account.                                            *)
(***************************************************************************)
EXTENDS ChainTypes, HashMaps

CONSTANT MaxU64

ASSUME MaxU64Assumption == MaxU64 \in Nat \ {0}

DefaultAccount == [balance |-> 0, nonce |-> 0]

GetAccount(accounts, a) ==
    IF a \in DOMAIN accounts THEN accounts[a] ELSE DefaultAccount

GetBalance(accounts, a) == GetAccount(accounts, a).balance

GetNonce(accounts, a) == GetAccount(accounts, a).nonce

(* Faulty variant: an address has what it was given last.                  *)
CreditLast(accounts, a, amount) ==
    Bind(accounts, a, [balance |-> amount, nonce |-> GetNonce(accounts, a)])

(* Genesis seeding.  `balance += amount` is unchecked: the release build   *)
(* wraps.                                                                  *)
Credit(accounts, a, amount) ==
    Bind(accounts, a,
        [balance |-> (GetBalance(accounts, a) + amount) % (MaxU64 + 1),
         nonce   |-> GetNonce(accounts, a)])

(* Node::run credits the genesis allocations, <<address, amount>>, in order.*)
GenesisAccounts(allocations) ==
    LET credited[i \in 0 .. Len(allocations)] ==
            IF i = 0 THEN EmptyMap
            ELSE Credit(credited[i - 1], allocations[i][1], allocations[i][2])
    IN  credited[Len(allocations)]

-----------------------------------------------------------------------------
(* Faulty variant: the recipient may overflow.                             *)
TxAppliesUnchecked(accounts, tx) ==
    /\ VerifySignature(tx)
    /\ tx.nonce = GetNonce(accounts, tx.from)
    /\ GetBalance(accounts, tx.from) >= tx.amount

(* The checks of apply_transaction, in the code's order.                   *)
TxApplies(accounts, tx) ==
    /\ VerifySignature(tx)
    /\ tx.nonce = GetNonce(accounts, tx.from)
    /\ GetBalance(accounts, tx.from) >= tx.amount
    /\ tx.from # tx.to => GetBalance(accounts, tx.to) + tx.amount <= MaxU64

Debit(accounts, tx) ==
    Bind(accounts, tx.from,
        [balance |-> GetBalance(accounts, tx.from) - tx.amount,
         nonce   |-> GetNonce(accounts, tx.from) + 1])

(* Faulty variant: a self-transfer is not refunded.                        *)
ApplyWithoutRefund(accounts, tx) ==
    LET debited == Debit(accounts, tx)
    IN  IF tx.from = tx.to THEN debited
        ELSE Bind(debited, tx.to,
                [balance |-> GetBalance(debited, tx.to) + tx.amount,
                 nonce   |-> GetNonce(debited, tx.to)])

(* Both branches after the debit credit tx.to: a self-transfer gets its    *)
(* amount refunded.                                                        *)
ApplyTransaction(accounts, tx) ==
    LET debited == Debit(accounts, tx)
    IN  Bind(debited, tx.to,
            [balance |-> GetBalance(debited, tx.to) + tx.amount,
             nonce   |-> GetNonce(debited, tx.to)])

(* The loop of apply_block: run[i] is the shadow state after the first i   *)
(* transactions and whether all of them applied.                           *)
RunTxs(accounts, txs) ==
    LET run[i \in 0 .. Len(txs)] ==
            IF i = 0 THEN [ok |-> TRUE, accounts |-> accounts]
            ELSE IF run[i - 1].ok /\ TxApplies(run[i - 1].accounts, txs[i])
            THEN [ok |-> TRUE,
                  accounts |-> ApplyTransaction(run[i - 1].accounts, txs[i])]
            ELSE [ok |-> FALSE, accounts |-> accounts]
    IN  run[Len(txs)]

BlockApplies(accounts, txs) == RunTxs(accounts, txs).ok

(* Faulty variant: no rollback, what ran before the failure stays.         *)
ApplyWhatRuns(accounts, txs) ==
    LET after[i \in 0 .. Len(txs)] ==
            IF i = 0 THEN accounts
            ELSE IF TxApplies(after[i - 1], txs[i])
            THEN ApplyTransaction(after[i - 1], txs[i])
            ELSE after[i - 1]
    IN  after[Len(txs)]

(* On failure the snapshot taken before the loop is what is left.          *)
ApplyBlock(accounts, txs) == RunTxs(accounts, txs).accounts
===============================================================================
