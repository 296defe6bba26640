------------------------------- MODULE Builder --------------------------------
(***************************************************************************)
(* Block building, crates/consensus/src/builder.rs: walk the senders of    *)
(* the mempool in whatever order the HashMap yields them, each sender's    *)
(* transactions by ascending nonce, apply every one to a shadow of the     *)
(* state and keep those that apply; the first that does not ends the walk  *)
(* of its sender, the cap ends the whole walk.                             *)
(***************************************************************************)
EXTENDS StateStore, Pool, Functions

(* Faulty variants: nothing is tried on the shadow; the cap is one off.    *)
ConsiderUntried(acc, tx, max_txs) ==
    IF Len(acc.selected) >= max_txs THEN acc
    ELSE [acc EXCEPT !.selected = Append(acc.selected, tx)]

ConsiderOneMore(acc, tx, max_txs) ==
    IF acc.stuck \/ Len(acc.selected) > max_txs THEN acc
    ELSE IF ~TxApplies(acc.shadow, tx) THEN [acc EXCEPT !.stuck = TRUE]
    ELSE [shadow   |-> ApplyTransaction(acc.shadow, tx),
          selected |-> Append(acc.selected, tx),
          stuck    |-> FALSE]

(* One step of the inner loop.  acc.shadow is the shadow state,            *)
(* acc.selected the body so far, acc.stuck whether `break` left the        *)
(* current sender.                                                         *)
Consider(acc, tx, max_txs) ==
    IF acc.stuck \/ Len(acc.selected) >= max_txs THEN acc
    ELSE IF ~TxApplies(acc.shadow, tx) THEN [acc EXCEPT !.stuck = TRUE]
    ELSE [shadow   |-> ApplyTransaction(acc.shadow, tx),
          selected |-> Append(acc.selected, tx),
          stuck    |-> FALSE]

(* Faulty variant: the inner `break` leaves the loop over the senders.     *)
PackUntilFirstFailure(acc, txs, max_txs) ==
    LET walk[i \in 0 .. Len(txs)] ==
            IF i = 0 THEN acc ELSE Consider(walk[i - 1], txs[i], max_txs)
    IN  walk[Len(txs)]

PackSender(acc, txs, max_txs) ==
    LET walk[i \in 0 .. Len(txs)] ==
            IF i = 0 THEN [acc EXCEPT !.stuck = FALSE]
            ELSE Consider(walk[i - 1], txs[i], max_txs)
    IN  walk[Len(txs)]

Pack(pool, accounts, senders, max_txs) ==
    LET walk[i \in 0 .. Len(senders)] ==
            IF i = 0
            THEN [shadow |-> accounts, selected |-> <<>>, stuck |-> FALSE]
            ELSE PackSender(walk[i - 1], PendingFrom(pool, senders[i]), max_txs)
    IN  walk[Len(senders)].selected

(* The bodies build_block may select: one for each order of the senders.   *)
Selections(pool, accounts, max_txs) ==
    {Pack(pool, accounts, senders, max_txs) :
        senders \in Bijection(1 .. Cardinality(Senders(pool)), Senders(pool))}

(* The blocks build_block may return, for one reading of the clock.        *)
BuildBlock(parent, timestamp, proposer, pool, accounts, max_txs) ==
    {NewBlock(parent.header.height + 1, BlockHash(parent), timestamp,
              proposer, body) :
        body \in Selections(pool, accounts, max_txs)}
===============================================================================
