------------------------------ MODULE MempoolSpec -----------------------------
(***************************************************************************)
(* What a mempool promises, whatever it is made of: a bounded set of       *)
(* signed, non-zero transactions, no two of one sender with one nonce.     *)
(* Every call answers; a refusal has a reason that is true of the set, and *)
(* changes nothing.  Want of room is a reason only where there is no other.*)
(***************************************************************************)
EXTENDS ChainTypes, FiniteSets

CONSTANTS Txs, Capacity

VARIABLES
    held,       \* the set of transactions in the pool
    answer      \* what the last call answered

Init == held = {} /\ answer = [call |-> "none"]

SameSlot(t, tx) == t.from = tx.from /\ t.nonce = tx.nonce

(* The pool would take it, were there room.                                *)
Welcome(tx) ==
    /\ VerifySignature(tx)
    /\ tx.amount # 0
    /\ \A t \in held : ~SameSlot(t, tx)

Admissible(tx) == Welcome(tx) /\ Cardinality(held) < Capacity

(* "Full" is for those only that a bigger pool would have taken: to come   *)
(* again later is of use to nobody else.                                   *)
Justifies(reason, tx) ==
    \/ reason = "InvalidSignature" /\ ~VerifySignature(tx)
    \/ reason = "ZeroAmount" /\ tx.amount = 0
    \/ reason = "Duplicate" /\ tx \in held
    \/ reason = "NonceConflict" /\ \E t \in held : t # tx /\ SameSlot(t, tx)
    \/ reason = "Full" /\ Cardinality(held) >= Capacity /\ Welcome(tx)

Accept(tx) ==
    /\ Admissible(tx)
    /\ held' = held \cup {tx}
    /\ answer' = [call |-> "insert", tx |-> tx, result |-> "Ok"]

Refuse(tx) ==
    /\ UNCHANGED held
    /\ \E reason \in {"InvalidSignature", "ZeroAmount", "Duplicate",
                      "NonceConflict", "Full"} :
          /\ Justifies(reason, tx)
          /\ answer' = [call |-> "insert", tx |-> tx, result |-> reason]

TakeOut(tx) ==
    /\ held' = held \ {tx}
    /\ answer' = [call |-> "remove", tx |-> tx, found |-> tx \in held]

Next == \E tx \in Txs : Accept(tx) \/ Refuse(tx) \/ TakeOut(tx)

Spec == Init /\ [][Next]_<<held, answer>>
===============================================================================
