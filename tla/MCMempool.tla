------------------------------- MODULE MCMempool ------------------------------
(* Two senders, a few nonces, two rival amounts for one slot, the zero and  *)
(* unsigned forms of a transaction, one that was altered after signing and  *)
(* one that bob signed in alice's name; room for three.                     *)
EXTENDS Mempool

CONSTANTS alice, bob

MCAddresses == {alice, bob}

MCPay == Signed(alice, bob, 1, 0)

MCTxs ==
    {Signed(alice, bob, amount, nonce) : amount \in {1, 2}, nonce \in {0, 1, 2}}
    \cup {Signed(bob, alice, 1, nonce) : nonce \in {0, 1}}
    \cup {Signed(alice, bob, 0, 0),
          [MCPay EXCEPT !.signature = NoSignature],
          [MCPay EXCEPT !.amount = 2],
          [MCPay EXCEPT !.signature = <<bob, PurePayload(MCPay)>>]}
===============================================================================
