---------------------------- MODULE MCBlockTransfer ---------------------------
(* Four signed transactions that differ in an amount or a nonce, an unsigned *)
(* one, and the real widths: up to five leaves under a root and blocks of up *)
(* to 776 bytes.  Lengths are to the base 2, so a byte is one of 0 to 3, and *)
(* blocks of four and five transactions have lengths of three bytes.         *)
EXTENDS BlockTransfer

MCBytes(n, b) == [i \in 1 .. n |-> b]

MCTx(amount, nonce, signature) ==
    [from |-> MCBytes(32, 2), to |-> MCBytes(32, 3), amount |-> MCBytes(8, amount),
     nonce |-> MCBytes(8, nonce), signature |-> signature]

MCSignature == MCBytes(64, 1)

MCTxs ==
    {MCTx(1, 0, <<MCSignature>>), MCTx(2, 0, <<MCSignature>>),
     MCTx(1, 1, <<MCSignature>>), MCTx(1, 2, <<MCSignature>>), MCTx(1, 0, <<>>)}

MCHeader ==
    [height |-> MCBytes(8, 0), parent_hash |-> MCBytes(32, 1),
     tx_root |-> MCBytes(32, 2), timestamp |-> MCBytes(8, 3),
     proposer |-> MCBytes(32, 0)]
===============================================================================
