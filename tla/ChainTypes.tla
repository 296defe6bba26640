------------------------------ MODULE ChainTypes ------------------------------
(***************************************************************************)
(* The data types of crates/types: transactions, blocks, their digests and *)
(* the Merkle root that a header carries for its transactions.             *)
(*                                                                         *)
(* SHA-256 is ideal here: a digest is a tagged tuple that holds what was   *)
(* hashed, so two digests are equal exactly when their preimages are.  The *)
(* tags keep the three kinds of preimage apart (a transaction encodes to   *)
(* 81 or 145 bytes, a Merkle pair to 64, a header to 112).  A signature is *)
(* ideal too: it is the pair of the key that made it, named by its address,*)
(* and of what was signed.                                                 *)
(***************************************************************************)
EXTENDS Integers, Sequences

CONSTANT ZeroAddr       \* [0u8; 32], the proposer field of the genesis block

ZeroHash == <<"zero">>

(* Option::None of the signature field.                                    *)
NoSignature == <<>>

(* The signed bytes: everything but the signature.                         *)
PurePayload(tx) == <<tx.from, tx.to, tx.amount, tx.nonce>>

Signed(signer, to, amount, nonce) ==
    LET unsigned == [from |-> signer, to |-> to, amount |-> amount,
                     nonce |-> nonce, signature |-> NoSignature]
    IN  [unsigned EXCEPT !.signature = <<signer, PurePayload(unsigned)>>]

(* Faulty variant: whose key it was does not matter.                       *)
VerifySomeSignature(tx) == tx.signature # NoSignature

(* False without a signature, with another's, and with one that was made   *)
(* for other contents.                                                     *)
VerifySignature(tx) == tx.signature = <<tx.from, PurePayload(tx)>>

TxHash(tx) == <<"tx", tx>>

BlockHash(block) == <<"block", block.header>>

-----------------------------------------------------------------------------
(* Merkle root: hash pairs of a layer until one digest is left; the last   *)
(* digest of an odd layer is duplicated.                                   *)

MerklePair(left, right) == <<"pair", left, right>>

(* Faulty variants: an odd layer loses its last digest; the first digest   *)
(* is the one that is repeated.                                            *)
DropOdd(layer) ==
    IF Len(layer) % 2 = 1 /\ Len(layer) > 1
    THEN SubSeq(layer, 1, Len(layer) - 1) ELSE layer

PadWithFirst(layer) == IF Len(layer) % 2 = 1 THEN Append(layer, layer[1]) ELSE layer

PadOdd(layer) ==
    IF Len(layer) % 2 = 1 THEN Append(layer, layer[Len(layer)]) ELSE layer

NextLayer(layer) ==
    LET padded == PadOdd(layer)
    IN  [i \in 1 .. (Len(padded) \div 2) |->
            MerklePair(padded[2 * i - 1], padded[2 * i])]

ComputeTxRoot(txs) ==
    LET layer[k \in 0 .. Len(txs)] ==
            IF k = 0 THEN [i \in DOMAIN txs |-> TxHash(txs[i])]
            ELSE IF Len(layer[k - 1]) > 1 THEN NextLayer(layer[k - 1])
            ELSE layer[k - 1]
    IN  IF txs = <<>> THEN ZeroHash ELSE layer[Len(txs)][1]

-----------------------------------------------------------------------------

NewBlock(height, parent_hash, timestamp, proposer, transactions) ==
    [header |-> [height      |-> height,
                 parent_hash |-> parent_hash,
                 tx_root     |-> ComputeTxRoot(transactions),
                 timestamp   |-> timestamp,
                 proposer    |-> proposer],
     transactions |-> transactions]

GenesisBlock ==
    [header |-> [height |-> 0, parent_hash |-> ZeroHash, tx_root |-> ZeroHash,
                 timestamp |-> 0, proposer |-> ZeroAddr],
     transactions |-> <<>>]

GenesisHash == BlockHash(GenesisBlock)

(* A signed block pairs a block with a signature over its digest; the      *)
(* signature records the key it was made with.                             *)
SignBlock(block, key) ==
    [block |-> block, signature |-> <<key, BlockHash(block)>>]

SignedBlockVerifies(signed) ==
    signed.signature = <<signed.block.header.proposer, BlockHash(signed.block)>>
===============================================================================
