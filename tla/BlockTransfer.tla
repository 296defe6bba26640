----------------------------- MODULE BlockTransfer ----------------------------
(***************************************************************************)
(* The data of one block on its way: it is filled with transactions, its   *)
(* root is computed, it is encoded by broadcast_block, and what the block  *)
(* channel hands to store_block may be those bytes or others: cut short,   *)
(* longer, changed in a place.                                             *)
(***************************************************************************)
EXTENDS ChainTypes, Codec

CONSTANTS
    Txs,        \* the transactions that exist, their fields as bytes
    FirstHeader,    \* a header, its fields as bytes
    SomeSignature,  \* 64 bytes
    MaxTxs,     \* bound: transactions in the block
    MaxDamagedTxs,  \* bound: transactions in a block whose bytes are changed
    MaxDamage   \* bound: changes to the bytes

(* Every field is as many bytes as its type has.                           *)
ASSUME FieldsAssumption ==
    /\ \A tx \in Txs :
          /\ tx \in [from : Bytes(HashLen), to : Bytes(HashLen), amount : Bytes(8),
                    nonce : Bytes(8), signature : Seq(Bytes(SignatureLen))]
          /\ Len(tx.signature) <= 1
    /\ FirstHeader \in [height : Bytes(8), parent_hash : Bytes(HashLen),
                        tx_root : Bytes(HashLen), timestamp : Bytes(8),
                        proposer : Bytes(HashLen)]
    /\ SomeSignature \in Bytes(SignatureLen)

ASSUME BodyLengthAssumption == MaxTxs \in 0 .. LengthLimit - 1

VARIABLES block, bytes, damage

vars == <<block, bytes, damage>>

Init ==
    /\ block = [header |-> FirstHeader, transactions |-> <<>>]
    /\ bytes = WriteBlock(block)
    /\ damage = 0

(* No step of the code: it goes through the blocks there are to send, which*)
(* hold no transaction twice, as every body that can be applied.           *)
AddTransaction(tx) ==
    /\ damage = 0
    /\ Len(block.transactions) < MaxTxs
    /\ \A i \in DOMAIN block.transactions : block.transactions[i] # tx
    /\ block' = [block EXCEPT !.transactions = Append(block.transactions, tx)]
    /\ bytes' = WriteBlock(block')
    /\ UNCHANGED damage

Damaged(other) ==
    /\ damage < MaxDamage
    /\ Len(block.transactions) <= MaxDamagedTxs
    /\ damage' = damage + 1
    /\ bytes' = other
    /\ UNCHANGED block

LoseLast == bytes # <<>> /\ Damaged(SubSeq(bytes, 1, Len(bytes) - 1))

AddByte(b) == Damaged(Append(bytes, b))

Overwrite(i, b) == bytes[i] # b /\ Damaged([bytes EXCEPT ![i] = b])

Next ==
    \/ \E tx \in Txs : AddTransaction(tx)
    \/ LoseLast
    \/ \E b \in {0, 1, LengthBase} : AddByte(b) \/ \E i \in DOMAIN bytes : Overwrite(i, b)

Spec == Init /\ [][Next]_vars

-----------------------------------------------------------------------------

(* What is broadcast arrives as it was, unless it holds more transactions  *)
(* than decoding accepts (block.rs, tests block_codec_roundtrip and        *)
(* the limit MAX_TXS_PER_BLOCK); a signed block likewise.                  *)
RoundTrips ==
    damage = 0 =>
        LET signed == [block |-> block, signature |-> SomeSignature]
        IN  IF Len(block.transactions) <= MaxTxsDecoded
            THEN /\ ReadBlock(bytes) = Got(block, <<>>)
                 /\ ReadSignedBlock(WriteSignedBlock(signed)) = Got(signed, <<>>)
            ELSE ~ReadBlock(bytes).ok /\ ~ReadSignedBlock(WriteSignedBlock(signed)).ok

(* encode_size announces exactly the bytes that write produces: the codec  *)
(* library panics in the actor's broadcast when the two disagree.          *)
SizesAreExact ==
    damage = 0 =>
        LET signed == [block |-> block, signature |-> SomeSignature]
        IN  /\ BlockSize(block) = Len(bytes)
            /\ SignedBlockSize(signed) = Len(WriteSignedBlock(signed))
            /\ \A i \in DOMAIN block.transactions :
                  TransactionSize(block.transactions[i])
                      = Len(WriteTransaction(block.transactions[i]))

(* Nothing but an encoding decodes, and each block has one encoding: what  *)
(* store_block accepts of changed bytes encodes to those bytes again.      *)
DecodesOnlyEncodings ==
    LET result == ReadBlock(bytes)
    IN  Whole(result) => WriteBlock(result.value) = bytes

-----------------------------------------------------------------------------
(* The Merkle tree by position, from the root down: node i of level k      *)
(* covers 2^k leaves, and a missing right half repeats the left one.       *)

Span(k) == LET power[j \in 0 .. k] == IF j = 0 THEN 1 ELSE 2 * power[j - 1] IN power[k]

LevelSize(n, k) == (n + Span(k) - 1) \div Span(k)

Depth(n) == CHOOSE k \in 0 .. n : LevelSize(n, k) = 1 /\ \A j \in 0 .. k - 1 : LevelSize(n, j) > 1

Node(txs, level, index) ==
    LET node[k \in 0 .. level] ==
            IF k = 0 THEN [i \in 0 .. Len(txs) - 1 |-> TxHash(txs[i + 1])]
            ELSE [i \in 0 .. LevelSize(Len(txs), k) - 1 |->
                     MerklePair(node[k - 1][2 * i],
                                IF 2 * i + 1 < LevelSize(Len(txs), k - 1)
                                THEN node[k - 1][2 * i + 1] ELSE node[k - 1][2 * i])]
    IN  node[level][index]

(* The loop over layers computes the tree of the positional definition.    *)
RootIsPositional ==
    damage = 0 =>
        LET txs == block.transactions
        IN  ComputeTxRoot(txs)
                = IF txs = <<>> THEN ZeroHash ELSE Node(txs, Depth(Len(txs)), 0)

Bodies ==
    UNION {{txs \in [1 .. n -> Txs] : \A i, j \in 1 .. n : txs[i] = txs[j] => i = j} :
              n \in 0 .. MaxTxs}

(* The header commits to its body: of the bodies that hold no transaction  *)
(* twice, no two have the same root (the digest covers the header only,    *)
(* and nothing compares a decoded body with tx_root).                      *)
RootDeterminesBody ==
    damage = 0 =>
        \A txs \in Bodies :
            ComputeTxRoot(txs) = ComputeTxRoot(block.transactions)
                => txs = block.transactions
===============================================================================
