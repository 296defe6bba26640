--------------------------------- MODULE Codec --------------------------------
(***************************************************************************)
(* The byte layout of crates/types: Write, Read and EncodeSize of a        *)
(* transaction, a header, a block and a signed block, at their real        *)
(* widths.  Every field is the sequence of its bytes, integers included;   *)
(* the codec library writes an Option as a tag byte and the value, a Vec as*)
(* its length and the items, and `decode` refuses bytes that are left over.*)
(* A length is its digits to the base 128, the lowest first, every byte but*)
(* the last marked; three bytes hold all that is ever accepted.            *)
(***************************************************************************)
EXTENDS Integers, SequencesExt

CONSTANTS
    LengthBase,     \* 128: a byte of a length carries one digit and a mark
    MaxTxsDecoded   \* MAX_TXS_PER_BLOCK of block.rs

LengthLimit == LengthBase * LengthBase * LengthBase

ASSUME LengthAssumption ==
    /\ LengthBase \in Nat /\ LengthBase >= 2
    /\ MaxTxsDecoded \in 0 .. LengthLimit - 1

HashLen == 32
SignatureLen == 64

Width(field) == IF field \in {"height", "timestamp", "amount", "nonce"} THEN 8 ELSE HashLen

(* The values of a field of n bytes.                                       *)
Byte == 0 .. 2 * LengthBase - 1

Bytes(n) == [1 .. n -> Byte]

-----------------------------------------------------------------------------
(* Fields one after another.                                               *)

Offset(order, i) ==
    LET sum[k \in 0 .. i - 1] == IF k = 0 THEN 0 ELSE sum[k - 1] + Width(order[k])
    IN  sum[i - 1]

FieldsLen(order) == Offset(order, Len(order) + 1)

WriteFields(record, order) ==
    FlattenSeq([i \in DOMAIN order |-> record[order[i]]])

Fail == [ok |-> FALSE]

Got(value, rest) == [ok |-> TRUE, value |-> value, rest |-> rest]

(* The bytes after the first n.                                            *)
Remaining(bytes, n) == SubSeq(bytes, n + 1, Len(bytes))

ReadFields(bytes, order) ==
    IF Len(bytes) < FieldsLen(order) THEN Fail
    ELSE Got([field \in Range(order) |->
                LET i == CHOOSE k \in DOMAIN order : order[k] = field
                IN  SubSeq(bytes, Offset(order, i) + 1, Offset(order, i + 1))],
             Remaining(bytes, FieldsLen(order)))

-----------------------------------------------------------------------------
(* Transactions: four fields and an Option, a sequence of at most one.     *)

TransactionWrites == <<"from", "to", "amount", "nonce">>

(* Faulty variant: the two integers the other way round.                   *)
TransactionReadsSwapped == <<"from", "to", "nonce", "amount">>

TransactionReads == <<"from", "to", "amount", "nonce">>

WriteSignature(signature) == IF signature = <<>> THEN <<0>> ELSE <<1>> \o signature[1]

WriteTransaction(tx) ==
    WriteFields(tx, TransactionWrites) \o WriteSignature(tx.signature)

ReadSignature(bytes) ==
    IF bytes = <<>> THEN Fail
    ELSE IF bytes[1] = 0 THEN Got(<<>>, Tail(bytes))
    ELSE IF bytes[1] = 1 /\ Len(bytes) > SignatureLen
    THEN Got(<<SubSeq(bytes, 2, SignatureLen + 1)>>, Remaining(bytes, SignatureLen + 1))
    ELSE Fail

ReadTransaction(bytes) ==
    LET fields    == ReadFields(bytes, TransactionReads)
        signature == ReadSignature(fields.rest)
    IN  IF ~fields.ok \/ ~signature.ok THEN Fail
        ELSE Got([field \in DOMAIN fields.value \cup {"signature"} |->
                    IF field = "signature" THEN signature.value
                    ELSE fields.value[field]],
                 signature.rest)

(* Faulty variant: the tag of the Option is forgotten.                     *)
TransactionSizeUntagged(tx) ==
    FieldsLen(TransactionWrites) + (IF tx.signature = <<>> THEN 0 ELSE SignatureLen)

TransactionSize(tx) ==
    FieldsLen(TransactionWrites) + 1 + (IF tx.signature = <<>> THEN 0 ELSE SignatureLen)

-----------------------------------------------------------------------------
(* Blocks.                                                                 *)

HeaderWrites == <<"height", "parent_hash", "tx_root", "timestamp", "proposer">>

(* Faulty variant: the two hashes the other way round.                     *)
HeaderReadsSwapped == <<"height", "tx_root", "parent_hash", "timestamp", "proposer">>

HeaderReads == <<"height", "parent_hash", "tx_root", "timestamp", "proposer">>

HeaderSize == 8 + HashLen + HashLen + 8 + HashLen

WriteLength(n) ==
    LET low == n % LengthBase
        high == n \div LengthBase
    IN  IF high = 0 THEN <<low>>
        ELSE IF high < LengthBase THEN <<LengthBase + low, high>>
        ELSE <<LengthBase + low, LengthBase + (high % LengthBase), high \div LengthBase>>

LengthSize(n) ==
    IF n < LengthBase THEN 1 ELSE IF n < LengthBase * LengthBase THEN 2 ELSE 3

(* A last byte of zero behind others is refused: a length has one encoding.*)
ReadLength(bytes) ==
    LET digit(i) == bytes[i] - LengthBase
        EndsAt(i) == Len(bytes) >= i /\ bytes[i] \in 1 .. LengthBase - 1
    IN  IF bytes = <<>> THEN Fail
        ELSE IF bytes[1] < LengthBase THEN Got(bytes[1], Remaining(bytes, 1))
        ELSE IF EndsAt(2)
        THEN Got(digit(1) + LengthBase * bytes[2], Remaining(bytes, 2))
        ELSE IF EndsAt(3) /\ bytes[2] >= LengthBase
        THEN Got(digit(1) + LengthBase * (digit(2) + LengthBase * bytes[3]),
                 Remaining(bytes, 3))
        ELSE Fail

WriteBlock(block) ==
    WriteFields(block.header, HeaderWrites)
        \o WriteLength(Len(block.transactions))
        \o FlattenSeq([i \in DOMAIN block.transactions |->
                         WriteTransaction(block.transactions[i])])

(* `count` transactions, one after another, or the first failure.          *)
ReadTransactions(bytes, count) ==
    LET read[i \in 0 .. count] ==
            IF i = 0 THEN Got(<<>>, bytes)
            ELSE LET before == read[i - 1]
                     next   == ReadTransaction(before.rest)
                 IN  IF ~before.ok \/ ~next.ok THEN Fail
                     ELSE Got(Append(before.value, next.value), next.rest)
    IN  read[count]

(* The length is refused before anything behind it is read.                *)
ReadBody(bytes) ==
    LET length == ReadLength(bytes)
    IN  IF ~length.ok \/ length.value > MaxTxsDecoded THEN Fail
        ELSE ReadTransactions(length.rest, length.value)

ReadBlock(bytes) ==
    LET header == ReadFields(bytes, HeaderReads)
        body   == ReadBody(header.rest)
    IN  IF ~header.ok \/ ~body.ok THEN Fail
        ELSE Got([header |-> header.value, transactions |-> body.value], body.rest)

BlockSize(block) ==
    LET sum[i \in 0 .. Len(block.transactions)] ==
            IF i = 0 THEN 0 ELSE sum[i - 1] + TransactionSize(block.transactions[i])
    IN  HeaderSize + LengthSize(Len(block.transactions)) + sum[Len(block.transactions)]

WriteSignedBlock(signed) == WriteBlock(signed.block) \o signed.signature

ReadSignedBlock(bytes) ==
    LET block == ReadBlock(bytes)
    IN  IF ~block.ok \/ Len(block.rest) < SignatureLen THEN Fail
        ELSE Got([block     |-> block.value,
                  signature |-> SubSeq(block.rest, 1, SignatureLen)],
                 Remaining(block.rest, SignatureLen))

SignedBlockSize(signed) == BlockSize(signed.block) + SignatureLen

-----------------------------------------------------------------------------
(* decode: one value and nothing behind it.                                *)
Whole(result) == result.ok /\ result.rest = <<>>
===============================================================================
