# nanochain in TLA+

nanochain is a small account-based proof-of-stake chain on top of commonware
Simplex. This directory holds TLA+ specifications of the part of it that is its
own: the mempool, the account state, the block store, the block builder, the
application actor that ties them to consensus, the validators of a devnet
together, and the bytes in which their blocks travel. TLC checks them on small
instances; TLAPS proves the theorems of the `*Proofs` modules for every value of
the constants.

Paths below are relative to `src/`.

## The system

| component | code | state | operations |
|---|---|---|---|
| types | `crates/types` | none | `Block::new`, `hash`, `compute_tx_root`, `Transaction::sign/verify_signature`, `SignedBlock::sign/verify`, `Write`/`Read`/`EncodeSize` of each |
| state store | `crates/storage/src/state.rs` | address -> (balance, nonce) | `credit`, `apply_transaction`, `apply_block` |
| block store | `crates/storage/src/block_store.rs` | hash -> block, height -> hash | `insert`, `get_by_hash`, `get_by_height`, `tip` |
| mempool | `crates/mempool/src/pool.rs` | hash -> transaction, sender -> nonce -> hash | `insert`, `remove`, `pending_from`, `senders` |
| block builder | `crates/consensus/src/builder.rs` | none | `build_block` |
| application actor | `crates/consensus/src/app/actor.rs` | the three stores, `pending`, the queue `blocks_out` | one arm of `run` per message: Genesis, Propose, Verify, Finalize, Broadcast, StoreBlock |
| ingress, reporter | `crates/consensus/src/app/{ingress,reporter}.rs` | the mailbox | each call of the engine, each certificate and each peer block becomes a message |
| node | `crates/node/src/node.rs` | none of its own | seeds genesis, spawns the actor, the engine and the two relay tasks |
| network | `crates/network` | in commonware-p2p | `broadcast`, `recv` of a channel |
| Simplex engine | commonware-consensus, started by `crates/node/src/consensus.rs` | views, votes, certificates, a journal | asks `genesis`, `propose`, `verify`, `broadcast`; reports finalizations |
| devnet binary | `crates/node/src/main.rs` | none | three validators, one funded wallet, one transaction |

How they interact. The engine, the reporter and the task `block_in` enqueue
messages; the actor takes them one at a time, in order, and answers over oneshot
channels. `propose` asks the builder, which reads the mempool and a copy of the
accounts, and stashes the block in `pending`. `verify` looks a block up in
`pending`. `finalize` takes it out of there, applies it, drops its transactions
from the mempool and inserts it into the store. `broadcast_block` puts an encoded
block into the bounded queue that the task `block_out` drains to the network.

What is hard. Handlers are atomic, but what they read is not what the engine knew
when it asked: blocks travel on a channel of their own and come before or after
the vote about them; parents are notarized long before they are finalized, while
state and mempool are those of the last finalized block; a certificate can be
reported twice or stand for ancestors that are never reported; the engine may
have given up before it is answered; queues are bounded; a restarted process has
forgotten everything while its engine and its peers have not; validators start at
different times and a broadcast is sent once. `PROJECT.json` lists these hazards
at the lines where they bite.

What makes each component correct:

- *mempool*: its two indexes agree after every call and implement a bounded set
  with one transaction per sender and nonce;
- *state store*: applying transactions conserves the supply, keeps balances in
  u64, and a block is applied entirely or not at all;
- *builder*: whatever the order of senders and however stale the pool, the
  selected body applies, skips no nonce and leaves no valid sender out of an
  otherwise empty block;
- *block store*: height index and blocks agree, the tip is the last block
  committed;
- *types*: what is broadcast is what is decoded, the announced size is the written
  one, the Merkle root pads every odd layer and tells bodies apart;
- *actor*: it keeps what it voted for until it is finalized; votes only for blocks
  it holds and whose height follows the parent's; the accounts are always what the
  stored chain makes of the genesis allocations; every certificate is handled;
- *devnet*: validators that have handled the same certificates have the same accounts
  and blocks; no two ever store different blocks at one height, whatever certificates
  each has missed; and a certificate stands for a block everybody has at hand.

## Modules

| module | what it is | code |
|---|---|---|
| `HashMaps` | insert into and remove from a map | std maps (external) |
| `ChainTypes` | blocks, transactions, digests, Merkle root, signatures, over ideal hashes | `crates/types` |
| `Codec` | byte layout of transactions, headers, blocks, signed blocks: write, read, size | `crates/types` (`impl Write/Read/EncodeSize`) |
| `BlockTransfer` | state machine: a block is filled, encoded, and its bytes may be damaged | `crates/types`, `broadcast_block`, `store_block` |
| `StateStore` | accounts, `TxApplies`, `ApplyTransaction`, `RunTxs` for the loop with snapshot and rollback | `state.rs` |
| `BlockStore` | the two maps and `TipBlock` | `block_store.rs` |
| `Pool` | the two indexes as a record; insert, remove, queries | `pool.rs` |
| `Builder` | the walk over senders: `Consider` one transaction, `PackSender`, `Pack` | `builder.rs` |
| `App` | every handler of the actor as a function of its state | `actor.rs` |
| `Mempool` | state machine: any sequence of insert and remove | `pool.rs` |
| `MempoolSpec` | abstract: a bounded set of transactions, calls answered with a true reason, "Full" only where no other is true | what `Mempool` implements |
| `BlockProduction` | state machine: pool and accounts between blocks, own and foreign commits | `builder.rs`, `finalize` |
| `Application` | state machine: one validator, its mailbox, the engine and the network around it | `actor.rs`, `ingress.rs`, `reporter.rs`, `node.rs` |
| `Devnet` | state machine: the validators of a roster, each an `App`, votes and certificates among them | `actor.rs`, `node.rs`, `main.rs`, `net.rs` |
| `Ledger` | abstract: an append-only chain and the accounts it makes, begun anew by a restart | what the finalized part of `Application` implements, and each validator of `Devnet` |
| `Loops` | recursive functions as loops over a sequence, induction on their rounds | every `for` of the code |
| `ExecutionTheorems` | lemmas about the maps, the pool, the accounts, the builder and the Merkle root | |
| `ActorTheorems` | lemmas about the handlers of `App` | |
| `MempoolProofs`, `BlockProductionProofs`, `ApplicationProofs`, `DevnetProofs`, `BlockTransferProofs` | the theorems about each state machine | |
| `MC*` | constants and configurations for TLC | |

The pure modules hold the code's functions, so that a state machine's action is one
application of the handler; `App` composes the stores, the mempool and the builder,
`Application` composes `App` with the mailbox, the engine and the relay. `Devnet`
composes several `App`s; it has no mailboxes, because what can wait in a mailbox
can as well wait on its way there, and `Application` covers the order in which one
actor takes what is queued.

Operators that a comment calls a *faulty variant* are not part of the model. Each
is a plausible mistake in the definition that follows it, and substituting it must
break the property that `PROJECT.json` pairs it with under "mutants".

### Representation

- **Digests** are ideal: a digest holds what was hashed. A block's digest holds its
  header only, and the header holds the Merkle root of the body. `Header(d)` reads
  the header back; no code does, it stands for what the engine or a property knows
  of the block behind a digest.
- **Signatures** are ideal too: a signature is a pair of key and payload.
  `NoSignature` is the `None` of the code. `Signed` signs; a transaction altered
  afterwards, signed by somebody else or not at all does not verify. The payload is
  the transaction with the signature taken off, as in `signing_payload`.
- **u64** balances keep a width, `MaxU64`, scaled down. Genesis credits wrap, as the
  unchecked `+=` of a release build does. Nonces and heights do not wrap.
- **HashMap order** in the builder is nondeterministic: every order of the senders.
- **Encoding**: `Codec` and `BlockTransfer` use the real byte widths; a field is the
  sequence of its bytes, and an Option is a sequence of at most one. The length in
  front of the transactions is the library's varint: digits to the base 128
  (`LengthBase`), the lowest first, all but the last byte marked, no superfluous last
  zero. Three bytes (`LengthLimit`) hold more than `MAX_TXS_PER_BLOCK` = 16384;
  longer ones, which the code would refuse as too large, are refused here. Elsewhere a
  block on the wire is the block itself, and decoding is whether it decodes
  (`Decodes`: at most `MaxTxsDecoded` transactions; `Undecodable` stands for bytes
  that are no block). `RoundTrips` and `DecodesOnlyEncodings` justify that.
- In the state machines of the actor a block body matches its header's `tx_root`:
  their blocks come from `Block::new`. The code never compares the two.

### The environment of the actor

Simplex and the network are libraries. `Application` keeps of them what the code
relies on:

- a parent handed to `propose` or `verify` is notarized, and of the decided chain
  only the last block is built on; notarized blocks have notarized parents;
- with `OwnVoteNeeded` a block is notarized only after this validator voted for it.
  This is the devnet: three validators tolerate no fault, so the quorum is all of
  them. Without it the others can outvote or overtake this one;
- what is decided is one chain of notarized blocks, reported in ascending order and
  possibly once more; with `SkipCertificates` a certificate may never be reported
  because a later one stands for it;
- a vote is recorded when the engine still listens for the answer, and not when it
  has given up (`listening`, and the second branch of `HandleVerify`);
- peer blocks arrive late, out of order or never; with `ConformingPeers` FALSE their
  heights, and the parents they claim for a block, are arbitrary, and bytes that do
  not decode arrive too; with `PeersRepeat` a block may be broadcast again, as the
  same block proposed in two views of one second is;
- relayed blocks of this validator reach the others in the order of `blocks_out`;
- at most `MaxRestarts` times the process ends and boots again. `Restart` loses the
  actor's state and the mailbox, since every store of `node.rs` is in memory, and
  queues the seed transactions again. What the validator voted for and what is
  decided stay: the engine keeps them in its journal (`partition` of
  `consensus.rs`) and the others know them. `ReplayJournal` reports decided blocks
  again, a suffix of them and in order, or not at all: `main.rs` leaves the place of
  the journal to the runtime's default, and both a kept and a lost one are covered.
  Blocks on the wire may still arrive. The restarted engine's question for genesis is
  left out, its answer is a constant.

`settled` is a history variable, how `finalize` ended for a digest; a certificate
that is repeated changes it only if the block is committed after all.

`Devnet` keeps the same environment, with the votes counted: a certificate needs
the votes of `Quorum(n)` validators (all but the faults that `n` tolerate: for
three, all three), and a block is sent to those peers that are running when it is
sent, and may never arrive there. Every validator is told of what is decided upwards,
at its own pace. It need not be told of every block: `HandleFinalize` may pass over
any number of certificates, which then never come (`missed`), and may be given the
latest one again. An answer to `propose` may find the engine gone (`listening`).
Which of them leads is left open: anyone may propose at any time on any notarized
block that is not below what it has handled.

Nothing brings a missed block back in this code, so the books of two validators that
missed different certificates differ, and stay different: one holds a block and its
payments, the other has a gap at that height. The properties say no more than is
true. `ReplicasAgree` compares validators that have handled the same certificates;
`StoresNeverFork` and `ReplicasImplementLedger` hold for all: a gap, but never
another block in its place, and accounts that are made by what is stored. The run
`skipped` shows, for one validator, what a gap does to the checks that follow.

**Fairness.** Only weak fairness of `Actor`: `run` is a loop in a task of its own that
handles whatever is in the mailbox, each handler terminates, and each message
enables one arm. Nothing is assumed of the engine or the network. It is
needed by `CertificatesAreHandled` only.

## What TLC checks

| run | question | result |
|---|---|---|
| `mempool` | Do the two indexes agree under every sequence of calls, and implement `MempoolSpec`? | holds |
| `block_production` | Does every selection apply, in nonce order, when the pool goes stale? Is the supply always what genesis gave out? | holds |
| `actor` | A validator whose vote is needed: is what it voted for held, found by `finalize` and by the broadcast; do store, mempool and accounts follow what was committed? | holds |
| `quorum` | The same for a validator that can be outvoted, misses certificates and is restarted at any moment: what still holds? | index, ledger and mempool hygiene hold |
| `votes` | Peers with arbitrary heights, false parents, repeated blocks and garbage: does a vote go to a block one above its parent, and is that parent known when it is given? Are certificates handled? | holds where every vote is needed |
| `block_transfer` | Blocks as broadcast and with one byte lost, added or changed: what decodes, and to what? Is the Merkle root the positional one, and does it tell bodies apart? | holds |
| `devnet` | The three validators and the one payment of `main.rs`, started in any order, each missing or repeating certificates: do those that handled the same ones agree, can two stores fork, is what is decided at hand everywhere, is each a ledger? | holds |
| `halt` | `actor.rs:136`, `node.rs:48`: when everybody has handled what is decided, can a next block be built? | violated |
| `reward` | `builder.rs:42`: is the proposer rewarded? | violated |
| `stale_nonce` | `builder.rs:33`: after a failure, are later nonces of a sender unusable? | violated |
| `unknown_parent` | `actor.rs:160`: is a height sequential whenever a vote is given? | violated when the quorum does not need this validator |
| `skipped` | `actor.rs:161`: is the state at the tip the state of the tip's whole ancestry? | violated when a certificate is skipped |

What the violations mean:

- **halt.** The engine may ask for a block on top of one that is notarized but
  not finalized. `propose` takes height and hash from it, but transactions and
  accounts from the last finalized block, so the child repeats the parent's
  transactions. `verify` cannot dry-run it (the parent is not the tip), so it is
  voted for, and both are decided. The child's nonces are spent, `apply_block`
  refuses, and the block has already left `pending` everywhere. Every validator is
  then asked to build on a block that none knows, and `propose` fails, for ever.
  One queued payment and two validators are enough.
  The books stay consistent all the while (`ReplicasImplementLedger` and
  `ReplicasAgree` hold).
- **reward.** No code pays a proposer; the comment describes something that is not
  there.
- **stale_nonce.** A rival transaction with the same nonce, committed by another
  proposer, leaves the first pending one stale for ever. Nothing prunes it, and it
  stops the walk in front of transactions that would apply.
- **unknown_parent.** With a quorum that does not need this validator, a parent can
  be notarized before its block arrives here. `verify` then skips the height check.
  `VotedSequential` looks at the votes from any later state, when the parent may
  have arrived; `VotesSequential` of the run `votes` looks at each vote as it is
  given.
- **skipped.** Without its ancestor's certificate, a descendant is applied to a state
  that lacks the ancestor, becomes the tip, and is what `verify` dry-runs against.

### Bounds

- `mempool`: two senders, capacity 3, transactions that conflict in a nonce, repeat,
  carry no signature, one over other contents, another sender's, or no amount. Every
  refusal is reached; capacity is below the number of admissible transactions, so
  the pool fills.
- `block_production`: three accounts, capacity 4, blocks of two, `MaxU64` 4 with a
  supply that lets a recipient overflow, and genesis balances credited in two parts,
  one of which wraps; foreign bodies spend nonces and balances of
  pooled transactions, and fail to apply, one of them only at its second transaction.
- `Application` runs: height at most 2, two blocks on the wire, two messages waiting, a
  broadcast queue of one. Height 2 is the least at which a block builds on a block
  that is not final, so pipelining, skipped ancestors and unknown parents occur; two
  blocks give siblings as well as a chain; two messages give every order of a
  question and a delivery or a certificate; one place fills the queue. `MaxHeight`,
  `MaxBlocks` and `MaxMailbox` are named in the guards of the environment's actions.
  The code's mailbox is unbounded; the bound only delays the environment.
  `quorum` has one restart (`MaxRestarts`), at any point of a run that goes on
  afterwards; more are not checked.
- `block_transfer`: five transactions, one of them unsigned, and `MaxTxs` 5, so that
  layers are odd at the leaves (1, 3, 5) and above them (5 leaves, 3 nodes);
  `MaxTxsDecoded` 4 lies between. `LengthBase` is 2, so that the lengths 0 to 5 take
  one, two and three bytes; the proofs are for every base from 2 up. One change (`MaxDamage`) to one byte or to the
  length, in blocks of up to two transactions (`MaxDamagedTxs`), reaches every field,
  tag and length; new bytes are 0 and 1, the two valid tags, and the marked zero of a
  length.
- `devnet`: three validators, the wallet and the payment of `main.rs`, height 2 and two
  blocks (`MaxHeight`, `MaxBlocks`), which give a pipelined child, a sibling at one
  height, a validator that starts after either was sent, and one that misses the first
  certificate and handles the second (319,209 states). Validators are
  interchangeable, hence the symmetry set; no property names one. `halt` has two
  validators, which is enough, and no symmetry.
- Digests make states heavy, so `votes` runs with empty bodies: what a block
  contains plays no part in its two properties but for the refused parent, which
  needs a transaction that cannot be applied; the theorem covers it. `quorum` uses
  one foreign body. Only `votes` has `PeersRepeat`: in `actor` and `quorum` it
  multiplies the states beyond what TLC visits in minutes. The theorems are proved
  for either value.

Deadlock is checked in the runs of `Mempool`, `BlockProduction` and `Application`:
the environment can always go on. In `devnet`, `halt` and `block_transfer` the
bounds stop the system (all blocks built and decided, the damage done), so it is not.

## What TLAPS proves

Every theorem is about the specification that TLC runs, for all values of the
constants that its hypotheses and the named assumptions allow: any number of
accounts and transactions, chains and mailboxes of any length.

### Loops

The code's `for` loops are recursive functions here. An instance of `Loops` names
what one round does; `AfterNone` and `AfterNext` say what the recursive function is
at 0 and at n + 1, and `BoundedInduction` says that a set of rounds that holds 0 and
is closed under the next holds them all. With them `ExecutionTheorems` proves what
the loops do:

- `apply_block` either runs every transaction or leaves the accounts alone, keeps
  balances in u64, and spends each sender's nonces one by one;
- the walk of the builder, in every order of the senders, ends with a body that runs
  on the accounts, within the cap, of prefixes of what each sender has pending;
- removing a block's transactions leaves exactly the others in the pool, and both
  indexes in step;
- `RootFixesBody`: by induction on the layers, two lists without repetition that have
  the same Merkle root are the same list.

### Mempool (`MempoolProofs`)

- `TypeCorrect`: the pool stays within its capacity and holds only transactions
  handed in;
- `IndexesInLockstep`: the two indexes agree;
- `QueriesAreFaithful`: `pending_from` answers a sender's transactions in nonce order,
  all of them, and `senders` those that have any;
- `Refinement`: `Mempool` implements `MempoolSpec`.

The invariant is `IInv == TypeOK /\ Lockstep`. The two need each other: `remove` looks
a transaction up by hash and then edits the nonce index under that transaction's
sender and nonce, which is the right entry only when the indexes agreed before, and
`insert` compares a cardinality that `TypeOK` says is a number. The refinement maps
the pool to the set of transactions under its hashes; `HeldFacts` shows the map from
hashes is a bijection (hashes are injective), so the capacity means the same for both.

### Block production (`BlockProductionProofs`)

For every genesis, every set of foreign bodies and every cap: `TypeCorrect` (balances
stay in u64), `SupplyIsConserved`, `SelectionsApply`, `SelectionsTakePrefixes`,
`EmptyOnlyWhenNothingApplies`. The invariant is that the pool's indexes agree and the
accounts are a finite map to u64 balances. For the supply, the sum over the accounts
is split at the sender and the recipient (`SupplyAfterBind`): a transfer takes from one
what it gives the other, a transfer to oneself changes nothing, and a new account
starts at zero. What the supply is at genesis is a definition of its own (`Allocated`, the
sum for each address): `GenesisIsAllocated` shows, credit by credit, that wrapping at
every one and wrapping the sum come to the same (`ModuloOfSum`).

### One validator (`ApplicationProofs`)

Whatever the quorum, the peers and the number of restarts, by `ShapeInv` (each part of
the actor, of the mailbox and of the network is what the handlers expect):

- `TypeCorrect`;
- `BroadcastsFindTheirBlocks`: the broadcast of an own proposal finds its block, unless
  the decision on it was handled already. `ShapeInv` says that each waiting Broadcast
  names a block in `pending` or a settled one (`Found`);
- `PoolForgets`: no transaction of a stored block is in the mempool.

As long as the process is not restarted (`MaxRestarts = 0`; a restart forgets
`pending`, and these properties are then false), by `IInv`:

- `VotedBlocksAreHeld`: a block this validator voted for is in `pending` until its
  finalization was handled;
- `CertifiedBlocksAreFound`: where every vote is needed (`OwnVoteNeeded`), `finalize`
  never finds the block of a first certificate missing;
- `VotesAreSequential`: where every vote is needed, each vote is for a block one above
  its parent, whatever heights and parents the peers claim and however often they
  send a block. The one parent that `verify` may fail to know is a block that was
  decided and could not be applied.

The second needs a chain of reasons: what is decided was notarized
(`DecidedNotarized`), what was notarized was voted for or is genesis
(`NotarizedVoted`), genesis has no notarized parent so it is never decided again, so
each waiting Finalize names a digest that was voted for or is settled
(`CertifiedVoted`), and the first theorem supplies the block.

The third follows the parent instead, by `VoteInv`: the parent that a waiting Propose
or Verify names is notarized (`ParentsOk`), so it was voted for here, so it is in
`pending` or was settled; not as missing, by the second theorem; if as committed, it is
in the store (`OutcomesOk`). What is left is a refused parent. The invariant
`VotedSequential`, which asks the same of all earlier votes in every state, is not true
in general: a refused block that is built again in the same second comes back into
`pending` after its child was voted for. The height check is about the moment of the
vote, and so is the action property.

As long as peers number their blocks one above the parent (`ConformingPeers`), for any
quorum, any number of skipped or repeated certificates and of restarts:

- `StoreStaysIndexed`: the two maps of the block store agree, and no finalized block
  is overwritten by another one at its height;
- `StoreIsWhatWasCommitted`: the store holds genesis and what was committed since the
  last start, and its tip is the last of that;
- `FinalizedIsALedger`: the finalized part implements `Ledger`.

`insert` overwrites whatever a height led to, so the first rests on the whole way of a
block, in `IndexInv`: every block that is proposed, sent, received or pending is one
above its parent (`BlocksLinked`), so the i-th decided block has height i - 1
(`DecidedLinked`), and two decided blocks of one height are one. Only decided blocks
are reported, and genesis is answered once, before anything is decided
(`MailInOrder`). `CommitInv` adds that first certificates wait in the order of the
chain, that what is stored was committed, and that what was committed has spent its
nonces. The last conjunct is what a repeated certificate needs. `finalize` does not
notice a repetition: if a block with the digest has come back into `pending`, it is
applied again. A digest covers the header only, but the block has the body of the
stored one (`RootFixesBody`), and its first transaction cannot run twice, so only an
empty block is committed again, and that changes nothing.

### The roster (`DevnetProofs`)

For a roster of any size and its quorum, whatever certificates each validator misses or
is told twice:

- `TypeCorrect`: u64 balances, bounded pools and queues, maps keyed by digest, votes
  only for what was proposed, by `ShapeInv`;
- `ChainsNeverFork`: no two stores hold different blocks at one height;
- `ReplicasAreLedgers`: each validator implements `Ledger`, without restarts.

Every block is built one above its parent (`ProposedLinked`), so the i-th decided block
has height i - 1 (`DecidedChain`); that is `ChainInv`. `StoreInv` says of each store that
it holds, at each height, the block that was decided for it, none above what was handled
(`StoreFollows`), and that the block handled last either is not stored or changes nothing
when it is committed again. Two stores with a block at one height then have the same block, since a
digest fixes the body of every block that a validator built (they hold no transaction
twice, and `RootFixesBody` applies); and a certificate that commits something commits it
above all that is stored, which is a step of the ledger.

For every roster of up to three validators, whenever each is started, whatever is lost
and whatever certificates are missed or repeated:

- `DecidedBlocksAreHeld`: a validator that has not handled a decided block, or missed
  its certificate, has it in `pending`;
- `ReplicasStayEqual`: validators that have handled the same certificates have the same
  accounts and the same store.

Three votes of three are needed (`QuorumIsEverybody`), so a notarized block was
voted for by all (`VotedByAll`); who voted held the block (`VotedHeld`) and loses it
only by handling its finalization; and heights tell the decided blocks apart, so it
was not an earlier one that was handled: that is `HeldInv`. `ReplicaInv` then says that
accounts and store are `Replay(Seen(decided, missed[v]), handled[v])`: what the decided
blocks make of genesis, those left out whose certificates were missed. That is a
function of the certificates alone, so equal certificates mean equal books. With a
smaller quorum a validator may be told of a block it does not have, `finalize` then
drops the certificate, and neither result is true.

### Bytes (`BlockTransferProofs`)

For blocks of any well-formed transactions, signed or not, as many as a length of three
bytes counts (`LengthBase`^3 - 1, at the base 128 two million; the builder takes 1024
and the decoder 16384), and any damage:

- `EveryBlockRoundTrips`: what `broadcast_block` encodes decodes to the block, alone and
  with a signature, and is refused when it is above the decoding limit;
- `AnnouncedSizesAreExact`: `encode_size` is the number of bytes written;
- `OnlyEncodingsDecode`: what decodes is the encoding of what it decodes to;
- `HeaderCommitsToBody`: of the bodies without repetition, no two have one root;
- `RootFollowsPositions`: the loop over layers computes the root of the tree that is
  defined by positions.

The fields of a record, the transactions of a block and the sum of their sizes are
loops; a length is three digits at most. Each reader is shown to take back what its writer put in front of anything
(`FieldsAreRead`, `TransactionIsRead`, `LengthIsRead`, `BodyIsRead`, `BlockIsRead`), and what each reader
accepts to be its writer's output in front of what it left (`FieldsAreWritten`,
`TransactionIsWritten`, `LengthIsWritten`, `BodyIsWritten`, `BlockIsDecoded`). `TransferInv` says that the
block is well-formed and that undamaged bytes are its encoding.

For `RootFollowsPositions`, the layer after k rounds shows the nodes of level k, in order
(`LayersShowTree`): a level has as many nodes as half of the one below, rounded up
(`CeilingHalves`), its last node has one child or two as the level below is odd or even,
and the first level with one node is the root's (`DepthFacts`). The code stops there;
the recursive function goes on, and a layer of one digest stays what it is
(`LayerStays`).

`HeaderCommitsToBody` is about bodies without a repeated transaction. Because an odd
layer repeats its last digest, `[a,b,c]` and `[a,b,c,c]` have one root; the second
body cannot be applied, its nonce is spent by the third transaction.

### Assumptions

Those that the modules state about their constants, which TLC evaluates in every run:
capacities are numbers and block caps positive (`CapacityAssumption`,
`MaxTxsAssumption`, `AppAssumption`), transactions have numbers for amounts and nonces
(`TxsAssumption`, `BodiesAssumption`, `SeedTxsAssumption`), genesis balances are u64
(`AllocationsAssumption`), fields have their widths (`FieldsAssumption`),
lengths have digits to a base of at least 2 and the numbers of transactions that are
built or decoded fit one (`LengthAssumption`, `BodyLengthAssumption`), the roster is finite (`DevnetAssumption`). The hypotheses
of a theorem (`OwnVoteNeeded`, `ConformingPeers`, `MaxRestarts = 0`, at most three
validators) are those under which its property is true: the runs `quorum`, `votes` and
`actor` differ in exactly these.

### Only model-checked

- `CertificatesAreHandled`, the liveness property: it rests on fairness and on a message
  moving up the mailbox, and the provers reach neither.

All other properties of the passing runs are proved. The five violations are TLC's, as
counterexamples are.

## Plan

1. Done: the pure modules, `Mempool`, `BlockProduction`, `Application` with restarts,
   `Devnet`, `BlockTransfer`, the abstract `MempoolSpec` and `Ledger`.
2. Done: every invariant, action property and refinement of the passing runs is proved.
3. Open: a roster of four or more, whose quorum is smaller than the roster. The results
   that hold there (`ChainsNeverFork`, `ReplicasAreLedgers`) are proved; TLC has checked
   them with three validators only, and for one validator in the run `quorum`.

## Not modelled

- The serde bridges of `crates/types`: pure conversions that only tests use.
- Simplex itself, peer discovery, rate limits, signature schemes: libraries.
- Timeouts and tuning values: the engine's choices are nondeterministic here, so every
  timing is covered.
- Consensus messages on their three channels and their quotas: the engine's traffic.
- The key that signs blocks is drawn afresh by `main.rs` at every start; here it stays
  the same, which only makes more digests coincide.
- Argument parsing, logging, `src/main.rs`.
- Heights, nonces and timestamps near 2^64.
