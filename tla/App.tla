---------------------------------- MODULE App ---------------------------------
(***************************************************************************)
(* The handlers of the application actor, crates/consensus/src/app/        *)
(* actor.rs, as functions of the actor's own state.  An app is a record    *)
(*   state       the StateStore                                            *)
(*   blocks      the BlockStore of finalized blocks                        *)
(*   mempool     the Mempool                                               *)
(*   pending     digest -> block, blocks proposed here or received         *)
(*   blocks_out  the queue of blocks the node is to broadcast              *)
(***************************************************************************)
EXTENDS Builder, BlockStore

CONSTANTS
    MaxTxsPerBlock,     \* MAX_TXS_PER_BLOCK of actor.rs, what a proposal holds
    MaxTxsDecoded,      \* MAX_TXS_PER_BLOCK of block.rs, what decoding accepts
    BlocksOutCapacity,  \* BLOCKS_OUT_CAPACITY
    Undecodable         \* bytes that are no block

ASSUME AppAssumption ==
    /\ MaxTxsPerBlock \in Nat \ {0}
    /\ MaxTxsDecoded \in Nat
    /\ MaxTxsPerBlock <= MaxTxsDecoded
    /\ BlocksOutCapacity \in Nat \ {0}

(* Node::run: credit the genesis allocations in order, store the genesis   *)
(* block, offer the seed transactions to the mempool in order.             *)
NewApp(allocations, seed_txs) ==
    [state      |-> GenesisAccounts(allocations),
     blocks     |-> StoreInsert(EmptyStore, GenesisBlock),
     mempool    |-> SeededPool(seed_txs),
     pending    |-> EmptyMap,
     blocks_out |-> <<>>]

-----------------------------------------------------------------------------
(* block_by_digest: pending first, then the store.                         *)
Knows(app, digest) == digest \in DOMAIN app.pending \/ Stores(app.blocks, digest)

BlockByDigest(app, digest) ==
    IF digest \in DOMAIN app.pending THEN app.pending[digest]
    ELSE app.blocks.blocks[digest]

(* propose: the blocks it may build on `parent`, none when the parent is   *)
(* unknown.  The parent gives the header; mempool and state are the ones   *)
(* of the last finalized block, whatever the parent is.                    *)
Proposals(app, parent, timestamp, signer) ==
    IF ~Knows(app, parent) THEN {}
    ELSE {block \in BuildBlock(BlockByDigest(app, parent), timestamp, signer,
                               app.mempool, app.state, MaxTxsPerBlock) :
            SignedBlockVerifies(SignBlock(block, signer))}

(* Faulty variant: only the latest block is kept.                          *)
StashLatest(app, block) ==
    [app EXCEPT !.pending = Bind(EmptyMap, BlockHash(block), block)]

Stash(app, block) ==
    [app EXCEPT !.pending = Bind(app.pending, BlockHash(block), block)]

(* store_block: bytes that do not decode change nothing.                   *)
Decodes(bytes) ==
    bytes # Undecodable /\ Len(bytes.transactions) <= MaxTxsDecoded

AfterStoreBlock(app, bytes) == IF Decodes(bytes) THEN Stash(app, bytes) ELSE app

-----------------------------------------------------------------------------
(* verify.  The height check is skipped when the parent is unknown, the    *)
(* dry run when the parent is not the tip of the store.                    *)
(* Faulty variant: heights are not compared.                               *)
AnyHeight(app, block, parent) == TRUE

Sequential(app, block, parent) ==
    Knows(app, parent) =>
        block.header.height = BlockByDigest(app, parent).header.height + 1

OnTip(app, parent) == HasTip(app.blocks) /\ BlockHash(TipBlock(app.blocks)) = parent

(* Faulty variant: a block that has not arrived gets the benefit of the    *)
(* doubt.                                                                  *)
VerifyTrusting(app, parent, digest) ==
    digest \in DOMAIN app.pending =>
        LET block == app.pending[digest]
        IN  /\ block.header.parent_hash = parent
            /\ Sequential(app, block, parent)
            /\ OnTip(app, parent) => BlockApplies(app.state, block.transactions)

VerifyAnswer(app, parent, digest) ==
    /\ digest \in DOMAIN app.pending
    /\ LET block == app.pending[digest]
       IN  /\ block.header.parent_hash = parent
           /\ Sequential(app, block, parent)
           /\ OnTip(app, parent) => BlockApplies(app.state, block.transactions)

-----------------------------------------------------------------------------
(* Faulty variant: a certified block counts as executed.                   *)
OutcomeUnchecked(app, digest) ==
    IF digest \notin DOMAIN app.pending THEN "missing" ELSE "committed"

(* finalize.  The block leaves `pending` first; one that then fails to     *)
(* apply is gone from this node, and apply_block has rolled the state back.*)
FinalizeOutcome(app, digest) ==
    IF digest \notin DOMAIN app.pending THEN "missing"
    ELSE IF BlockApplies(app.state, app.pending[digest].transactions)
    THEN "committed" ELSE "rejected"

(* Faulty variant: `pending` is emptied, siblings included.                *)
ExecutedAlone(app, digest) ==
    [app EXCEPT !.pending = EmptyMap,
                !.state   = ApplyBlock(app.state, app.pending[digest].transactions)]

Executed(app, digest) ==
    [app EXCEPT !.pending = Unbind(app.pending, digest),
                !.state   = ApplyBlock(app.state, app.pending[digest].transactions)]

(* Faulty variant: the mempool is left alone.                              *)
PersistedOnly(app, block) ==
    [app EXCEPT !.blocks = StoreInsert(app.blocks, block)]

Persisted(app, block) ==
    [app EXCEPT !.mempool = PoolRemoveAll(app.mempool, block.transactions),
                !.blocks  = StoreInsert(app.blocks, block)]

AfterFinalize(app, digest) ==
    CASE FinalizeOutcome(app, digest) = "missing"   -> app
      [] FinalizeOutcome(app, digest) = "rejected"  -> Executed(app, digest)
      [] FinalizeOutcome(app, digest) = "committed" ->
            Persisted(Executed(app, digest), app.pending[digest])

-----------------------------------------------------------------------------
(* Faulty variant: the queue has no end.                                   *)
BroadcastUnbounded(app, digest) ==
    IF digest \notin DOMAIN app.pending THEN "miss" ELSE "queued"

(* broadcast_block: best effort, dropped if the block is unknown or the    *)
(* outbound queue is full.                                                 *)
BroadcastOutcome(app, digest) ==
    IF digest \notin DOMAIN app.pending THEN "miss"
    ELSE IF Len(app.blocks_out) >= BlocksOutCapacity THEN "full"
    ELSE "queued"

AfterBroadcast(app, digest) ==
    IF BroadcastOutcome(app, digest) = "queued"
    THEN [app EXCEPT !.blocks_out = Append(app.blocks_out, app.pending[digest])]
    ELSE app
===============================================================================
