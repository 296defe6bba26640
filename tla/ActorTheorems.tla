----------------------------- MODULE ActorTheorems ----------------------------
(***************************************************************************)
(* What the handlers of module App leave of an actor's state: the facts    *)
(* that the proofs about one validator and about a roster of them share.   *)
(***************************************************************************)
EXTENDS App, ExecutionTheorems

-----------------------------------------------------------------------------
(* Queues; the elements of one are whatever it holds.                      *)

IsQueue(queue) == queue \in Seq({queue[i] : i \in DOMAIN queue})

Longer(queue, e) == Append(queue, e)

Rest(queue) == Tail(queue)

LEMMA SequenceIsQueue == ASSUME NEW S, NEW q \in Seq(S) PROVE IsQueue(q)
  <1> DEFINE T == {q[i] : i \in DOMAIN q}
  <1>1. Len(q) \in Nat /\ q \in [1 .. Len(q) -> S] /\ DOMAIN q = 1 .. Len(q)
    BY LenProperties
  <1>2. q \in [1 .. Len(q) -> T]
    BY <1>1
  <1> QED BY <1>1, <1>2, SeqDef DEF IsQueue

LEMMA LongerHolds ==
    ASSUME NEW queue, IsQueue(queue), NEW message, NEW longer,
           longer = Longer(queue, message)
    PROVE  /\ IsQueue(longer)
           /\ \A i \in DOMAIN longer :
                 longer[i] = message \/ \E j \in DOMAIN queue : longer[i] = queue[j]
  <1> DEFINE S == {queue[i] : i \in DOMAIN queue} \cup {message}
  <1>1. queue \in Seq(S)
    BY SMT DEF IsQueue
  <1>2. /\ longer \in Seq(S)
        /\ Len(longer) = Len(queue) + 1
        /\ \A i \in 1 .. Len(queue) : longer[i] = queue[i]
        /\ longer[Len(queue) + 1] = message
        /\ Len(queue) \in Nat
    BY <1>1 DEF Longer
  <1>3. DOMAIN longer = 1 .. (Len(queue) + 1) /\ DOMAIN queue = 1 .. Len(queue)
    BY <1>1, <1>2
  <1>4. \A i \in DOMAIN longer :
           longer[i] = message \/ \E j \in DOMAIN queue : longer[i] = queue[j]
    BY <1>2, <1>3
  <1> QED BY <1>2, <1>4, SequenceIsQueue

LEMMA DequeueFacts ==
    ASSUME NEW queue, IsQueue(queue), queue # <<>>, NEW shorter,
           shorter = Rest(queue)
    PROVE  /\ IsQueue(shorter)
           /\ \A i \in DOMAIN shorter : \E j \in DOMAIN queue : shorter[i] = queue[j]
  <1> DEFINE S == {queue[i] : i \in DOMAIN queue}
  <1>1. queue \in Seq(S)
    BY DEF IsQueue
  <1>2. /\ shorter \in Seq(S)
        /\ Len(shorter) = Len(queue) - 1
        /\ \A i \in 1 .. Len(shorter) : shorter[i] = queue[i + 1]
        /\ Len(queue) \in Nat \ {0}
    BY <1>1 DEF Rest
  <1>3. DOMAIN queue = 1 .. Len(queue)
    BY <1>1, LenProperties
  <1>4. IsQueue(shorter)
    BY <1>2, SequenceIsQueue
  <1>5. \A i \in DOMAIN shorter : \E j \in DOMAIN queue : shorter[i] = queue[j]
    <2> SUFFICES ASSUME NEW i \in DOMAIN shorter
                 PROVE  i + 1 \in DOMAIN queue /\ shorter[i] = queue[i + 1]
      OBVIOUS
    <2>1. DOMAIN shorter = 1 .. Len(shorter)
      BY <1>2, LenProperties
    <2> QED BY <1>2, <1>3, <2>1
  <1> QED BY <1>4, <1>5

LEMMA HeadFacts ==
    ASSUME NEW queue, IsQueue(queue), queue # <<>>
    PROVE  \E j \in DOMAIN queue : Head(queue) = queue[j]
  BY HeadTailProperties DEF IsQueue

LEMMA EmptyQueue == IsQueue(<<>>)
  BY EmptySeq, SequenceIsQueue

(* Positions in a queue whose head is taken move up by one.                *)
LEMMA RestFacts ==
    ASSUME NEW queue, IsQueue(queue), queue # <<>>, NEW shorter, shorter = Rest(queue)
    PROVE  /\ IsQueue(shorter)
           /\ 1 \in DOMAIN queue /\ Head(queue) = queue[1]
           /\ \A i \in DOMAIN shorter :
                 i \in Nat \ {0} /\ i + 1 \in DOMAIN queue /\ shorter[i] = queue[i + 1]
  <1> DEFINE S == {queue[i] : i \in DOMAIN queue}
  <1>1. queue \in Seq(S)
    BY DEF IsQueue
  <1>2. IsQueue(shorter)
    BY DequeueFacts
  <1>3. /\ shorter \in Seq(S)
        /\ Len(shorter) = Len(queue) - 1
        /\ \A i \in 1 .. Len(shorter) : shorter[i] = queue[i + 1]
        /\ Len(queue) \in Nat \ {0}
        /\ Head(queue) = queue[1]
    BY <1>1 DEF Rest
  <1>4. DOMAIN queue = 1 .. Len(queue) /\ DOMAIN shorter = 1 .. Len(shorter)
    BY <1>1, <1>3, LenProperties
  <1> QED BY <1>2, <1>3, <1>4

(* A message that is put into a queue comes last.                          *)
LEMMA LongerFacts ==
    ASSUME NEW queue, IsQueue(queue), NEW message, NEW longer,
           longer = Longer(queue, message)
    PROVE  /\ IsQueue(longer)
           /\ Len(queue) \in Nat /\ DOMAIN queue = 1 .. Len(queue)
           /\ \A i : i \in DOMAIN longer <=> i \in DOMAIN queue \/ i = Len(queue) + 1
           /\ \A i \in DOMAIN queue : longer[i] = queue[i]
           /\ longer[Len(queue) + 1] = message
  <1> DEFINE S == {queue[i] : i \in DOMAIN queue} \cup {message}
  <1>1. queue \in Seq(S)
    BY SMT DEF IsQueue
  <1>2. /\ Len(longer) = Len(queue) + 1
        /\ \A i \in 1 .. Len(queue) : longer[i] = queue[i]
        /\ longer[Len(queue) + 1] = message
        /\ Len(queue) \in Nat
        /\ longer \in Seq(S)
    BY <1>1 DEF Longer
  <1>3. DOMAIN longer = 1 .. (Len(queue) + 1) /\ DOMAIN queue = 1 .. Len(queue)
    BY <1>1, <1>2
  <1>4. IsQueue(longer)
    BY <1>2, SequenceIsQueue
  <1> QED BY <1>2, <1>3, <1>4

-----------------------------------------------------------------------------
(* The actor's data.  A block carries the Merkle root of its transactions, *)
(* maps are keyed by digests, no transaction of a stored block is pending  *)
(* in the mempool, the outbound queue is within its capacity.              *)

BlockOk(block) ==
    /\ block = [header |-> block.header, transactions |-> block.transactions]
    /\ TxsOk(block.transactions)
    /\ Len(block.transactions) = 0 => block.transactions = <<>>
    /\ block.header.tx_root = ComputeTxRoot(block.transactions)

Keyed(blocks) == \A d \in DOMAIN blocks : BlockHash(blocks[d]) = d /\ BlockOk(blocks[d])

Forgotten(blocks, pool) ==
    \A d \in DOMAIN blocks : \A i \in DOMAIN blocks[d].transactions :
        TxHash(blocks[d].transactions[i]) \notin DOMAIN pool.txs

OutOk(queue) ==
    /\ IsQueue(queue)
    /\ Len(queue) <= BlocksOutCapacity
    /\ \A i \in DOMAIN queue : BlockOk(queue[i])

ActorShape(a) == DOMAIN a = {"state", "blocks", "mempool", "pending", "blocks_out"}

ActorOk(a) ==
    /\ ActorShape(a)
    /\ AccountsOk(a.state) /\ IsFiniteSet(DOMAIN a.state)
    /\ PoolOk(a.mempool)
    /\ Keyed(a.pending)
    /\ Keyed(a.blocks.blocks)
    /\ Forgotten(a.blocks.blocks, a.mempool)
    /\ OutOk(a.blocks_out)

LEMMA NewBlockOk ==
    ASSUME NEW height, NEW parent, NEW timestamp, NEW proposer,
           NEW body, TxsOk(body), Len(body) = 0 => body = <<>>,
           NEW block, block = NewBlock(height, parent, timestamp, proposer, body)
    PROVE  BlockOk(block)
  BY DEF NewBlock, BlockOk

LEMMA GenesisOk == BlockOk(GenesisBlock) /\ GenesisBlock.transactions = <<>>
  <1>1. /\ GenesisBlock.transactions = <<>>
        /\ GenesisBlock.header.tx_root = ZeroHash
        /\ GenesisBlock = [header |-> GenesisBlock.header,
                           transactions |-> GenesisBlock.transactions]
    BY DEF GenesisBlock
  <1>2. ComputeTxRoot(<<>>) = ZeroHash
    BY DEF ComputeTxRoot
  <1>3. TxsOk(<<>>)
    BY DEF TxsOk, IsList
  <1> QED BY <1>1, <1>2, <1>3 DEF BlockOk

LEMMA BlockHashIsNotZero == \A block : BlockHash(block) # ZeroHash
  BY DEF BlockHash, ZeroHash

LEMMA BindKeyed ==
    ASSUME NEW blocks, Keyed(blocks), NEW block, BlockOk(block)
    PROVE  Keyed(Bind(blocks, BlockHash(block), block))
  BY BindFacts DEF Keyed

LEMMA UnbindKeyed ==
    ASSUME NEW blocks, Keyed(blocks), NEW d PROVE Keyed(Unbind(blocks, d))
  BY UnbindFacts DEF Keyed

LEMMA EmptyKeyed == Keyed(EmptyMap)
  BY EmptyMapFacts DEF Keyed

LEMMA NewAppOk ==
    ASSUME NEW allocations, AllocationsOk(allocations),
           NEW seed_txs, TxsOk(seed_txs),
           NEW a, a = NewApp(allocations, seed_txs)
    PROVE  /\ ActorOk(a)
           /\ \A d : d \notin DOMAIN a.pending
           /\ \A d : d \in DOMAIN a.blocks.blocks => d = GenesisHash
  <1>1. /\ ActorShape(a)
        /\ a.state = GenesisAccounts(allocations)
        /\ a.blocks = StoreInsert(EmptyStore, GenesisBlock)
        /\ a.mempool = SeededPool(seed_txs)
        /\ a.pending = EmptyMap /\ a.blocks_out = <<>>
    BY DEF NewApp, ActorShape
  <1>2. a.blocks.blocks = Bind(EmptyMap, BlockHash(GenesisBlock), GenesisBlock)
    BY <1>1 DEF StoreInsert, EmptyStore
  <1>3. AccountsOk(a.state) /\ IsFiniteSet(DOMAIN a.state)
    BY <1>1, GenesisAccountsOk
  <1>4. PoolOk(a.mempool)
    BY <1>1, SeededPoolOk
  <1>5. Keyed(a.blocks.blocks) /\ Keyed(a.pending)
    BY <1>1, <1>2, GenesisOk, BindKeyed, EmptyKeyed
  <1>6. \A d \in DOMAIN a.blocks.blocks :
           d = GenesisHash /\ a.blocks.blocks[d].transactions = <<>>
    BY <1>2, BindFacts, EmptyMapFacts, GenesisOk DEF GenesisHash
  <1>7. Forgotten(a.blocks.blocks, a.mempool)
    BY <1>6 DEF Forgotten
  <1>8. OutOk(a.blocks_out)
    BY <1>1, EmptyQueue, AppAssumption DEF OutOk
  <1> QED BY <1>1, <1>3, <1>4, <1>5, <1>6, <1>7, <1>8, EmptyMapFacts DEF ActorOk

LEMMA StashOk ==
    ASSUME NEW a, ActorOk(a), NEW block, BlockOk(block), NEW b, b = Stash(a, block)
    PROVE  /\ ActorOk(b) /\ b.blocks = a.blocks /\ b.state = a.state
           /\ b.blocks_out = a.blocks_out
           /\ b.pending = Bind(a.pending, BlockHash(block), block)
           /\ \A d : d \in DOMAIN b.pending
                        <=> d \in DOMAIN a.pending \/ d = BlockHash(block)
  <1>1. /\ ActorShape(b)
        /\ b.pending = Bind(a.pending, BlockHash(block), block)
        /\ b.state = a.state /\ b.blocks = a.blocks /\ b.mempool = a.mempool
        /\ b.blocks_out = a.blocks_out
    BY DEF Stash, ActorOk, ActorShape
  <1>2. Keyed(b.pending)
    BY <1>1, BindKeyed DEF ActorOk
  <1> QED BY <1>1, <1>2, BindFacts DEF ActorOk

(* The mempool forgets the block that is persisted, and remembers no other.*)
LEMMA PersistedOk ==
    ASSUME NEW a, ActorOk(a), NEW block, BlockOk(block), NEW b, b = Persisted(a, block)
    PROVE  /\ ActorOk(b)
           /\ b.state = a.state /\ b.pending = a.pending /\ b.blocks_out = a.blocks_out
           /\ b.blocks = StoreInsert(a.blocks, block)
  <1> DEFINE txs == block.transactions
             d == BlockHash(block)
  <1>1. /\ ActorShape(b)
        /\ b.mempool = PoolRemoveAll(a.mempool, txs)
        /\ b.blocks = StoreInsert(a.blocks, block)
        /\ b.state = a.state /\ b.pending = a.pending /\ b.blocks_out = a.blocks_out
    BY DEF Persisted, ActorOk, ActorShape
  <1>2. b.blocks.blocks = Bind(a.blocks.blocks, d, block)
    BY <1>1 DEF StoreInsert
  <1>3. Keyed(b.blocks.blocks)
    BY <1>2, BindKeyed DEF ActorOk
  <1>4. IsList(txs)
    BY DEF BlockOk, TxsOk
  <1>5. Cleaned(a.mempool, txs, Len(txs), b.mempool)
    BY <1>1, <1>4, RemoveAllFacts
  <1>6. /\ PoolOk(b.mempool)
        /\ \A h : h \in DOMAIN b.mempool.txs <=>
              h \in DOMAIN a.mempool.txs /\ \A k \in 1 .. Len(txs) : h # TxHash(txs[k])
    BY <1>5 DEF Cleaned, ActorOk
  <1>7. Forgotten(b.blocks.blocks, b.mempool)
    <2> SUFFICES ASSUME NEW x \in DOMAIN b.blocks.blocks,
                        NEW i \in DOMAIN b.blocks.blocks[x].transactions
                 PROVE  TxHash(b.blocks.blocks[x].transactions[i]) \notin DOMAIN b.mempool.txs
      BY DEF Forgotten
    <2>1. CASE x = d
      <3>1. b.blocks.blocks[x] = block
        BY <1>2, <2>1, BindFacts
      <3>2. i \in 1 .. Len(txs)
        BY <1>4, <3>1 DEF IsList
      <3> QED BY <1>6, <3>1, <3>2
    <2>2. CASE x # d
      <3>1. x \in DOMAIN a.blocks.blocks /\ b.blocks.blocks[x] = a.blocks.blocks[x]
        BY <1>2, <2>2, BindFacts
      <3>2. TxHash(a.blocks.blocks[x].transactions[i]) \notin DOMAIN a.mempool.txs
        BY <3>1 DEF ActorOk, Forgotten
      <3> QED BY <1>6, <3>1, <3>2
    <2> QED BY <2>1, <2>2
  <1> QED BY <1>1, <1>3, <1>6, <1>7 DEF ActorOk

(* What finalize leaves: nothing is touched when the block is missing, the *)
(* block is taken from `pending` else, and accounts, store and mempool     *)
(* change only when it was committed.                                      *)
LEMMA FinalizeOk ==
    ASSUME NEW a, ActorOk(a), NEW digest, NEW b, b = AfterFinalize(a, digest),
           NEW block, block = a.pending[digest]
    PROVE  /\ ActorOk(b)
           /\ \A d \in DOMAIN a.pending : d # digest => d \in DOMAIN b.pending
           /\ \A d \in DOMAIN b.pending : d \in DOMAIN a.pending /\ b.pending[d] = a.pending[d]
           /\ b.blocks_out = a.blocks_out
           /\ FinalizeOutcome(a, digest) # "committed" =>
                 b.state = a.state /\ b.blocks = a.blocks
           /\ FinalizeOutcome(a, digest) = "committed" =>
                 /\ digest \in DOMAIN a.pending
                 /\ BlockOk(block) /\ BlockHash(block) = digest
                 /\ BlockApplies(a.state, block.transactions)
                 /\ b.state = ApplyBlock(a.state, block.transactions)
                 /\ b.blocks = StoreInsert(a.blocks, block)
  <1>1. CASE FinalizeOutcome(a, digest) = "missing"
    BY <1>1 DEF AfterFinalize
  <1>2. CASE FinalizeOutcome(a, digest) # "missing"
    <2> DEFINE e == Executed(a, digest)
               txs == block.transactions
    <2>1. digest \in DOMAIN a.pending /\ BlockOk(block) /\ BlockHash(block) = digest
      BY <1>2 DEF FinalizeOutcome, ActorOk, Keyed
    <2>2. /\ ActorShape(e)
          /\ e.pending = Unbind(a.pending, digest)
          /\ e.state = ApplyBlock(a.state, txs)
          /\ e.blocks = a.blocks /\ e.mempool = a.mempool /\ e.blocks_out = a.blocks_out
      BY DEF Executed, ActorOk, ActorShape
    <2>3. \/ FinalizeOutcome(a, digest) = "rejected" /\ b = e
             /\ ~BlockApplies(a.state, txs)
          \/ FinalizeOutcome(a, digest) = "committed" /\ b = Persisted(e, block)
             /\ BlockApplies(a.state, txs)
      BY <2>1 DEF AfterFinalize, FinalizeOutcome
    <2> HIDE DEF e, txs
    <2>4. /\ AccountsOk(ApplyBlock(a.state, txs))
          /\ IsFiniteSet(DOMAIN ApplyBlock(a.state, txs))
          /\ ~BlockApplies(a.state, txs) => ApplyBlock(a.state, txs) = a.state
      BY <2>1, RunKeepsAccounts DEF ActorOk, BlockOk, txs
    <2>5. ActorOk(e)
      BY <2>2, <2>4, UnbindKeyed DEF ActorOk
    <2>6. /\ \A d \in DOMAIN a.pending : d # digest => d \in DOMAIN e.pending
          /\ \A d \in DOMAIN e.pending : d \in DOMAIN a.pending /\ e.pending[d] = a.pending[d]
      BY <2>2, UnbindFacts
    <2>7. CASE FinalizeOutcome(a, digest) = "rejected" /\ b = e /\ ~BlockApplies(a.state, txs)
      BY <2>2, <2>4, <2>5, <2>6, <2>7
    <2>8. CASE /\ FinalizeOutcome(a, digest) = "committed" /\ b = Persisted(e, block)
               /\ BlockApplies(a.state, txs)
      <3>1. /\ ActorOk(b)
            /\ b.state = e.state /\ b.pending = e.pending /\ b.blocks_out = e.blocks_out
            /\ b.blocks = StoreInsert(e.blocks, block)
        BY <2>1, <2>5, <2>8, PersistedOk
      <3> QED BY <2>1, <2>2, <2>6, <2>8, <3>1 DEF txs
    <2> QED BY <2>3, <2>7, <2>8
  <1> QED BY <1>1, <1>2

(* A queue with one more element, and one whose head was taken.            *)
LEMMA OutGrows ==
    ASSUME NEW queue, OutOk(queue), ~(Len(queue) >= BlocksOutCapacity),
           NEW block, BlockOk(block), NEW longer, longer = Longer(queue, block)
    PROVE  OutOk(longer)
  <1>1. /\ IsQueue(longer)
        /\ \A i \in DOMAIN longer :
              longer[i] = block \/ \E j \in DOMAIN queue : longer[i] = queue[j]
    BY LongerHolds DEF OutOk
  <1>2. Len(queue) \in Nat /\ Len(longer) = Len(queue) + 1
    BY LenProperties DEF OutOk, IsQueue, Longer
  <1>3. Len(longer) <= BlocksOutCapacity
    BY <1>2, AppAssumption
  <1> QED BY <1>1, <1>3 DEF OutOk

LEMMA OutShrinks ==
    ASSUME NEW queue, OutOk(queue), queue # <<>>, NEW shorter, shorter = Rest(queue)
    PROVE  OutOk(shorter) /\ BlockOk(Head(queue))
  <1>1. /\ IsQueue(shorter)
        /\ \A i \in DOMAIN shorter : \E j \in DOMAIN queue : shorter[i] = queue[j]
    BY DequeueFacts DEF OutOk
  <1>2. \E j \in DOMAIN queue : Head(queue) = queue[j]
    BY HeadFacts DEF OutOk
  <1>3. Len(queue) \in Nat /\ Len(shorter) = Len(queue) - 1
    BY LenProperties, HeadTailProperties DEF OutOk, IsQueue, Rest
  <1>4. Len(shorter) <= BlocksOutCapacity
    BY <1>3, AppAssumption DEF OutOk
  <1> QED BY <1>1, <1>2, <1>4 DEF OutOk

LEMMA BroadcastOk ==
    ASSUME NEW a, ActorOk(a), NEW digest, NEW b, b = AfterBroadcast(a, digest)
    PROVE  /\ ActorOk(b) /\ b.pending = a.pending /\ b.blocks = a.blocks /\ b.state = a.state
           /\ \/ b.blocks_out = a.blocks_out
              \/ /\ digest \in DOMAIN a.pending
                 /\ b.blocks_out = Longer(a.blocks_out, a.pending[digest])
  <1>1. CASE BroadcastOutcome(a, digest) # "queued"
    BY <1>1 DEF AfterBroadcast
  <1>2. CASE BroadcastOutcome(a, digest) = "queued"
    <2>1. digest \in DOMAIN a.pending /\ ~(Len(a.blocks_out) >= BlocksOutCapacity)
      BY <1>2 DEF BroadcastOutcome
    <2>2. /\ ActorShape(b)
          /\ b.blocks_out = Longer(a.blocks_out, a.pending[digest])
          /\ b.pending = a.pending /\ b.blocks = a.blocks /\ b.state = a.state
          /\ b.mempool = a.mempool
      BY <1>2 DEF AfterBroadcast, Longer, ActorOk, ActorShape
    <2>3. OutOk(b.blocks_out)
      BY <2>1, <2>2, OutGrows DEF ActorOk, Keyed
    <2> QED BY <2>1, <2>2, <2>3 DEF ActorOk
  <1> QED BY <1>1, <1>2

(* The node's task takes a block from the outbound queue.                  *)
LEMMA SentOk ==
    ASSUME NEW a, ActorOk(a), a.blocks_out # <<>>,
           NEW b, b = [a EXCEPT !.blocks_out = Rest(a.blocks_out)]
    PROVE  /\ ActorOk(b) /\ BlockOk(Head(a.blocks_out))
           /\ b.pending = a.pending /\ b.blocks = a.blocks /\ b.state = a.state
           /\ b.blocks_out = Rest(a.blocks_out)
  <1>1. /\ ActorShape(b) /\ b.blocks_out = Rest(a.blocks_out)
        /\ b.pending = a.pending /\ b.blocks = a.blocks /\ b.state = a.state
        /\ b.mempool = a.mempool
    BY DEF ActorOk, ActorShape
  <1>2. OutOk(b.blocks_out) /\ BlockOk(Head(a.blocks_out))
    BY <1>1, OutShrinks DEF ActorOk
  <1> QED BY <1>1, <1>2 DEF ActorOk

(* A proposal is a block whose body is a list of transactions.             *)
LEMMA ProposalOk ==
    ASSUME NEW a, ActorOk(a), NEW parent, NEW timestamp, NEW signer,
           NEW block \in Proposals(a, parent, timestamp, signer)
    PROVE  BlockOk(block)
  <1> DEFINE p == BlockByDigest(a, parent)
  <1>1. block \in BuildBlock(p, timestamp, signer, a.mempool, a.state, MaxTxsPerBlock)
    BY DEF Proposals
  <1> HIDE DEF p
  <1>2. PICK body \in Selections(a.mempool, a.state, MaxTxsPerBlock) :
           block = NewBlock(p.header.height + 1, BlockHash(p), timestamp, signer, body)
    BY <1>1 DEF BuildBlock
  <1>3. /\ Indexed(a.mempool) /\ IsFiniteSet(DOMAIN a.mempool.txs)
        /\ HeldOk(a.mempool) /\ NaturalNonces(a.mempool)
        /\ MaxTxsPerBlock \in Nat \ {0}
    BY HeldIsNatural, AppAssumption DEF ActorOk, PoolOk, Bounded
  <1>4. BodyOk(a.mempool, a.state, MaxTxsPerBlock, body)
    BY <1>3, SelectionFacts
  <1>5. TxsOk(body) /\ (Len(body) = 0 => body = <<>>)
    BY <1>3, <1>4, SelectedOk
  <1> QED BY <1>2, <1>5, NewBlockOk


-----------------------------------------------------------------------------
(* Where every block was built by a validator, no transaction is in one    *)
(* twice, and the digest of a block tells what is in it.                   *)

NoRepeats(txs) == txs \in Seq(Range(txs)) /\ Distinct(txs)

Sound(block) == BlockOk(block) /\ NoRepeats(block.transactions)

AllSound(blocks) == \A i \in DOMAIN blocks : Sound(blocks[i])

ActorSound(a) == ActorOk(a) /\ AllSound(a.pending) /\ AllSound(a.blocks_out)

LEMMA SoundIsUnique ==
    ASSUME NEW block, Sound(block), NEW other, Sound(other),
           BlockHash(block) = BlockHash(other)
    PROVE  block = other
  <1>1. block.header = other.header
    BY DEF BlockHash
  <1>2. /\ IsList(block.transactions) /\ IsList(other.transactions)
        /\ ComputeTxRoot(block.transactions) = ComputeTxRoot(other.transactions)
        /\ block = [header |-> block.header, transactions |-> block.transactions]
        /\ other = [header |-> other.header, transactions |-> other.transactions]
    BY <1>1 DEF Sound, BlockOk, TxsOk
  <1>3. block.transactions = other.transactions
    BY <1>2, RootFixesBody DEF Sound, NoRepeats
  <1> QED BY <1>1, <1>2, <1>3

LEMMA AscendingIsDistinct ==
    ASSUME NEW pool, HeldOk(pool), NEW accounts, NEW max_txs, NEW body,
           BodyOk(pool, accounts, max_txs, body)
    PROVE  NoRepeats(body)
  <1>1. IsList(body) /\ \A i \in 1 .. Len(body) : body[i].nonce \in Nat
    BY SelectedOk DEF TxsOk, TxOk
  <1>2. body \in Seq(Range(body))
    <2>1. body \in Seq(Range(pool.txs))
      BY DEF BodyOk, IsSeqOf
    <2>2. IsQueue(body)
      BY <2>1, SequenceIsQueue
    <2> QED BY <2>2 DEF IsQueue, Range
  <1>3. ASSUME NEW i \in 1 .. Len(body), NEW j \in 1 .. Len(body), body[i] = body[j]
        PROVE  i = j
    <2>1. /\ i < j /\ body[i].from = body[j].from => body[i].nonce < body[j].nonce
          /\ j < i /\ body[j].from = body[i].from => body[j].nonce < body[i].nonce
      BY DEF BodyOk
    <2>2. ~(body[i].nonce < body[j].nonce) /\ ~(body[j].nonce < body[i].nonce)
      BY <1>1, <1>3
    <2>3. i \in Nat /\ j \in Nat /\ ~(i < j) /\ ~(j < i)
      BY <1>1, <1>3, <2>1, <2>2 DEF IsList
    <2> QED BY <2>3
  <1> QED BY <1>2, <1>3 DEF NoRepeats, Distinct

LEMMA ProposalSound ==
    ASSUME NEW a, ActorOk(a), NEW parent, NEW timestamp, NEW signer,
           NEW block \in Proposals(a, parent, timestamp, signer)
    PROVE  Sound(block)
  <1>1. BlockOk(block)
    BY ProposalOk
  <1> DEFINE p == BlockByDigest(a, parent)
  <1>2. block \in BuildBlock(p, timestamp, signer, a.mempool, a.state, MaxTxsPerBlock)
    BY DEF Proposals
  <1> HIDE DEF p
  <1>3. PICK body \in Selections(a.mempool, a.state, MaxTxsPerBlock) :
           block = NewBlock(p.header.height + 1, BlockHash(p), timestamp, signer, body)
    BY <1>2 DEF BuildBlock
  <1>4. /\ Indexed(a.mempool) /\ IsFiniteSet(DOMAIN a.mempool.txs)
        /\ HeldOk(a.mempool) /\ NaturalNonces(a.mempool)
        /\ MaxTxsPerBlock \in Nat \ {0}
    BY HeldIsNatural, AppAssumption DEF ActorOk, PoolOk, Bounded
  <1>5. NoRepeats(body)
    BY <1>4, SelectionFacts, AscendingIsDistinct
  <1>6. block.transactions = body
    BY <1>3 DEF NewBlock
  <1> QED BY <1>1, <1>5, <1>6 DEF Sound

LEMMA NewAppSound ==
    ASSUME NEW allocations, AllocationsOk(allocations),
           NEW seed_txs, TxsOk(seed_txs),
           NEW a, a = NewApp(allocations, seed_txs)
    PROVE  ActorSound(a)
  <1>1. ActorOk(a) /\ \A d : d \notin DOMAIN a.pending
    BY NewAppOk
  <1>2. DOMAIN a.blocks_out = {}
    BY DEF NewApp
  <1> QED BY <1>1, <1>2 DEF ActorSound, AllSound

LEMMA StashSound ==
    ASSUME NEW a, ActorSound(a), NEW block, Sound(block), NEW b, b = Stash(a, block)
    PROVE  /\ ActorSound(b) /\ b.blocks = a.blocks /\ b.state = a.state
           /\ \A d : d \in DOMAIN b.pending
                        <=> d \in DOMAIN a.pending \/ d = BlockHash(block)
  <1>1. ActorOk(a) /\ BlockOk(block)
    BY DEF ActorSound, Sound
  <1>2. /\ ActorOk(b) /\ b.blocks = a.blocks /\ b.state = a.state
        /\ b.blocks_out = a.blocks_out
        /\ b.pending = Bind(a.pending, BlockHash(block), block)
        /\ \A d : d \in DOMAIN b.pending
                     <=> d \in DOMAIN a.pending \/ d = BlockHash(block)
    BY <1>1, StashOk
  <1>3. AllSound(b.pending)
    BY <1>2, BindFacts DEF ActorSound, AllSound
  <1> QED BY <1>2, <1>3 DEF ActorSound

LEMMA StoreBlockSound ==
    ASSUME NEW a, ActorSound(a), NEW block, Sound(block),
           NEW b, b = AfterStoreBlock(a, block)
    PROVE  /\ ActorSound(b) /\ b.blocks = a.blocks /\ b.state = a.state
           /\ \A d \in DOMAIN a.pending : d \in DOMAIN b.pending
  <1>1. b = a \/ b = Stash(a, block)
    BY DEF AfterStoreBlock
  <1> QED BY <1>1, StashSound

LEMMA BroadcastSound ==
    ASSUME NEW a, ActorSound(a), NEW digest, NEW b, b = AfterBroadcast(a, digest)
    PROVE  /\ ActorSound(b) /\ b.blocks = a.blocks /\ b.state = a.state
           /\ \A d \in DOMAIN a.pending : d \in DOMAIN b.pending
  <1>1. /\ ActorOk(b) /\ b.pending = a.pending /\ b.blocks = a.blocks /\ b.state = a.state
        /\ \/ b.blocks_out = a.blocks_out
           \/ /\ digest \in DOMAIN a.pending
              /\ b.blocks_out = Longer(a.blocks_out, a.pending[digest])
    BY BroadcastOk DEF ActorSound
  <1>2. AllSound(b.blocks_out)
    <2>1. CASE b.blocks_out = a.blocks_out
      BY <2>1 DEF ActorSound
    <2>2. CASE /\ digest \in DOMAIN a.pending
               /\ b.blocks_out = Longer(a.blocks_out, a.pending[digest])
      <3>1. IsQueue(a.blocks_out)
        BY DEF ActorSound, ActorOk, OutOk
      <3>2. \A i \in DOMAIN b.blocks_out :
               \/ b.blocks_out[i] = a.pending[digest]
               \/ \E j \in DOMAIN a.blocks_out : b.blocks_out[i] = a.blocks_out[j]
        BY <2>2, <3>1, LongerHolds
      <3> QED BY <2>2, <3>2 DEF ActorSound, AllSound
    <2> QED BY <1>1, <2>1, <2>2
  <1> QED BY <1>1, <1>2 DEF ActorSound

LEMMA SentSound ==
    ASSUME NEW a, ActorSound(a), a.blocks_out # <<>>,
           NEW b, b = [a EXCEPT !.blocks_out = Rest(a.blocks_out)]
    PROVE  /\ ActorSound(b) /\ Sound(Head(a.blocks_out))
           /\ b.pending = a.pending /\ b.blocks = a.blocks /\ b.state = a.state
  <1>1. IsQueue(a.blocks_out)
    BY DEF ActorSound, ActorOk, OutOk
  <1>2. /\ ActorOk(b)
        /\ b.pending = a.pending /\ b.blocks = a.blocks /\ b.state = a.state
        /\ b.blocks_out = Rest(a.blocks_out)
    BY SentOk DEF ActorSound
  <1>3. \A i \in DOMAIN b.blocks_out :
           \E j \in DOMAIN a.blocks_out : b.blocks_out[i] = a.blocks_out[j]
    BY <1>1, <1>2, DequeueFacts
  <1>4. \E j \in DOMAIN a.blocks_out : Head(a.blocks_out) = a.blocks_out[j]
    BY <1>1, HeadFacts
  <1> QED BY <1>2, <1>3, <1>4 DEF ActorSound, AllSound

LEMMA FinalizeSound ==
    ASSUME NEW a, ActorSound(a), NEW digest, NEW b, b = AfterFinalize(a, digest)
    PROVE  /\ ActorSound(b)
           /\ \A d \in DOMAIN a.pending : d # digest => d \in DOMAIN b.pending
  <1>1. PICK block : block = a.pending[digest]
    OBVIOUS
  <1>2. /\ ActorOk(b)
        /\ \A d \in DOMAIN a.pending : d # digest => d \in DOMAIN b.pending
        /\ \A d \in DOMAIN b.pending : d \in DOMAIN a.pending /\ b.pending[d] = a.pending[d]
        /\ b.blocks_out = a.blocks_out
    BY <1>1, FinalizeOk DEF ActorSound
  <1> QED BY <1>2 DEF ActorSound, AllSound

-----------------------------------------------------------------------------
(* What a reader of the height index sees of a store.                      *)
Shown(store) ==
    [h \in DOMAIN store.height_index |-> store.blocks[store.height_index[h]]]

LEMMA ShownInsert ==
    ASSUME NEW store,
           \A h \in DOMAIN store.height_index :
               store.height_index[h] \in DOMAIN store.blocks,
           NEW block, BlockHash(block) \notin DOMAIN store.blocks,
           NEW more, more = StoreInsert(store, block)
    PROVE  Shown(more) = Bind(Shown(store), block.header.height, block)
  <1> DEFINE d == BlockHash(block)
             n == block.header.height
  <1>1. /\ more.blocks = Bind(store.blocks, d, block)
        /\ more.height_index = Bind(store.height_index, n, d)
    BY DEF StoreInsert
  <1> HIDE DEF d, n
  <1>2. d \notin DOMAIN store.blocks
    BY DEF d
  <1>3. \A h \in DOMAIN more.height_index :
           more.blocks[more.height_index[h]]
             = IF h = n THEN block ELSE store.blocks[store.height_index[h]]
    <2> TAKE h \in DOMAIN more.height_index
    <2>1. CASE h = n
      BY <1>1, <2>1 DEF Bind
    <2>2. CASE h # n
      <3>1. h \in DOMAIN store.height_index /\ more.height_index[h] = store.height_index[h]
        BY <1>1, <2>2 DEF Bind
      <3>2. store.height_index[h] \in DOMAIN store.blocks /\ store.height_index[h] # d
        BY <1>2, <3>1
      <3> QED BY <1>1, <2>2, <3>1, <3>2 DEF Bind
    <2> QED BY <2>1, <2>2
  <1>4. DOMAIN more.height_index = DOMAIN store.height_index \cup {n}
    BY <1>1 DEF Bind
  <1>5. Shown(more) = [h \in DOMAIN store.height_index \cup {n} |->
                          IF h = n THEN block ELSE store.blocks[store.height_index[h]]]
    BY <1>3, <1>4 DEF Shown
  <1> QED BY <1>5 DEF Bind, Shown, n

===============================================================================
