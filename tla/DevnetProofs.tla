------------------------------ MODULE DevnetProofs ----------------------------
(***************************************************************************)
(* Results about a roster, for every genesis, bound and set of seeded      *)
(* transactions, whenever each validator is started, whatever is lost      *)
(* between them and whichever certificates each of them misses or is told  *)
(* twice.                                                                  *)
(*                                                                         *)
(* Whatever the size of the roster, votes are for blocks that were built,  *)
(* certificates for blocks that were voted for, the decided chain is made  *)
(* of certificates, and every block anywhere is one that some validator    *)
(* built (ShapeInv).  The decided chain has one block per height           *)
(* (ChainInv), and what a validator stores are blocks of that chain, none  *)
(* above the place it has got to (StoreInv).  So each validator is a       *)
(* ledger, and no two stores show different blocks at one height.          *)
(*                                                                         *)
(* A roster of up to three tolerates no fault, so a certificate takes      *)
(* every vote, and every validator has at hand what is decided and what it *)
(* has not handled (HeldInv).  What a validator's accounts and store are   *)
(* is then a function of the certificates it has handled (ReplicaInv).     *)
(***************************************************************************)
EXTENDS Devnet, ActorTheorems

Actors ==
    /\ DOMAIN app = Validators
    /\ \A v \in Validators : ActorSound(app[v])

Flights ==
    /\ DOMAIN inflight = Validators
    /\ \A v \in Validators : \A block \in inflight[v] : Sound(block)

Votes ==
    /\ DOMAIN relay = Validators /\ DOMAIN voted = Validators
    /\ \A v \in Validators : relay[v] \subseteq voted[v] /\ voted[v] \subseteq proposed

Certificates ==
    /\ notarized \subseteq proposed \cup {GenesisHash}
    /\ decided \in Seq(notarized)
    /\ DOMAIN handled = Validators /\ DOMAIN missed = Validators
    /\ \A v \in Validators :
          handled[v] \in 1 .. Len(decided) /\ missed[v] \subseteq 2 .. handled[v] - 1

ShapeInv ==
    /\ up \subseteq Validators
    /\ Actors
    /\ Flights
    /\ Votes
    /\ Certificates

-----------------------------------------------------------------------------
(* The shape of the roster's state.                                        *)

LEMMA ActorStep ==
    ASSUME Actors, NEW v \in Validators, NEW a, ActorSound(a),
           app' = [app EXCEPT ![v] = a]
    PROVE  Actors'
  BY DEF Actors

LEMMA BootKeepsShape ==
    ASSUME ShapeInv, NEW v \in Validators, Boot(v) PROVE ShapeInv'
  BY DEF ShapeInv, Boot, Actors, Flights, Votes, Certificates, consensus_vars, place_vars

LEMMA ProposeKeepsShape ==
    ASSUME ShapeInv, NEW v \in Validators, HandlePropose(v) PROVE ShapeInv'
  <1>0. PICK parent \in ParentsFrom(handled[v]), timestamp \in Timestamps :
          \E block \in Proposals(app[v], parent, timestamp, v), listening \in BOOLEAN :
           /\ app' = [app EXCEPT ![v] = Stash(app[v], block)]
           /\ relay' = [relay EXCEPT ![v] = WithAnswer(relay[v], block, listening)]
           /\ voted' = [voted EXCEPT ![v] = WithAnswer(voted[v], block, listening)]
           /\ proposed' = proposed \cup {BlockHash(block)}
           /\ UNCHANGED <<up, inflight, notarized, decided, handled, missed>>
    BY DEF HandlePropose, place_vars
  <1>1. PICK block \in Proposals(app[v], parent, timestamp, v), listening \in BOOLEAN :
           /\ app' = [app EXCEPT ![v] = Stash(app[v], block)]
           /\ relay' = [relay EXCEPT ![v] = WithAnswer(relay[v], block, listening)]
           /\ voted' = [voted EXCEPT ![v] = WithAnswer(voted[v], block, listening)]
           /\ proposed' = proposed \cup {BlockHash(block)}
           /\ UNCHANGED <<up, inflight, notarized, decided, handled, missed>>
    BY <1>0
  <1> DEFINE a == Stash(app[v], block)
             d == BlockHash(block)
  <1>2. ActorSound(a)
    <2>1. ActorSound(app[v]) /\ ActorOk(app[v])
      BY DEF ShapeInv, Actors, ActorSound
    <2>2. Sound(block)
      BY <2>1, ProposalSound
    <2> QED BY <2>1, <2>2, StashSound
  <1>3. /\ app' = [app EXCEPT ![v] = a]
        /\ \/ relay' = [relay EXCEPT ![v] = relay[v] \cup {d}]
              /\ voted' = [voted EXCEPT ![v] = voted[v] \cup {d}]
           \/ relay' = [relay EXCEPT ![v] = relay[v]]
              /\ voted' = [voted EXCEPT ![v] = voted[v]]
        /\ proposed' = proposed \cup {d}
    BY <1>1 DEF WithAnswer
  <1> HIDE DEF a, d
  <1>4. Actors'
    BY <1>2, <1>3, ActorStep DEF ShapeInv
  <1>5. Votes'
    BY <1>3 DEF ShapeInv, Votes
  <1>6. Flights' /\ Certificates'
    BY <1>1, <1>3 DEF ShapeInv, Flights, Certificates
  <1> QED BY <1>1, <1>4, <1>5, <1>6 DEF ShapeInv

LEMMA VerifyKeepsShape ==
    ASSUME ShapeInv, NEW v \in Validators, HandleVerify(v) PROVE ShapeInv'
  <1>1. PICK digest \in proposed :
           /\ voted' = [voted EXCEPT ![v] = voted[v] \cup {digest}]
           /\ UNCHANGED <<up, app, inflight, relay, handled, missed, proposed, notarized, decided>>
    BY DEF HandleVerify, consensus_vars, place_vars
  <1>2. Votes'
    BY <1>1 DEF ShapeInv, Votes
  <1> QED BY <1>1, <1>2 DEF ShapeInv, Actors, Flights, Certificates

LEMMA BroadcastKeepsShape ==
    ASSUME ShapeInv, NEW v \in Validators, HandleBroadcast(v) PROVE ShapeInv'
  <1>1. PICK digest \in relay[v] :
           /\ app' = [app EXCEPT ![v] = AfterBroadcast(app[v], digest)]
           /\ relay' = [relay EXCEPT ![v] = relay[v] \ {digest}]
           /\ UNCHANGED <<up, inflight, voted, handled, missed, proposed, notarized, decided>>
    BY DEF HandleBroadcast, consensus_vars, place_vars
  <1>2. ActorSound(app[v])
    BY DEF ShapeInv, Actors
  <1>3. ActorSound(AfterBroadcast(app[v], digest))
    BY <1>2, BroadcastSound
  <1>4. Actors'
    BY <1>1, <1>3, ActorStep DEF ShapeInv
  <1>5. Votes'
    BY <1>1 DEF ShapeInv, Votes
  <1> QED BY <1>1, <1>4, <1>5 DEF ShapeInv, Flights, Certificates

LEMMA SendKeepsShape ==
    ASSUME ShapeInv, NEW v \in Validators, SendBlock(v) PROVE ShapeInv'
  <1> DEFINE a == [app[v] EXCEPT !.blocks_out = Rest(app[v].blocks_out)]
             sent == Head(app[v].blocks_out)
  <1>1. /\ app[v].blocks_out # <<>>
        /\ app' = [app EXCEPT ![v] = a]
        /\ inflight' = [w \in Validators |->
                          IF w \in Connected(v) THEN inflight[w] \cup {sent} ELSE inflight[w]]
        /\ UNCHANGED <<up, relay, voted, handled, missed, proposed, notarized, decided>>
    BY DEF SendBlock, Rest, consensus_vars, place_vars
  <1>2. ActorSound(app[v])
    BY DEF ShapeInv, Actors
  <1>3. ActorSound(a) /\ Sound(sent)
    BY <1>1, <1>2, SentSound
  <1> HIDE DEF a, sent
  <1>4. Actors'
    BY <1>1, <1>3, ActorStep DEF ShapeInv
  <1>5. Flights'
    BY <1>1, <1>3 DEF ShapeInv, Flights
  <1> QED BY <1>1, <1>4, <1>5 DEF ShapeInv, Votes, Certificates

LEMMA ReceiveKeepsShape ==
    ASSUME ShapeInv, NEW v \in Validators, ReceiveBlock(v) PROVE ShapeInv'
  <1>1. PICK block \in inflight[v] :
           /\ app' = [app EXCEPT ![v] = AfterStoreBlock(app[v], block)]
           /\ inflight' = [inflight EXCEPT ![v] = inflight[v] \ {block}]
           /\ UNCHANGED <<up, relay, voted, handled, missed, proposed, notarized, decided>>
    BY DEF ReceiveBlock, consensus_vars, place_vars
  <1>2. ActorSound(app[v]) /\ Sound(block)
    BY DEF ShapeInv, Actors, Flights
  <1>3. ActorSound(AfterStoreBlock(app[v], block))
    BY <1>2, StoreBlockSound
  <1>4. Actors'
    BY <1>1, <1>3, ActorStep DEF ShapeInv
  <1>5. Flights'
    BY <1>1 DEF ShapeInv, Flights
  <1> QED BY <1>1, <1>4, <1>5 DEF ShapeInv, Votes, Certificates

LEMMA FinalizeKeepsShape ==
    ASSUME ShapeInv, NEW v \in Validators, HandleFinalize(v) PROVE ShapeInv'
  <1>1. PICK i \in handled[v] .. Len(decided) :
           /\ i > 1
           /\ app' = [app EXCEPT ![v] = AfterFinalize(app[v], decided[i])]
           /\ handled' = [handled EXCEPT ![v] = i]
           /\ missed' = [missed EXCEPT ![v] = missed[v] \cup (handled[v] + 1 .. i - 1)]
           /\ UNCHANGED <<up, inflight, relay, voted, proposed, notarized, decided>>
    BY DEF HandleFinalize, consensus_vars
  <1>2. ActorSound(app[v])
    BY DEF ShapeInv, Actors
  <1>3. ActorSound(AfterFinalize(app[v], decided[i]))
    BY <1>2, FinalizeSound
  <1>4. Actors'
    BY <1>1, <1>3, ActorStep DEF ShapeInv
  <1>5. Certificates'
    <2>1. /\ Len(decided) \in Nat /\ handled[v] \in 1 .. Len(decided)
          /\ missed[v] \subseteq 2 .. handled[v] - 1
      BY LenProperties DEF ShapeInv, Certificates
    <2>2. i \in 1 .. Len(decided)
      BY <1>1, <2>1
    <2>3. missed[v] \cup (handled[v] + 1 .. i - 1) \subseteq 2 .. i - 1
      BY <1>1, <2>1
    <2> QED BY <1>1, <2>2, <2>3 DEF ShapeInv, Certificates
  <1> QED BY <1>1, <1>4, <1>5 DEF ShapeInv, Flights, Votes

LEMMA NotarizeKeepsShape == ASSUME ShapeInv, Notarize PROVE ShapeInv'
  <1>1. PICK digest \in proposed :
           /\ notarized' = notarized \cup {digest}
           /\ UNCHANGED <<up, app, inflight, relay, voted, proposed, decided, handled, missed>>
    BY DEF Notarize, place_vars
  <1>2. decided \in Seq(notarized')
    BY <1>1, SeqMonotonic DEF ShapeInv, Certificates
  <1> QED BY <1>1, <1>2 DEF ShapeInv, Actors, Flights, Votes, Certificates

LEMMA DecideKeepsShape == ASSUME ShapeInv, Decide PROVE ShapeInv'
  <1>1. PICK digest \in notarized :
           /\ decided' = Append(decided, digest)
           /\ UNCHANGED <<up, app, inflight, relay, voted, proposed, notarized, handled, missed>>
    BY DEF Decide, place_vars
  <1>2. decided \in Seq(notarized)
    BY DEF ShapeInv, Certificates
  <1>3. /\ decided' \in Seq(notarized)
        /\ Len(decided') = Len(decided) + 1 /\ Len(decided) \in Nat
    BY <1>1, <1>2, AppendProperties, LenProperties
  <1>4. Certificates'
    BY <1>1, <1>3 DEF ShapeInv, Certificates
  <1> QED BY <1>1, <1>4 DEF ShapeInv, Actors, Flights, Votes

LEMMA AllocationsAreOk == AllocationsOk(Allocations)
  <1>1. IsList(Allocations)
    BY AllocationsAssumption DEF IsList
  <1>2. \A i \in 1 .. Len(Allocations) : Allocations[i][2] \in Nat
    BY <1>1, AllocationsAssumption, MaxU64Assumption DEF IsList
  <1> QED BY <1>1, <1>2 DEF AllocationsOk

LEMMA SeedTxsAreOk == TxsOk(SeedTxs)
  <1>1. IsList(SeedTxs)
    BY SeedTxsAssumption, LenProperties DEF IsList
  <1> QED BY <1>1, SeedTxsAssumption DEF TxsOk, TxOk, IsList

LEMMA InitEstablishesShape == Init => ShapeInv
  <1> SUFFICES ASSUME Init PROVE ShapeInv
    OBVIOUS
  <1> DEFINE a == NewApp(Allocations, SeedTxs)
  <1>1. ActorSound(a)
    BY AllocationsAreOk, SeedTxsAreOk, NewAppSound
  <1>2. /\ up = {}
        /\ app = [v \in Validators |-> a]
        /\ inflight = [v \in Validators |-> {}]
        /\ relay = [v \in Validators |-> {}]
        /\ voted = [v \in Validators |-> {}]
        /\ handled = [v \in Validators |-> 1] /\ missed = [v \in Validators |-> {}]
        /\ notarized = {GenesisHash} /\ decided = <<GenesisHash>>
    BY DEF Init, Everywhere
  <1> HIDE DEF a
  <1>3. Actors /\ Flights /\ Votes
    BY <1>1, <1>2 DEF Actors, Flights, Votes
  <1>4. Len(decided) = 1 /\ decided \in Seq(notarized)
    BY <1>2
  <1>5. Certificates
    BY <1>2, <1>4 DEF Certificates
  <1> QED BY <1>2, <1>3, <1>5 DEF ShapeInv

LEMMA StepKeepsShape == ASSUME ShapeInv, [Next]_vars PROVE ShapeInv'
  <1>1. ASSUME NEW v \in Validators, Validator(v) PROVE ShapeInv'
    BY <1>1, ProposeKeepsShape, VerifyKeepsShape, BroadcastKeepsShape, SendKeepsShape,
       ReceiveKeepsShape, FinalizeKeepsShape DEF Validator
  <1>2. CASE UNCHANGED vars
    BY <1>2 DEF vars, place_vars, ShapeInv, Actors, Flights, Votes, Certificates
  <1> QED BY <1>1, <1>2, BootKeepsShape, NotarizeKeepsShape, DecideKeepsShape DEF Next

(* The shape of the state, for every roster.                               *)
THEOREM ShapeInvariance == Spec => []ShapeInv
  <1>1. ShapeInv /\ [Next]_vars => ShapeInv'
    BY StepKeepsShape
  <1> QED BY <1>1, InitEstablishesShape, PTL DEF Spec

(* For every roster, whatever its size: on every validator balances fit in *)
(* u64, the maps are keyed by the digests of the headers they hold, the    *)
(* pool and the outbound queue keep within their capacities; nobody votes  *)
(* or is voted for out of the blue, and what a validator missed is below   *)
(* the place in the decided chain that it has got to.                      *)
THEOREM TypeCorrect == Spec => []TypeOK
  <1>1. ShapeInv => TypeOK
    <2> SUFFICES ASSUME ShapeInv PROVE TypeOK
      OBVIOUS
    <2>1. ASSUME NEW v \in Validators
          PROVE  /\ \A a \in DOMAIN app[v].state :
                       app[v].state[a] \in [balance : 0 .. MaxU64, nonce : Nat]
                 /\ Cardinality(DOMAIN app[v].mempool.txs) <= Capacity
                 /\ Len(app[v].blocks_out) <= BlocksOutCapacity
                 /\ Keyed(app[v].pending) /\ Keyed(app[v].blocks.blocks)
      <3>1. ActorOk(app[v])
        BY DEF ShapeInv, Actors, ActorSound
      <3> QED BY <3>1 DEF ActorOk, AccountsOk, Account, PoolOk, Bounded, OutOk
    <2>2. ASSUME NEW blocks, Keyed(blocks), NEW d \in DOMAIN blocks
          PROVE  blocks[d].header = Header(d)
      <3>1. BlockHash(blocks[d]) = d
        BY <2>2 DEF Keyed
      <3> QED BY <3>1 DEF BlockHash, Header
    <2>3. ASSUME NEW v \in Validators
          PROVE  /\ relay[v] \subseteq voted[v] /\ voted[v] \subseteq proposed
                 /\ handled[v] \in 1 .. Len(decided)
                 /\ missed[v] \subseteq 2 .. handled[v] - 1
      BY DEF ShapeInv, Votes, Certificates
    <2>4. up \subseteq Validators /\ notarized \subseteq proposed \cup {GenesisHash}
      BY DEF ShapeInv, Certificates
    <2> QED BY <2>1, <2>2, <2>3, <2>4 DEF TypeOK
  <1> QED BY <1>1, ShapeInvariance, PTL



-----------------------------------------------------------------------------
(* The decided chain.                                                      *)

(* A proposal is one above its parent, so that a digest is decided once.   *)
ProposedLinked ==
    \A d \in proposed :
        /\ d # ZeroHash
        /\ Header(d).height \in Nat
        /\ Header(d).height = Header(Header(d).parent_hash).height + 1

(* The i-th decided block has height i - 1.                                *)
DecidedChain ==
    /\ decided[1] = GenesisHash
    /\ \A i \in 1 .. Len(decided) : Header(decided[i]).height = i - 1

ChainInv == ProposedLinked /\ DecidedChain

LEMMA HeaderOfHash == \A block : Header(BlockHash(block)) = block.header
  BY DEF Header, BlockHash

(* A proposal is one above the parent that it names.                       *)
LEMMA ProposalFacts ==
    ASSUME NEW a, ActorOk(a), NEW parent, NEW timestamp, NEW signer,
           NEW block \in Proposals(a, parent, timestamp, signer)
    PROVE  /\ Header(BlockHash(block)).parent_hash = parent
           /\ Header(BlockHash(block)).height = Header(parent).height + 1
  <1> DEFINE p == BlockByDigest(a, parent)
  <1>1. /\ Knows(a, parent)
        /\ block \in BuildBlock(p, timestamp, signer, a.mempool, a.state, MaxTxsPerBlock)
    BY DEF Proposals
  <1>2. BlockHash(p) = parent
    BY <1>1 DEF Knows, Stores, BlockByDigest, ActorOk, Keyed
  <1> HIDE DEF p
  <1>3. PICK body : block = NewBlock(p.header.height + 1, BlockHash(p), timestamp,
                                     signer, body)
    BY <1>1 DEF BuildBlock
  <1>4. /\ block.header.height = p.header.height + 1
        /\ block.header.parent_hash = parent
    BY <1>2, <1>3 DEF NewBlock
  <1>5. Header(parent) = p.header /\ Header(BlockHash(block)) = block.header
    BY <1>2, HeaderOfHash
  <1> QED BY <1>4, <1>5

LEMMA GenesisFacts ==
    /\ GenesisHash # ZeroHash
    /\ Header(GenesisHash).height = 0
    /\ Header(GenesisHash).parent_hash = ZeroHash
  <1>1. GenesisHash # ZeroHash
    BY BlockHashIsNotZero DEF GenesisHash
  <1>2. Header(GenesisHash) = GenesisBlock.header
    BY HeaderOfHash DEF GenesisHash
  <1> QED BY <1>1, <1>2 DEF GenesisBlock

LEMMA NotarizedHeights ==
    ASSUME Certificates, ProposedLinked
    PROVE  \A d \in notarized : d # ZeroHash /\ Header(d).height \in Nat
  BY GenesisFacts DEF ProposedLinked, Certificates

LEMMA ProposeKeepsChain ==
    ASSUME ShapeInv, ChainInv, NEW v \in Validators, HandlePropose(v) PROVE ChainInv'
  <1>0. PICK parent \in ParentsFrom(handled[v]), timestamp \in Timestamps :
          \E block \in Proposals(app[v], parent, timestamp, v) :
           /\ proposed' = proposed \cup {BlockHash(block)}
           /\ UNCHANGED decided
    BY DEF HandlePropose
  <1>1. PICK block \in Proposals(app[v], parent, timestamp, v) :
           /\ proposed' = proposed \cup {BlockHash(block)}
           /\ UNCHANGED decided
    BY <1>0
  <1> DEFINE digest == BlockHash(block)
  <1>2. ActorOk(app[v])
    BY DEF ShapeInv, Actors, ActorSound
  <1>3. /\ Header(digest).parent_hash = parent
        /\ Header(digest).height = Header(parent).height + 1
        /\ digest # ZeroHash
    BY <1>2, ProposalFacts, BlockHashIsNotZero
  <1> HIDE DEF digest
  <1>4. proposed' = proposed \cup {digest}
    BY <1>1 DEF digest
  <1>5. Header(parent).height \in Nat
    BY <1>1, NotarizedHeights DEF ShapeInv, ChainInv, ParentsFrom
  <1>6. ProposedLinked'
    BY <1>3, <1>4, <1>5 DEF ChainInv, ProposedLinked
  <1> QED BY <1>1, <1>6 DEF ChainInv, DecidedChain

(* Genesis has no notarized parent, so the next block is a proposal, one   *)
(* above the last; what was decided stays where it is.                     *)
LEMMA DecideFacts ==
    ASSUME ShapeInv, ChainInv, Decide
    PROVE  /\ Len(decided) \in Nat \ {0} /\ Len(decided') = Len(decided) + 1
           /\ \A i \in 1 .. Len(decided) : decided'[i] = decided[i]
           /\ Header(decided'[Len(decided) + 1]).height = Len(decided)
  <1>1. PICK digest \in notarized :
           /\ Header(digest).parent_hash = decided[Len(decided)]
           /\ decided' = Append(decided, digest)
    BY DEF Decide
  <1> DEFINE n == Len(decided)
  <1>2. n \in Nat /\ decided \in Seq(notarized) /\ n # 0
    <2>1. n \in Nat /\ decided \in Seq(notarized)
      BY LenProperties DEF ShapeInv, Certificates
    <2>2. PICK v : v \in Validators
      BY DevnetAssumption
    <2>3. handled[v] \in 1 .. n
      BY <2>2 DEF ShapeInv, Certificates
    <2> QED BY <2>1, <2>3
  <1>3. decided[n] \in notarized /\ Header(decided[n]).height = n - 1
    BY <1>2, ElementOfSeq DEF ChainInv, DecidedChain
  <1>4. digest \in proposed
    BY <1>1, <1>3, GenesisFacts, NotarizedHeights DEF ShapeInv, ChainInv, Certificates
  <1>5. Header(digest).height = n
    BY <1>1, <1>2, <1>3, <1>4 DEF ChainInv, ProposedLinked
  <1>6. /\ Len(decided') = n + 1
        /\ \A i \in 1 .. n : decided'[i] = decided[i]
        /\ decided'[n + 1] = digest
    BY <1>1, <1>2, AppendProperties
  <1> QED BY <1>2, <1>5, <1>6

LEMMA DecideKeepsChain == ASSUME ShapeInv, ChainInv, Decide PROVE ChainInv'
  <1> DEFINE n == Len(decided)
  <1>1. UNCHANGED proposed
    BY DEF Decide
  <1>2. /\ n \in Nat \ {0} /\ Len(decided') = n + 1
        /\ \A i \in 1 .. n : decided'[i] = decided[i]
        /\ Header(decided'[n + 1]).height = n
    BY DecideFacts
  <1> HIDE DEF n
  <1>3. DecidedChain'
    <2>1. \A i \in 1 .. n + 1 : i \in 1 .. n \/ i = n + 1
      BY <1>2
    <2>2. \A i \in 1 .. n : Header(decided'[i]).height = i - 1
      BY <1>2 DEF ChainInv, DecidedChain, n
    <2>3. Header(decided'[n + 1]).height = (n + 1) - 1
      BY <1>2
    <2>4. decided'[1] = GenesisHash
      BY <1>2 DEF ChainInv, DecidedChain
    <2> QED BY <1>2, <2>1, <2>2, <2>3, <2>4 DEF DecidedChain
  <1> QED BY <1>1, <1>3 DEF ChainInv, ProposedLinked

LEMMA InitEstablishesChain == Init => ChainInv
  <1> SUFFICES ASSUME Init PROVE ChainInv
    OBVIOUS
  <1>1. decided = <<GenesisHash>> /\ proposed = {}
    BY DEF Init
  <1>2. Len(decided) = 1 /\ decided[1] = GenesisHash
    BY <1>1
  <1>3. DecidedChain
    BY <1>2, GenesisFacts DEF DecidedChain
  <1> QED BY <1>1, <1>3 DEF ChainInv, ProposedLinked

LEMMA StepKeepsChain == ASSUME ShapeInv, ChainInv, [Next]_vars PROVE ChainInv'
  <1>1. ASSUME UNCHANGED <<proposed, decided>> PROVE ChainInv'
    BY <1>1 DEF ChainInv, ProposedLinked, DecidedChain
  <1>2. ASSUME NEW v \in Validators, Boot(v) \/ Validator(v), ~HandlePropose(v)
        PROVE  UNCHANGED <<proposed, decided>>
    BY <1>2 DEF Boot, Validator, HandleVerify, HandleBroadcast, SendBlock, ReceiveBlock,
                HandleFinalize, consensus_vars
  <1>3. CASE Notarize \/ UNCHANGED vars
    BY <1>1, <1>3 DEF Notarize, vars
  <1> QED BY <1>1, <1>2, <1>3, ProposeKeepsChain, DecideKeepsChain DEF Next

(* One decided block per height, for every roster.                         *)
THEOREM ChainInvariance == Spec => []ChainInv
  <1>1. ShapeInv /\ ChainInv /\ [Next]_vars => ChainInv'
    BY StepKeepsChain
  <1> QED BY <1>1, InitEstablishesChain, ShapeInvariance, PTL DEF Spec


-----------------------------------------------------------------------------
(* What a certificate makes of accounts and store.                         *)

Books(a) == [state |-> a.state, blocks |-> a.blocks]

(* The block that a digest stands for.                                     *)
BlockOf(digest) == CHOOSE block : Sound(block) /\ BlockHash(block) = digest

CommitBlock(x, block) ==
    IF BlockApplies(x.state, block.transactions)
    THEN [state  |-> ApplyBlock(x.state, block.transactions),
          blocks |-> StoreInsert(x.blocks, block)]
    ELSE x

(* Genesis is where every validator starts.                                *)
Commit(x, digest) == IF digest = GenesisHash THEN x ELSE CommitBlock(x, BlockOf(digest))

LEMMA BooksFacts ==
    ASSUME NEW a, NEW b
    PROVE  /\ Books(a).state = a.state /\ Books(a).blocks = a.blocks
           /\ Books(a) = Books(b) <=> a.state = b.state /\ a.blocks = b.blocks
  <1>1. ASSUME NEW c PROVE Books(c).state = c.state /\ Books(c).blocks = c.blocks
    BY DEF Books
  <1>2. a.state = b.state /\ a.blocks = b.blocks => Books(a) = Books(b)
    BY DEF Books
  <1> QED BY <1>1, <1>2

LEMMA InsertTwice ==
    ASSUME NEW store, NEW block, NEW more, more = StoreInsert(store, block)
    PROVE  StoreInsert(more, block) = more
  <1>1. \A f, k, x : Bind(Bind(f, k, x), k, x) = Bind(f, k, x)
    <2> TAKE f, k, x
    <2>1. DOMAIN Bind(f, k, x) = DOMAIN f \cup {k}
      BY DEF Bind
    <2>2. \A y \in DOMAIN f \cup {k} :
             Bind(f, k, x)[y] = IF y = k THEN x ELSE f[y]
      BY DEF Bind
    <2>3. Bind(Bind(f, k, x), k, x)
             = [y \in DOMAIN f \cup {k} |-> IF y = k THEN x ELSE Bind(f, k, x)[y]]
      BY <2>1 DEF Bind
    <2>4. Bind(f, k, x) = [y \in DOMAIN f \cup {k} |-> IF y = k THEN x ELSE f[y]]
      BY DEF Bind
    <2> QED BY <2>2, <2>3, <2>4
  <1> QED BY <1>1 DEF StoreInsert

(* Committing a block once more changes nothing: it is stored already, and *)
(* if it has a transaction, the nonce of its first one is spent.           *)
LEMMA CommitAgain ==
    ASSUME NEW a, ActorOk(a), NEW block, Sound(block),
           BlockApplies(a.state, block.transactions),
           NEW b, ActorOk(b), b.state = ApplyBlock(a.state, block.transactions),
           b.blocks = StoreInsert(a.blocks, block)
    PROVE  CommitBlock(Books(b), block) = Books(b)
  <1> DEFINE txs == block.transactions
  <1>1. TxsOk(txs) /\ (Len(txs) = 0 => txs = <<>>) /\ Len(txs) \in Nat
    BY DEF Sound, BlockOk, TxsOk, IsList
  <1>2. /\ AccountsOk(a.state) /\ IsFiniteSet(DOMAIN a.state)
        /\ AccountsOk(b.state) /\ IsFiniteSet(DOMAIN b.state)
    BY DEF ActorOk
  <1>3. StoreInsert(b.blocks, block) = b.blocks
    BY InsertTwice
  <1>4. CASE Len(txs) = 0
    <2>1. ApplyBlock(b.state, txs) = b.state
      BY <1>1, <1>4, RunNone
    <2> QED BY <1>3, <2>1, BooksFacts DEF CommitBlock, Books
  <1>5. CASE Len(txs) >= 1
    <2>1. SpentBy(b.state, txs, Len(txs))
      BY <1>1, <1>2, RunSpendsNonces
    <2>2. BlockApplies(b.state, txs) => TxApplies(b.state, txs[1])
      BY <1>1, <1>2, <1>5, RunSpendsNonces
    <2>3. 1 \in 1 .. Len(txs) /\ TxOk(txs[1])
      BY <1>1, <1>5 DEF TxsOk
    <2>4. GetNonce(b.state, txs[1].from) > txs[1].nonce
      BY <2>1, <2>3 DEF SpentBy
    <2>5. GetNonce(b.state, txs[1].from) \in Nat /\ txs[1].nonce \in Nat
      BY <1>2, <2>3, GetFacts DEF TxOk
    <2>6. ~TxApplies(b.state, txs[1])
      BY <2>4, <2>5 DEF TxApplies
    <2>7. ~BlockApplies(b.state, txs)
      BY <2>2, <2>6
    <2> QED BY <2>7, BooksFacts DEF CommitBlock
  <1> QED BY <1>1, <1>4, <1>5

(* What finalize makes of a block at hand depends on nothing but accounts, *)
(* store and digest, and doing it again changes nothing.                   *)
LEMMA FinalizeCommits ==
    ASSUME NEW a, ActorSound(a), NEW digest \in DOMAIN a.pending, digest # GenesisHash,
           NEW b, b = AfterFinalize(a, digest)
    PROVE  /\ Books(b) = Commit(Books(a), digest)
           /\ Commit(Books(b), digest) = Books(b)
           /\ \/ Books(b) = Books(a)
              \/ \E block :
                    /\ Sound(block) /\ BlockHash(block) = digest
                    /\ BlockApplies(a.state, block.transactions)
                    /\ b.state = ApplyBlock(a.state, block.transactions)
                    /\ b.blocks = StoreInsert(a.blocks, block)
  <1>1. PICK block : block = a.pending[digest]
    OBVIOUS
  <1>2. Sound(block) /\ BlockHash(block) = digest
    BY <1>1 DEF ActorSound, AllSound, ActorOk, Keyed
  <1>3. BlockOf(digest) = block
    <2>1. Sound(BlockOf(digest)) /\ BlockHash(BlockOf(digest)) = digest
      BY <1>2 DEF BlockOf
    <2> QED BY <1>2, <2>1, SoundIsUnique
  <1>4. Commit(Books(a), digest)
           = IF BlockApplies(a.state, block.transactions)
             THEN [state  |-> ApplyBlock(a.state, block.transactions),
                   blocks |-> StoreInsert(a.blocks, block)]
             ELSE Books(a)
    BY <1>3, BooksFacts DEF Commit, CommitBlock
  <1>5. CASE FinalizeOutcome(a, digest) = "committed"
    <2>1. /\ BlockApplies(a.state, block.transactions)
          /\ b.state = ApplyBlock(a.state, block.transactions)
          /\ b.blocks = StoreInsert(a.blocks, block)
      BY <1>1, <1>5, FinalizeOk DEF ActorSound
    <2>2. ActorOk(a) /\ ActorOk(b)
      BY <1>1, FinalizeOk DEF ActorSound
    <2>3. CommitBlock(Books(b), block) = Books(b)
      BY <1>2, <2>1, <2>2, CommitAgain
    <2>4. Commit(Books(b), digest) = Books(b)
      BY <1>3, <2>3 DEF Commit
    <2> QED BY <1>2, <1>4, <2>1, <2>4 DEF Books
  <1>6. CASE FinalizeOutcome(a, digest) # "committed"
    <2>1. b.state = a.state /\ b.blocks = a.blocks
      BY <1>1, <1>6, FinalizeOk DEF ActorSound
    <2>2. ~BlockApplies(a.state, block.transactions)
      BY <1>1, <1>6 DEF FinalizeOutcome
    <2> QED BY <1>4, <2>1, <2>2, BooksFacts
  <1> QED BY <1>5, <1>6


-----------------------------------------------------------------------------
(* What a step makes of the books of the validators.                       *)

(* Only finalize touches accounts and store, and what was decided stays.   *)
LedgersKept ==
    /\ \A v \in Validators : Books(app[v])' = Books(app[v])
    /\ handled' = handled /\ missed' = missed
    /\ \A i \in 1 .. Len(decided) : decided'[i] = decided[i]

(* Validator v handles the certificate of the block at place i.            *)
Settles(v, i) ==
    /\ i \in handled[v] .. Len(decided) /\ i > 1
    /\ app'[v] = AfterFinalize(app[v], decided[i])
    /\ handled'[v] = i
    /\ missed'[v] = missed[v] \cup (handled[v] + 1 .. i - 1)
    /\ decided' = decided
    /\ \A w \in Validators : w # v =>
          app'[w] = app[w] /\ handled'[w] = handled[w] /\ missed'[w] = missed[w]

LEMMA FinalizeSettles ==
    ASSUME ShapeInv, NEW v \in Validators, HandleFinalize(v)
    PROVE  \E i \in handled[v] .. Len(decided) : Settles(v, i)
  <1>1. PICK i \in handled[v] .. Len(decided) :
           /\ i > 1
           /\ app' = [app EXCEPT ![v] = AfterFinalize(app[v], decided[i])]
           /\ handled' = [handled EXCEPT ![v] = i]
           /\ missed' = [missed EXCEPT ![v] = missed[v] \cup (handled[v] + 1 .. i - 1)]
           /\ UNCHANGED decided
    BY DEF HandleFinalize, consensus_vars
  <1>2. DOMAIN app = Validators /\ DOMAIN handled = Validators /\ DOMAIN missed = Validators
    BY DEF ShapeInv, Actors, Certificates
  <1>3. Settles(v, i)
    BY <1>1, <1>2 DEF Settles
  <1> QED BY <1>3

LEMMA ActorKeepsLedgers ==
    ASSUME Actors, NEW v \in Validators, NEW a, app' = [app EXCEPT ![v] = a],
           a.blocks = app[v].blocks, a.state = app[v].state,
           UNCHANGED <<handled, missed, decided>>
    PROVE  LedgersKept
  <1>1. ASSUME NEW w \in Validators
        PROVE  app'[w].state = app[w].state /\ app'[w].blocks = app[w].blocks
    BY DEF Actors
  <1> QED BY <1>1 DEF LedgersKept, Books

LEMMA StepSettles ==
    ASSUME ShapeInv, ChainInv, [Next]_vars
    PROVE  \/ LedgersKept
           \/ \E v \in Validators : \E i \in handled[v] .. Len(decided) : Settles(v, i)
  <1>0. \A v \in Validators : ActorSound(app[v]) /\ ActorOk(app[v])
    BY DEF ShapeInv, Actors, ActorSound
  <1>1. ASSUME NEW v \in Validators, HandlePropose(v) PROVE LedgersKept
    <2>0. PICK parent \in ParentsFrom(handled[v]), timestamp \in Timestamps :
            \E block \in Proposals(app[v], parent, timestamp, v) :
               app' = [app EXCEPT ![v] = Stash(app[v], block)]
      BY <1>1 DEF HandlePropose
    <2>1. PICK block \in Proposals(app[v], parent, timestamp, v) :
               app' = [app EXCEPT ![v] = Stash(app[v], block)]
      BY <2>0
    <2>2. UNCHANGED <<handled, missed, decided>>
      BY <1>1 DEF HandlePropose, place_vars
    <2>3. Sound(block)
      BY <1>0, ProposalSound
    <2> QED BY <1>0, <2>1, <2>2, <2>3, StashSound, ActorKeepsLedgers DEF ShapeInv
  <1>2. ASSUME NEW v \in Validators, HandleVerify(v) PROVE LedgersKept
    BY <1>2 DEF HandleVerify, consensus_vars, place_vars, LedgersKept, Books
  <1>3. ASSUME NEW v \in Validators, HandleBroadcast(v) PROVE LedgersKept
    <2>1. PICK digest : app' = [app EXCEPT ![v] = AfterBroadcast(app[v], digest)]
      BY <1>3 DEF HandleBroadcast
    <2>2. UNCHANGED <<handled, missed, decided>>
      BY <1>3 DEF HandleBroadcast, consensus_vars, place_vars
    <2> QED BY <1>0, <2>1, <2>2, BroadcastSound, ActorKeepsLedgers DEF ShapeInv
  <1>4. ASSUME NEW v \in Validators, SendBlock(v) PROVE LedgersKept
    <2> DEFINE a == [app[v] EXCEPT !.blocks_out = Rest(app[v].blocks_out)]
    <2>1. app' = [app EXCEPT ![v] = a] /\ app[v].blocks_out # <<>>
      BY <1>4 DEF SendBlock, Rest
    <2>2. UNCHANGED <<handled, missed, decided>>
      BY <1>4 DEF SendBlock, consensus_vars, place_vars
    <2>3. a.blocks = app[v].blocks /\ a.state = app[v].state
      BY <1>0, <2>1, SentSound
    <2> HIDE DEF a
    <2> QED BY <2>1, <2>2, <2>3, ActorKeepsLedgers DEF ShapeInv
  <1>5. ASSUME NEW v \in Validators, ReceiveBlock(v) PROVE LedgersKept
    <2>1. PICK block \in inflight[v] :
             app' = [app EXCEPT ![v] = AfterStoreBlock(app[v], block)]
      BY <1>5 DEF ReceiveBlock
    <2>2. UNCHANGED <<handled, missed, decided>>
      BY <1>5 DEF ReceiveBlock, consensus_vars, place_vars
    <2>3. Sound(block)
      BY DEF ShapeInv, Flights
    <2> QED BY <1>0, <2>1, <2>2, <2>3, StoreBlockSound, ActorKeepsLedgers DEF ShapeInv
  <1>6. ASSUME NEW v \in Validators, Boot(v) PROVE LedgersKept
    BY <1>6 DEF Boot, consensus_vars, place_vars, LedgersKept, Books
  <1>7. CASE Notarize \/ UNCHANGED vars
    BY <1>7 DEF Notarize, vars, place_vars, LedgersKept, Books
  <1>8. CASE Decide
    <2>1. UNCHANGED <<app, handled, missed>>
      BY <1>8 DEF Decide, place_vars
    <2> QED BY <1>8, <2>1, DecideFacts DEF LedgersKept, Books
  <1> QED BY <1>1, <1>2, <1>3, <1>4, <1>5, <1>6, <1>7, <1>8, FinalizeSettles DEF Next, Validator

(* A block that validator v commits for the certificate at place i.        *)
Appended(v, i) ==
    \E block :
        /\ Sound(block) /\ BlockHash(block) = decided[i]
        /\ BlockApplies(app[v].state, block.transactions)
        /\ app'[v].state = ApplyBlock(app[v].state, block.transactions)
        /\ app'[v].blocks = StoreInsert(app[v].blocks, block)

(* A certificate for a block that is not at hand changes no books; else    *)
(* they are what Commit says.                                              *)
LEMMA SettlesFacts ==
    ASSUME ShapeInv, ChainInv, NEW v \in Validators,
           NEW i \in handled[v] .. Len(decided), Settles(v, i)
    PROVE  /\ handled[v] \in Nat \ {0} /\ i \in Nat /\ i \in 1 .. Len(decided)
           /\ Header(decided[i]).height = i - 1
           /\ decided[i] # GenesisHash
           /\ \A w \in Validators : w # v => Books(app[w])' = Books(app[w])
           /\ \/ /\ decided[i] \notin DOMAIN app[v].pending
                 /\ Books(app[v])' = Books(app[v])
              \/ /\ decided[i] \in DOMAIN app[v].pending
                 /\ Books(app[v])' = Commit(Books(app[v]), decided[i])
                 /\ Commit(Books(app[v])', decided[i]) = Books(app[v])'
                 /\ Books(app[v])' = Books(app[v]) \/ Appended(v, i)
  <1> DEFINE digest == decided[i]
             a == AfterFinalize(app[v], digest)
  <1>1. Len(decided) \in Nat /\ handled[v] \in 1 .. Len(decided)
    BY LenProperties DEF ShapeInv, Certificates
  <1>2. i \in 1 .. Len(decided) /\ i > 1 /\ handled[v] \in Nat \ {0} /\ i \in Nat
    BY <1>1 DEF Settles
  <1>3. Header(digest).height = i - 1
    BY <1>2 DEF ChainInv, DecidedChain
  <1>4. digest # GenesisHash
    BY <1>2, <1>3, GenesisFacts
  <1>5. ActorSound(app[v]) /\ app'[v] = a
    BY DEF ShapeInv, Actors, Settles
  <1>6. Books(app[v])' = Books(a)
    BY <1>5 DEF Books
  <1>7. ASSUME NEW w \in Validators, w # v PROVE Books(app[w])' = Books(app[w])
    BY <1>7 DEF Settles, Books
  <1>8. CASE digest \notin DOMAIN app[v].pending
    <2>1. a = app[v]
      BY <1>8 DEF AfterFinalize, FinalizeOutcome
    <2> QED BY <1>2, <1>3, <1>4, <1>6, <1>7, <1>8, <2>1
  <1>9. CASE digest \in DOMAIN app[v].pending
    <2> HIDE DEF a, digest
    <2>1. /\ Books(a) = Commit(Books(app[v]), digest)
          /\ Commit(Books(a), digest) = Books(a)
          /\ \/ Books(a) = Books(app[v])
             \/ \E block :
                   /\ Sound(block) /\ BlockHash(block) = digest
                   /\ BlockApplies(app[v].state, block.transactions)
                   /\ a.state = ApplyBlock(app[v].state, block.transactions)
                   /\ a.blocks = StoreInsert(app[v].blocks, block)
      BY <1>4, <1>5, <1>9, FinalizeCommits DEF a
    <2>2. Books(app[v])' = Books(app[v]) \/ Appended(v, i)
      BY <1>5, <1>6, <2>1 DEF Appended, digest
    <2> QED BY <1>2, <1>3, <1>4, <1>6, <1>7, <1>9, <2>1, <2>2 DEF digest
  <1> QED BY <1>8, <1>9


-----------------------------------------------------------------------------
(* What is stored.                                                         *)

(* The store holds blocks of the chain, each where its height puts it, and *)
(* none of height n or above.                                              *)
StoreFollows(store, chain, n) ==
    /\ \A h \in DOMAIN store.height_index :
          /\ h \in Nat /\ h < n
          /\ store.height_index[h] = chain[h + 1]
          /\ store.height_index[h] \in DOMAIN store.blocks
    /\ \A d \in DOMAIN store.blocks :
          /\ Header(d).height \in Nat /\ Header(d).height < n
          /\ Sound(store.blocks[d])

(* The latest block that a validator was told of is not stored, or it is   *)
(* and committing it once more would change nothing.                       *)
StoreInv ==
    \A v \in Validators :
        /\ StoreFollows(app[v].blocks, decided, handled[v])
        /\ \/ StoreFollows(app[v].blocks, decided, handled[v] - 1)
           \/ Commit(Books(app[v]), decided[handled[v]]) = Books(app[v])

LEMMA StoreFollowsMore ==
    ASSUME NEW store, NEW chain, NEW n \in Nat, StoreFollows(store, chain, n),
           NEW m \in Nat, n <= m
    PROVE  StoreFollows(store, chain, m)
  <1>1. \A h \in Nat : h < n => h < m
    OBVIOUS
  <1> QED BY <1>1 DEF StoreFollows

LEMMA StoreFollowsPrefix ==
    ASSUME NEW store, NEW chain, NEW n \in Nat, StoreFollows(store, chain, n),
           NEW other, \A i \in 1 .. n : other[i] = chain[i]
    PROVE  StoreFollows(store, other, n)
  <1>1. \A h \in Nat : h < n => h + 1 \in 1 .. n
    OBVIOUS
  <1> QED BY <1>1 DEF StoreFollows

LEMMA InsertFollows ==
    ASSUME NEW store, NEW chain, NEW n \in Nat, StoreFollows(store, chain, n),
           NEW block, Sound(block), BlockHash(block) = chain[n + 1],
           Header(chain[n + 1]).height = n,
           NEW more, more = StoreInsert(store, block)
    PROVE  StoreFollows(more, chain, n + 1)
  <1> DEFINE d == BlockHash(block)
  <1>1. /\ more.blocks = Bind(store.blocks, d, block)
        /\ more.height_index = Bind(store.height_index, n, d)
    BY HeaderOfHash DEF StoreInsert
  <1>2. Header(d).height = n /\ d = chain[n + 1]
    OBVIOUS
  <1> HIDE DEF d
  <1>3. /\ \A x : x \in DOMAIN more.blocks <=> x \in DOMAIN store.blocks \/ x = d
        /\ more.blocks[d] = block
        /\ \A x \in DOMAIN store.blocks : x # d => more.blocks[x] = store.blocks[x]
        /\ \A h : h \in DOMAIN more.height_index <=> h \in DOMAIN store.height_index \/ h = n
        /\ more.height_index[n] = d
        /\ \A h \in DOMAIN store.height_index :
              h # n => more.height_index[h] = store.height_index[h]
    BY <1>1, BindFacts
  <1>4. (\A h \in Nat : h < n => h < n + 1 /\ h # n) /\ n < n + 1
    OBVIOUS
  <1> QED BY <1>2, <1>3, <1>4 DEF StoreFollows

(* Either nothing changes, or the block is appended above everything that  *)
(* is there.                                                               *)
LEMMA SettlesAbove ==
    ASSUME ShapeInv, ChainInv, StoreInv, NEW v \in Validators,
           NEW i \in handled[v] .. Len(decided), Settles(v, i)
    PROVE  \/ Books(app[v])' = Books(app[v])
           \/ Appended(v, i) /\ StoreFollows(app[v].blocks, decided, i - 1)
  <1> DEFINE n == handled[v]
             store == app[v].blocks
  <1>1. /\ n \in Nat \ {0} /\ i \in Nat
        /\ \/ Books(app[v])' = Books(app[v])
           \/ /\ Appended(v, i)
              /\ Books(app[v])' = Commit(Books(app[v]), decided[i])
    BY SettlesFacts
  <1>2. /\ StoreFollows(store, decided, n)
        /\ \/ StoreFollows(store, decided, n - 1)
           \/ Commit(Books(app[v]), decided[n]) = Books(app[v])
    BY DEF StoreInv
  <1>3. CASE i = n
    BY <1>1, <1>2, <1>3
  <1>4. CASE i # n
    <2>1. n <= i - 1 /\ i - 1 \in Nat
      BY <1>1, <1>4
    <2> HIDE DEF n, store
    <2>2. StoreFollows(store, decided, i - 1)
      BY <1>1, <1>2, <2>1, StoreFollowsMore
    <2> QED BY <1>1, <2>2 DEF store
  <1> QED BY <1>3, <1>4

LEMMA SettlesKeepsStore ==
    ASSUME ShapeInv, ChainInv, StoreInv, NEW v \in Validators,
           NEW i \in handled[v] .. Len(decided), Settles(v, i)
    PROVE  StoreInv'
  <1> DEFINE n == handled[v]
             store == app[v].blocks
             more == app'[v].blocks
  <1>1. /\ n \in Nat \ {0} /\ i \in Nat /\ i \in 1 .. Len(decided)
        /\ Header(decided[i]).height = i - 1
        /\ \A w \in Validators : w # v => Books(app[w])' = Books(app[w])
        /\ \/ Books(app[v])' = Books(app[v])
                 /\ decided[i] \notin DOMAIN app[v].pending
           \/ Commit(Books(app[v])', decided[i]) = Books(app[v])'
    BY SettlesFacts
  <1>2. /\ n <= i /\ decided' = decided /\ handled'[v] = i
        /\ \A w \in Validators : w # v => handled'[w] = handled[w]
    BY <1>1 DEF Settles
  <1>3. StoreFollows(store, decided, n)
    BY DEF StoreInv
  <1>4. StoreFollows(more, decided, i)
    <2>1. CASE Books(app[v])' = Books(app[v])
      <3>1. more = store
        BY <2>1, BooksFacts DEF Books
      <3> HIDE DEF n, store, more
      <3> QED BY <1>1, <1>2, <1>3, <3>1, StoreFollowsMore
    <2>2. CASE Appended(v, i) /\ StoreFollows(app[v].blocks, decided, i - 1)
      <3>1. PICK block : /\ Sound(block) /\ BlockHash(block) = decided[i]
                         /\ more = StoreInsert(store, block)
        BY <2>2 DEF Appended
      <3>2. i - 1 \in Nat /\ (i - 1) + 1 = i
        BY <1>1
      <3> HIDE DEF n, more
      <3>3. StoreFollows(more, decided, (i - 1) + 1)
        BY <1>1, <2>2, <3>1, <3>2, InsertFollows
      <3> QED BY <3>2, <3>3
    <2> QED BY <2>1, <2>2, SettlesAbove
  <1>5. \/ StoreFollows(more, decided, i - 1)
        \/ Commit(Books(app[v])', decided[i]) = Books(app[v])'
    <2>1. CASE Books(app[v])' = Books(app[v]) /\ i # n
      <3>1. more = store
        BY <2>1, BooksFacts DEF Books
      <3>2. n <= i - 1 /\ i - 1 \in Nat
        BY <1>1, <1>2, <2>1
      <3> HIDE DEF n, store, more
      <3> QED BY <1>1, <1>3, <3>1, <3>2, StoreFollowsMore
    <2>2. CASE Books(app[v])' = Books(app[v]) /\ i = n
      <3>1. more = store
        BY <2>2, BooksFacts DEF Books
      <3>2. \/ StoreFollows(store, decided, n - 1)
            \/ Commit(Books(app[v]), decided[n]) = Books(app[v])
        BY DEF StoreInv
      <3> QED BY <2>2, <3>1, <3>2
    <2> QED BY <1>1, <2>1, <2>2
  <1>6. ASSUME NEW w \in Validators
        PROVE  /\ StoreFollows(app'[w].blocks, decided', handled'[w])
               /\ \/ StoreFollows(app'[w].blocks, decided', handled'[w] - 1)
                  \/ Commit(Books(app[w])', decided'[handled'[w]]) = Books(app[w])'
    <2>1. CASE w = v
      BY <1>2, <1>4, <1>5, <2>1
    <2>2. CASE w # v
      <3>1. Books(app[w])' = Books(app[w]) /\ handled'[w] = handled[w]
        BY <1>1, <1>2, <2>2
      <3>2. app'[w].blocks = app[w].blocks
        BY <3>1, BooksFacts DEF Books
      <3>3. /\ StoreFollows(app[w].blocks, decided, handled[w])
            /\ \/ StoreFollows(app[w].blocks, decided, handled[w] - 1)
               \/ Commit(Books(app[w]), decided[handled[w]]) = Books(app[w])
        BY DEF StoreInv
      <3> QED BY <1>2, <3>1, <3>2, <3>3
    <2> QED BY <2>1, <2>2
  <1> QED BY <1>6 DEF StoreInv, Books

LEMMA KeptKeepsStore == ASSUME ShapeInv, StoreInv, LedgersKept PROVE StoreInv'
  <1> SUFFICES ASSUME NEW v \in Validators
        PROVE  /\ StoreFollows(app'[v].blocks, decided', handled'[v])
               /\ \/ StoreFollows(app'[v].blocks, decided', handled'[v] - 1)
                  \/ Commit(Books(app[v])', decided'[handled'[v]]) = Books(app[v])'
    BY DEF StoreInv, Books
  <1>1. /\ Len(decided) \in Nat /\ handled[v] \in 1 .. Len(decided)
        /\ handled' = handled
        /\ \A i \in 1 .. Len(decided) : decided'[i] = decided[i]
        /\ Books(app[v])' = Books(app[v])
    BY LenProperties DEF ShapeInv, Certificates, LedgersKept
  <1>2. app'[v].blocks = app[v].blocks
    BY <1>1, BooksFacts DEF Books
  <1>3. /\ handled[v] \in Nat /\ handled[v] - 1 \in Nat
        /\ \A i \in 1 .. handled[v] : decided'[i] = decided[i]
        /\ \A i \in 1 .. handled[v] - 1 : decided'[i] = decided[i]
        /\ decided'[handled[v]] = decided[handled[v]]
    BY <1>1
  <1>4. /\ StoreFollows(app[v].blocks, decided, handled[v])
        /\ \/ StoreFollows(app[v].blocks, decided, handled[v] - 1)
           \/ Commit(Books(app[v]), decided[handled[v]]) = Books(app[v])
    BY DEF StoreInv
  <1>5. StoreFollows(app[v].blocks, decided', handled[v])
    BY <1>3, <1>4, StoreFollowsPrefix
  <1>6. StoreFollows(app[v].blocks, decided, handled[v] - 1) =>
           StoreFollows(app[v].blocks, decided', handled[v] - 1)
    BY <1>3, StoreFollowsPrefix
  <1> QED BY <1>1, <1>2, <1>3, <1>4, <1>5, <1>6

LEMMA InitEstablishesStore == Init => StoreInv
  <1> SUFFICES ASSUME Init, NEW v \in Validators
               PROVE  /\ StoreFollows(app[v].blocks, decided, handled[v])
                      /\ Commit(Books(app[v]), decided[handled[v]]) = Books(app[v])
    BY DEF StoreInv
  <1>1. /\ app[v] = NewApp(Allocations, SeedTxs) /\ handled[v] = 1
        /\ decided[0 + 1] = GenesisHash
    BY DEF Init, Everywhere
  <1>2. app[v].blocks = StoreInsert(EmptyStore, GenesisBlock)
    BY <1>1 DEF NewApp
  <1>3. StoreFollows(EmptyStore, decided, 0)
    BY EmptyMapFacts DEF EmptyStore, StoreFollows
  <1>4. Sound(GenesisBlock)
    BY GenesisOk DEF Sound, NoRepeats, Distinct
  <1>5. /\ BlockHash(GenesisBlock) = GenesisHash
        /\ Header(GenesisHash).height = 0
    BY GenesisFacts DEF GenesisHash
  <1>6. StoreFollows(app[v].blocks, decided, 0 + 1)
    BY <1>1, <1>2, <1>3, <1>4, <1>5, InsertFollows
  <1> QED BY <1>1, <1>6 DEF Commit

(* What is stored is decided, for every roster.                            *)
THEOREM StoreInvariance == Spec => []StoreInv
  <1>1. ShapeInv /\ ChainInv /\ StoreInv /\ [Next]_vars => StoreInv'
    BY StepSettles, KeptKeepsStore, SettlesKeepsStore
  <1> QED BY <1>1, InitEstablishesStore, ShapeInvariance, ChainInvariance, PTL DEF Spec

(* For every roster, whatever its size and whichever certificates each     *)
(* validator has missed: no two stores show different blocks at a height.  *)
THEOREM ChainsNeverFork == Spec => []StoresNeverFork
  <1>1. ShapeInv /\ StoreInv => StoresNeverFork
    <2> SUFFICES ASSUME ShapeInv, StoreInv, NEW v \in Validators, NEW w \in Validators,
                        NEW h \in DOMAIN ChainOf(v) \cap DOMAIN ChainOf(w)
                 PROVE  ChainOf(v)[h] = ChainOf(w)[h]
      BY DEF StoresNeverFork
    <2>1. ASSUME NEW u \in Validators, h \in DOMAIN ChainOf(u)
          PROVE  Sound(ChainOf(u)[h]) /\ BlockHash(ChainOf(u)[h]) = decided[h + 1]
      <3> DEFINE store == app[u].blocks
      <3>1. h \in DOMAIN store.height_index
        BY <2>1 DEF ChainOf
      <3>2. ChainOf(u)[h] = store.blocks[store.height_index[h]]
        BY <3>1 DEF ChainOf
      <3>3. /\ store.height_index[h] = decided[h + 1]
            /\ store.height_index[h] \in DOMAIN store.blocks
            /\ Sound(store.blocks[store.height_index[h]])
        BY <3>1 DEF StoreInv, StoreFollows
      <3>4. Keyed(store.blocks)
        BY DEF ShapeInv, Actors, ActorSound, ActorOk
      <3> QED BY <3>2, <3>3, <3>4 DEF Keyed
    <2>2. /\ Sound(ChainOf(v)[h]) /\ Sound(ChainOf(w)[h])
          /\ BlockHash(ChainOf(v)[h]) = BlockHash(ChainOf(w)[h])
      BY <2>1
    <2> QED BY <2>2, SoundIsUnique
  <1> QED BY <1>1, ShapeInvariance, StoreInvariance, PTL


-----------------------------------------------------------------------------
(* Every validator is a ledger.                                            *)

LEMMA ChainIsShown ==
    ASSUME NEW v
    PROVE  /\ ChainOf(v) = Shown(app[v].blocks)
           /\ ChainOf(v)' = Shown(app'[v].blocks)
  BY DEF ChainOf, Shown

LEMMA SameBind == ASSUME NEW u PROVE \A f, k, v : Replica(u)!Bind(f, k, v) = Bind(f, k, v)
  BY DEF Replica!Bind, Bind

LEMMA SameGenesis == ASSUME NEW u PROVE Replica(u)!Genesis = Bind(EmptyMap, 0, GenesisBlock)
  BY DEF Replica!Genesis, Replica!Bind, Bind, Replica!EmptyMap, EmptyMap,
         Replica!GenesisBlock, GenesisBlock, Replica!ZeroHash, ZeroHash

LEMMA SameRun ==
    ASSUME NEW u, NEW accounts, NEW txs
    PROVE  Replica(u)!RunTxs(accounts, txs) = RunTxs(accounts, txs)
  BY DEF Replica!RunTxs, RunTxs, Replica!TxApplies, TxApplies, Replica!ApplyTransaction,
         ApplyTransaction, Replica!Debit, Debit, Replica!GetBalance, GetBalance,
         Replica!GetNonce, GetNonce, Replica!GetAccount, GetAccount,
         Replica!DefaultAccount, DefaultAccount, Replica!Bind, Bind,
         Replica!VerifySignature, VerifySignature, Replica!PurePayload, PurePayload

LEMMA SameLedger ==
    ASSUME NEW u, NEW accounts, NEW txs
    PROVE  /\ Replica(u)!BlockApplies(accounts, txs) <=> BlockApplies(accounts, txs)
           /\ Replica(u)!ApplyBlock(accounts, txs) = ApplyBlock(accounts, txs)
  BY SameRun DEF Replica!BlockApplies, BlockApplies, Replica!ApplyBlock, ApplyBlock

LEMMA SameAccounts ==
    ASSUME NEW u
    PROVE  Replica(u)!GenesisAccounts(Allocations) = GenesisAccounts(Allocations)
  BY DEF Replica!GenesisAccounts, GenesisAccounts, Replica!Credit, Credit,
         Replica!GetBalance, GetBalance, Replica!GetNonce, GetNonce,
         Replica!GetAccount, GetAccount, Replica!DefaultAccount, DefaultAccount,
         Replica!Bind, Bind, Replica!EmptyMap, EmptyMap

LEMMA InitIsLedger == ASSUME Init, NEW v \in Validators PROVE Replica(v)!Init
  <1> DEFINE a == NewApp(Allocations, SeedTxs)
  <1>1. app[v] = a
    BY DEF Init, Everywhere
  <1>2. a.state = GenesisAccounts(Allocations) /\ a.blocks = StoreInsert(EmptyStore, GenesisBlock)
    BY DEF NewApp
  <1> HIDE DEF a
  <1>3. ChainOf(v) = Shown(a.blocks)
    BY <1>1, ChainIsShown
  <1>4. /\ \A x : x \notin DOMAIN EmptyStore.height_index
        /\ \A x : x \notin DOMAIN EmptyStore.blocks
    BY EmptyMapFacts DEF EmptyStore
  <1>5. Shown(a.blocks) = Bind(Shown(EmptyStore), GenesisBlock.header.height, GenesisBlock)
    BY <1>2, <1>4, ShownInsert
  <1>6. Shown(EmptyStore) = EmptyMap
    BY <1>4 DEF Shown, EmptyMap
  <1>7. GenesisBlock.header.height = 0
    BY DEF GenesisBlock
  <1>8. ChainOf(v) = Replica(v)!Genesis
    BY <1>3, <1>5, <1>6, <1>7, SameGenesis
  <1> QED BY <1>1, <1>2, <1>8, SameAccounts DEF Replica!Init

(* A certificate that a validator handles either leaves its books as they  *)
(* are or appends a block above everything it has.                         *)
LEMMA SettlesIsLedger ==
    ASSUME ShapeInv, ChainInv, StoreInv, NEW v \in Validators,
           NEW i \in handled[v] .. Len(decided), Settles(v, i)
    PROVE  UNCHANGED <<ChainOf(v), app[v].state>> \/ Replica(v)!Next
  <1> DEFINE store == app[v].blocks
             more == app'[v].blocks
  <1>1. CASE Books(app[v])' = Books(app[v])
    <2>1. more = store /\ app'[v].state = app[v].state
      BY <1>1, BooksFacts DEF Books
    <2> QED BY <2>1, ChainIsShown
  <1>2. CASE Appended(v, i) /\ StoreFollows(app[v].blocks, decided, i - 1)
    <2>1. PICK block :
            /\ BlockHash(block) = decided[i]
            /\ BlockApplies(app[v].state, block.transactions)
            /\ app'[v].state = ApplyBlock(app[v].state, block.transactions)
            /\ more = StoreInsert(store, block)
      BY <1>2 DEF Appended
    <2> DEFINE n == i - 1
    <2>2. n \in Nat /\ Header(decided[i]).height = n
      BY SettlesFacts
    <2>3. block.header.height = n
      BY <2>1, <2>2, HeaderOfHash
    <2>4. /\ \A h \in DOMAIN store.height_index :
                h \in Nat /\ h < n /\ store.height_index[h] \in DOMAIN store.blocks
          /\ BlockHash(block) \notin DOMAIN store.blocks
      <3> HIDE DEF n, store, more
      <3>1. ~(n < n)
        BY <2>2
      <3>2. StoreFollows(store, decided, n)
        BY <1>2 DEF n, store
      <3> QED BY <2>1, <2>2, <3>1, <3>2 DEF StoreFollows
    <2>5. ChainOf(v) = Shown(store) /\ ChainOf(v)' = Shown(more)
      BY ChainIsShown
    <2> HIDE DEF n, store, more
    <2>6. ChainOf(v)' = Bind(ChainOf(v), n, block)
      BY <2>1, <2>3, <2>4, <2>5, ShownInsert
    <2>7. n \in DOMAIN ChainOf(v)' /\ ChainOf(v)'[n] = block
      BY <2>6, BindFacts
    <2>8. DOMAIN ChainOf(v) = DOMAIN store.height_index
      BY <2>5 DEF Shown
    <2>9. Replica(v)!AppendBlock(block)
      <3>1. Replica(v)!Extends(block)
        BY <2>3, <2>4, <2>8 DEF Replica!Extends
      <3>2. ChainOf(v)' = Replica(v)!Bind(ChainOf(v), block.header.height, block)
        BY <2>3, <2>6, SameBind
      <3>3. /\ Replica(v)!BlockApplies(app[v].state, block.transactions)
            /\ app'[v].state = Replica(v)!ApplyBlock(app[v].state, block.transactions)
        BY <2>1, SameLedger
      <3> QED BY <3>1, <3>2, <3>3 DEF Replica!AppendBlock
    <2> QED BY <2>3, <2>7, <2>9 DEF Replica!Next
  <1> QED BY <1>1, <1>2, SettlesAbove

LEMMA StepIsLedger ==
    ASSUME ShapeInv, ChainInv, StoreInv, [Next]_vars, NEW v \in Validators
    PROVE  UNCHANGED <<ChainOf(v), app[v].state>> \/ Replica(v)!Next
  <1>1. ASSUME Books(app[v])' = Books(app[v]) PROVE UNCHANGED <<ChainOf(v), app[v].state>>
    <2>1. app'[v].blocks = app[v].blocks /\ app'[v].state = app[v].state
      BY <1>1, BooksFacts DEF Books
    <2> QED BY <2>1, ChainIsShown
  <1>2. CASE LedgersKept
    BY <1>1, <1>2 DEF LedgersKept
  <1>3. ASSUME NEW w \in Validators, NEW i \in handled[w] .. Len(decided), Settles(w, i)
        PROVE  UNCHANGED <<ChainOf(v), app[v].state>> \/ Replica(v)!Next
    <2>1. CASE w = v
      BY <1>3, <2>1, SettlesIsLedger
    <2>2. CASE w # v
      <3>1. Books(app[v])' = Books(app[v])
        BY <1>3, <2>2, SettlesFacts
      <3> QED BY <1>1, <3>1
    <2> QED BY <2>1, <2>2
  <1> QED BY <1>2, <1>3, StepSettles

(* For every roster, whatever its size: each validator is a ledger of its  *)
(* own.  A certificate, the next one, a later one or one told twice, only  *)
(* appends a block above everything that is there, which applies to the    *)
(* accounts below it, and nothing else touches chain or accounts.          *)
THEOREM ReplicasAreLedgers == Spec => ReplicasImplementLedger
  <1>1. Init => \A v \in Validators : Replica(v)!Init
    BY InitIsLedger
  <1>2. ShapeInv /\ ChainInv /\ StoreInv /\ [Next]_vars
          => [\A v \in Validators :
                UNCHANGED <<ChainOf(v), app[v].state>> \/ Replica(v)!Next]_vars
    BY StepIsLedger
  <1> QED BY <1>1, <1>2, ShapeInvariance, ChainInvariance, StoreInvariance, PTL
          DEF Spec, ReplicasImplementLedger


-----------------------------------------------------------------------------
(* What a roster of up to three has at hand.                               *)

VotedByAll ==
    \A d \in notarized : d = GenesisHash \/ \A v \in Validators : d \in voted[v]

(* A vote is for a block at hand, or for one whose certificate the         *)
(* validator has handled.                                                  *)
VotedHeld ==
    \A v \in Validators : \A d \in voted[v] :
        \/ d \in DOMAIN app[v].pending
        \/ \E i \in 1 .. handled[v] : i \notin missed[v] /\ d = decided[i]

HeldInv == VotedByAll /\ VotedHeld

(* A step of validator v that keeps its votes and what is decided, and     *)
(* loses nothing from `pending`.                                           *)
LEMMA PendingStep ==
    ASSUME ShapeInv, HeldInv, NEW v \in Validators, NEW a,
           app' = [app EXCEPT ![v] = a],
           \A d \in DOMAIN app[v].pending : d \in DOMAIN a.pending,
           UNCHANGED <<voted, handled, missed, notarized, decided>>
    PROVE  HeldInv'
  <1>1. \A w \in Validators : \A d \in DOMAIN app[w].pending : d \in DOMAIN app'[w].pending
    BY DEF ShapeInv, Actors
  <1>2. VotedHeld'
    BY <1>1 DEF HeldInv, VotedHeld
  <1> QED BY <1>2 DEF HeldInv, VotedByAll

LEMMA ProposeKeepsHeld ==
    ASSUME ShapeInv, HeldInv, NEW v \in Validators, HandlePropose(v) PROVE HeldInv'
  <1>0. PICK parent \in ParentsFrom(handled[v]), timestamp \in Timestamps :
          \E block \in Proposals(app[v], parent, timestamp, v), listening \in BOOLEAN :
           /\ app' = [app EXCEPT ![v] = Stash(app[v], block)]
           /\ voted' = [voted EXCEPT ![v] = WithAnswer(voted[v], block, listening)]
           /\ UNCHANGED <<notarized, decided, handled, missed>>
    BY DEF HandlePropose, place_vars
  <1>1. PICK block \in Proposals(app[v], parent, timestamp, v), listening \in BOOLEAN :
           /\ app' = [app EXCEPT ![v] = Stash(app[v], block)]
           /\ voted' = [voted EXCEPT ![v] = WithAnswer(voted[v], block, listening)]
           /\ UNCHANGED <<notarized, decided, handled, missed>>
    BY <1>0
  <1> DEFINE digest == BlockHash(block)
             a == Stash(app[v], block)
  <1>2. ActorSound(app[v]) /\ ActorOk(app[v])
    BY DEF ShapeInv, Actors, ActorSound
  <1>3. \A d : d \in DOMAIN a.pending <=> d \in DOMAIN app[v].pending \/ d = digest
    <2>1. Sound(block)
      BY <1>2, ProposalSound
    <2> QED BY <1>2, <2>1, StashSound
  <1>4. /\ app' = [app EXCEPT ![v] = a]
        /\ \/ voted' = [voted EXCEPT ![v] = voted[v] \cup {digest}]
           \/ voted' = [voted EXCEPT ![v] = voted[v]]
    BY <1>1 DEF WithAnswer
  <1> HIDE DEF digest, a
  <1>5. /\ \A w \in Validators : \A d \in voted'[w] :
              d \in voted[w] \/ (w = v /\ d = digest)
        /\ \A w \in Validators : voted[w] \subseteq voted'[w]
    BY <1>4 DEF ShapeInv, Votes
  <1>6. VotedByAll'
    BY <1>1, <1>5 DEF HeldInv, VotedByAll
  <1>7. VotedHeld'
    <2>1. \A w \in Validators : \A d \in DOMAIN app[w].pending : d \in DOMAIN app'[w].pending
      BY <1>3, <1>4 DEF ShapeInv, Actors
    <2>2. digest \in DOMAIN app'[v].pending
      BY <1>3, <1>4 DEF ShapeInv, Actors
    <2> QED BY <1>1, <1>5, <2>1, <2>2 DEF HeldInv, VotedHeld
  <1> QED BY <1>6, <1>7 DEF HeldInv

LEMMA VerifyKeepsHeld ==
    ASSUME ShapeInv, HeldInv, NEW v \in Validators, HandleVerify(v) PROVE HeldInv'
  <1>1. PICK digest \in DOMAIN app[v].pending :
           /\ voted' = [voted EXCEPT ![v] = voted[v] \cup {digest}]
           /\ UNCHANGED <<app, handled, missed, notarized, decided>>
    BY DEF HandleVerify, VerifyAnswer, consensus_vars, place_vars
  <1>2. VotedByAll'
    BY <1>1 DEF ShapeInv, HeldInv, Votes, VotedByAll
  <1>3. \A w \in Validators : \A d \in voted'[w] :
           d \in voted[w] \/ d \in DOMAIN app[w].pending
    BY <1>1 DEF ShapeInv, Votes
  <1>4. VotedHeld'
    BY <1>1, <1>3 DEF HeldInv, VotedHeld
  <1> QED BY <1>2, <1>4 DEF HeldInv

LEMMA BroadcastKeepsHeld ==
    ASSUME ShapeInv, HeldInv, NEW v \in Validators, HandleBroadcast(v) PROVE HeldInv'
  <1>1. PICK digest : app' = [app EXCEPT ![v] = AfterBroadcast(app[v], digest)]
    BY DEF HandleBroadcast
  <1>2. UNCHANGED <<voted, handled, missed, notarized, decided>>
    BY DEF HandleBroadcast, consensus_vars, place_vars
  <1>3. ActorSound(app[v])
    BY DEF ShapeInv, Actors
  <1> QED BY <1>1, <1>2, <1>3, BroadcastSound, PendingStep

LEMMA SendKeepsHeld ==
    ASSUME ShapeInv, HeldInv, NEW v \in Validators, SendBlock(v) PROVE HeldInv'
  <1> DEFINE a == [app[v] EXCEPT !.blocks_out = Rest(app[v].blocks_out)]
  <1>1. app' = [app EXCEPT ![v] = a] /\ app[v].blocks_out # <<>>
    BY DEF SendBlock, Rest
  <1>2. UNCHANGED <<voted, handled, missed, notarized, decided>>
    BY DEF SendBlock, consensus_vars, place_vars
  <1>3. ActorSound(app[v])
    BY DEF ShapeInv, Actors
  <1>4. a.pending = app[v].pending
    BY <1>1, <1>3, SentSound
  <1> HIDE DEF a
  <1> QED BY <1>1, <1>2, <1>4, PendingStep

LEMMA ReceiveKeepsHeld ==
    ASSUME ShapeInv, HeldInv, NEW v \in Validators, ReceiveBlock(v) PROVE HeldInv'
  <1>1. PICK block \in inflight[v] : app' = [app EXCEPT ![v] = AfterStoreBlock(app[v], block)]
    BY DEF ReceiveBlock
  <1>2. UNCHANGED <<voted, handled, missed, notarized, decided>>
    BY DEF ReceiveBlock, consensus_vars, place_vars
  <1>3. ActorSound(app[v]) /\ Sound(block)
    BY DEF ShapeInv, Actors, Flights
  <1> QED BY <1>1, <1>2, <1>3, StoreBlockSound, PendingStep

(* What leaves `pending` is what counts as handled from here on.           *)
LEMMA FinalizeKeepsHeld ==
    ASSUME ShapeInv, HeldInv, NEW v \in Validators, HandleFinalize(v) PROVE HeldInv'
  <1>1. PICK i \in handled[v] .. Len(decided) :
           /\ app' = [app EXCEPT ![v] = AfterFinalize(app[v], decided[i])]
           /\ handled' = [handled EXCEPT ![v] = i]
           /\ missed' = [missed EXCEPT ![v] = missed[v] \cup (handled[v] + 1 .. i - 1)]
           /\ UNCHANGED <<voted, notarized, decided>>
    BY DEF HandleFinalize, consensus_vars
  <1> DEFINE n == handled[v]
             a == AfterFinalize(app[v], decided[i])
             gaps == missed[v] \cup (n + 1 .. i - 1)
  <1>2. \A d \in DOMAIN app[v].pending : d # decided[i] => d \in DOMAIN a.pending
    <2>1. ActorSound(app[v])
      BY DEF ShapeInv, Actors
    <2> QED BY <2>1, FinalizeSound
  <1>3. Len(decided) \in Nat /\ n \in 1 .. Len(decided) /\ missed[v] \subseteq 2 .. n - 1
    BY LenProperties DEF ShapeInv, Certificates
  <1>4. /\ i \in 1 .. i /\ i \notin gaps
        /\ \A j \in 1 .. n : j \in 1 .. i /\ (j \notin missed[v] => j \notin gaps)
    BY <1>3
  <1>5. /\ app'[v] = a /\ handled'[v] = i /\ missed'[v] = gaps
        /\ \A w \in Validators : w # v =>
              app'[w] = app[w] /\ handled'[w] = handled[w] /\ missed'[w] = missed[w]
    BY <1>1 DEF ShapeInv, Actors, Certificates
  <1> HIDE DEF a, gaps, n
  <1>6. VotedHeld'
    <2> SUFFICES ASSUME NEW w \in Validators, NEW d \in voted[w]
                 PROVE  \/ d \in DOMAIN app'[w].pending
                        \/ \E j \in 1 .. handled'[w] : j \notin missed'[w] /\ d = decided[j]
      BY <1>1 DEF VotedHeld
    <2>1. \/ d \in DOMAIN app[w].pending
          \/ \E j \in 1 .. handled[w] : j \notin missed[w] /\ d = decided[j]
      BY DEF HeldInv, VotedHeld
    <2>2. CASE w # v
      BY <1>5, <2>1, <2>2
    <2>3. CASE w = v
      BY <1>2, <1>4, <1>5, <2>1, <2>3 DEF n
    <2> QED BY <2>2, <2>3
  <1> QED BY <1>1, <1>6 DEF HeldInv, VotedByAll

LEMMA QuorumIsEverybody ==
    ASSUME NEW n \in Nat, n <= 3, n # 0 PROVE Quorum(n) = n
  <1>1. n \in {1, 2, 3}
    OBVIOUS
  <1>2. Quorum(1) = 1 /\ Quorum(2) = 2 /\ Quorum(3) = 3
    BY DEF Quorum
  <1> QED BY <1>1, <1>2

(* A new certificate has everybody's vote.                                 *)
LEMMA NotarizeKeepsHeld ==
    ASSUME Cardinality(Validators) <= 3, HeldInv, Notarize
    PROVE  HeldInv'
  <1>1. PICK digest \in proposed :
           /\ Cardinality({v \in Validators : digest \in voted[v]})
                 >= Quorum(Cardinality(Validators))
           /\ notarized' = notarized \cup {digest}
           /\ UNCHANGED <<app, voted, decided, handled, missed>>
    BY DEF Notarize, place_vars
  <1>2. \A v \in Validators : digest \in voted[v]
    <2> DEFINE S == {v \in Validators : digest \in voted[v]}
    <2>1. IsFiniteSet(Validators) /\ S \subseteq Validators
      BY DevnetAssumption
    <2>2. Cardinality(S) >= Cardinality(Validators)
      <3>1. Cardinality(Validators) \in Nat /\ Cardinality(Validators) # 0
        BY DevnetAssumption, FS_CardinalityType, FS_EmptySet
      <3> QED BY <1>1, <3>1, QuorumIsEverybody
    <2> HIDE DEF S
    <2>3. /\ IsFiniteSet(S) /\ Cardinality(S) \in Nat /\ Cardinality(Validators) \in Nat
          /\ Cardinality(S) <= Cardinality(Validators)
          /\ Cardinality(S) = Cardinality(Validators) => S = Validators
      BY <2>1, FS_Subset, FS_CardinalityType
    <2>4. S = Validators
      BY <2>2, <2>3
    <2> QED BY <2>4 DEF S
  <1>3. VotedByAll'
    BY <1>1, <1>2 DEF HeldInv, VotedByAll
  <1> QED BY <1>1, <1>3 DEF HeldInv, VotedHeld

LEMMA DecideKeepsHeld == ASSUME ShapeInv, ChainInv, HeldInv, Decide PROVE HeldInv'
  <1>1. UNCHANGED <<app, voted, notarized, handled, missed>>
    BY DEF Decide, place_vars
  <1>2. /\ Len(decided) \in Nat
        /\ \A i \in 1 .. Len(decided) : decided'[i] = decided[i]
    BY DecideFacts
  <1>3. \A v \in Validators : \A i \in 1 .. handled[v] : i \in 1 .. Len(decided)
    BY <1>2 DEF ShapeInv, Certificates
  <1>4. VotedHeld'
    BY <1>1, <1>2, <1>3 DEF HeldInv, VotedHeld
  <1> QED BY <1>1, <1>4 DEF HeldInv, VotedByAll

LEMMA InitEstablishesHeld == Init => HeldInv
  <1> SUFFICES ASSUME Init PROVE HeldInv
    OBVIOUS
  <1>1. voted = [v \in Validators |-> {}] /\ notarized = {GenesisHash}
    BY DEF Init, Everywhere
  <1> QED BY <1>1 DEF HeldInv, VotedByAll, VotedHeld

LEMMA IdleKeepsHeld ==
    ASSUME HeldInv, UNCHANGED <<app, voted, handled, missed, notarized, decided>>
    PROVE  HeldInv'
  BY DEF HeldInv, VotedByAll, VotedHeld

LEMMA StepKeepsHeld ==
    ASSUME Cardinality(Validators) <= 3, ShapeInv, ChainInv, HeldInv, [Next]_vars
    PROVE  HeldInv'
  <1>1. ASSUME NEW v \in Validators, Boot(v) PROVE HeldInv'
    BY <1>1, IdleKeepsHeld DEF Boot, consensus_vars, place_vars
  <1>2. ASSUME NEW v \in Validators, Validator(v) PROVE HeldInv'
    BY <1>2, ProposeKeepsHeld, VerifyKeepsHeld, BroadcastKeepsHeld, SendKeepsHeld,
       ReceiveKeepsHeld, FinalizeKeepsHeld DEF Validator
  <1>3. CASE UNCHANGED vars
    BY <1>3, IdleKeepsHeld DEF vars, place_vars
  <1> QED BY <1>1, <1>2, <1>3, NotarizeKeepsHeld, DecideKeepsHeld DEF Next

(* With every vote needed, what is voted for is at hand until handled.     *)
THEOREM HeldInvariance ==
    ASSUME Cardinality(Validators) <= 3 PROVE Spec => []HeldInv
  <1>1. ShapeInv /\ ChainInv /\ HeldInv /\ [Next]_vars => HeldInv'
    BY StepKeepsHeld
  <1> QED BY <1>1, InitEstablishesHeld, ShapeInvariance, ChainInvariance, PTL DEF Spec

(* Heights tell the decided blocks apart, so a block whose certificate the *)
(* validator has not handled is none of the handled ones and must be at    *)
(* hand.                                                                   *)
LEMMA InvImpliesHeld == ShapeInv /\ ChainInv /\ HeldInv => DecidedIsHeld
  <1> SUFFICES ASSUME ShapeInv, ChainInv, HeldInv, NEW v \in Validators,
                      NEW i \in (handled[v] + 1 .. Len(decided)) \cup missed[v]
               PROVE  decided[i] \in DOMAIN app[v].pending
    BY DEF DecidedIsHeld
  <1>1. /\ Len(decided) \in Nat /\ handled[v] \in 1 .. Len(decided)
        /\ missed[v] \subseteq 2 .. handled[v] - 1
        /\ decided \in Seq(notarized)
    BY LenProperties DEF ShapeInv, Certificates
  <1>2. i \in 1 .. Len(decided) /\ i > 1 /\ (i > handled[v] \/ i \in missed[v])
    BY <1>1
  <1>3. decided[i] \in notarized /\ Header(decided[i]).height = i - 1
    BY <1>1, <1>2, ElementOfSeq DEF ChainInv, DecidedChain
  <1>4. decided[i] # GenesisHash
    BY <1>2, <1>3, GenesisFacts
  <1>5. decided[i] \in voted[v]
    BY <1>3, <1>4 DEF HeldInv, VotedByAll
  <1>6. ASSUME NEW j \in 1 .. handled[v], j \notin missed[v] PROVE decided[i] # decided[j]
    <2>1. j \in 1 .. Len(decided) /\ j # i
      BY <1>1, <1>2, <1>6
    <2>2. Header(decided[j]).height = j - 1
      BY <2>1 DEF ChainInv, DecidedChain
    <2>3. i - 1 # j - 1
      BY <1>1, <1>2, <2>1
    <2> QED BY <1>3, <2>2, <2>3
  <1> QED BY <1>5, <1>6 DEF HeldInv, VotedHeld

(* For every roster of at most three (main.rs has three): when a block is  *)
(* decided, every validator that has not handled its certificate has it in *)
(* `pending`, however late it was started, whatever blocks it missed, and  *)
(* also when a later certificate has taken the place of this one.          *)
THEOREM DecidedBlocksAreHeld ==
    ASSUME Cardinality(Validators) <= 3
    PROVE  Spec => []DecidedIsHeld
  BY InvImpliesHeld, ShapeInvariance, ChainInvariance, HeldInvariance, PTL


-----------------------------------------------------------------------------
(* Accounts and store are a function of the certificates handled.          *)

Commits == INSTANCE Loops WITH Round <- LAMBDA env, x, digest : Commit(x, digest)

Replay(chain, n) == Commits!After(0, chain, Books(NewApp(Allocations, SeedTxs)), n)

(* A chain as a validator sees it that is never told of some places: there *)
(* it sees genesis, which changes nothing.                                 *)
Seen(chain, gaps) == [i \in Nat |-> IF i \in gaps THEN GenesisHash ELSE chain[i]]

(* The latest certificate may be told again, and changes nothing then.     *)
ReplicaInv ==
    \A v \in Validators :
        /\ Books(app[v]) = Replay(Seen(decided, missed[v]), handled[v])
        /\ Commit(Books(app[v]), decided[handled[v]]) = Books(app[v])

LEMMA ReplayMore ==
    ASSUME NEW chain, NEW n \in Nat
    PROVE  Replay(chain, n + 1) = Commit(Replay(chain, n), chain[n + 1])
  BY Commits!AfterNext DEF Replay

LEMMA ReplayPrefix ==
    ASSUME NEW chain, NEW longer, NEW n \in Nat, \A i \in 1 .. n : longer[i] = chain[i]
    PROVE  Replay(longer, n) = Replay(chain, n)
  BY Commits!AfterPrefix DEF Replay

LEMMA ReplayIdle ==
    ASSUME NEW chain, NEW n \in Nat, NEW m \in Nat,
           \A j \in n + 1 .. n + m : chain[j] = GenesisHash
    PROVE  Replay(chain, n + m) = Replay(chain, n)
  <1> DEFINE S == {k \in 0 .. m : Replay(chain, n + k) = Replay(chain, n)}
  <1>1. 0 \in S
    <2>1. n + 0 = n
      OBVIOUS
    <2> QED BY <2>1
  <1>2. ASSUME NEW k \in 1 .. m, k - 1 \in S PROVE k \in S
    <2>1. n + (k - 1) \in Nat /\ (n + (k - 1)) + 1 = n + k /\ n + k \in n + 1 .. n + m
      OBVIOUS
    <2>2. Replay(chain, (n + (k - 1)) + 1) = Commit(Replay(chain, n + (k - 1)), chain[n + k])
      BY <2>1, ReplayMore
    <2>3. Replay(chain, n + k) = Replay(chain, n + (k - 1))
      BY <2>1, <2>2 DEF Commit
    <2> QED BY <1>2, <2>3
  <1> HIDE DEF S
  <1>3. \A k \in 0 .. m : k \in S
    BY <1>1, <1>2, Commits!BoundedInduction
  <1>4. m \in 0 .. m
    OBVIOUS
  <1> QED BY <1>3, <1>4 DEF S

(* A longer chain, of which the same places up to n are seen.              *)
LEMMA SeenPrefix ==
    ASSUME NEW chain, NEW gaps, NEW longer, NEW more, NEW n \in Nat,
           \A i \in 1 .. n : longer[i] = chain[i] /\ (i \in more <=> i \in gaps)
    PROVE  Replay(Seen(longer, more), n) = Replay(Seen(chain, gaps), n)
  <1>1. \A i \in 1 .. n : Seen(longer, more)[i] = Seen(chain, gaps)[i]
    BY DEF Seen
  <1> QED BY <1>1, ReplayPrefix

(* The next certificate that is handled, with those between missed.        *)
LEMMA SeenNext ==
    ASSUME NEW chain, NEW n \in Nat, NEW i \in Nat, n < i,
           NEW gaps, gaps \subseteq 0 .. n, NEW more, more = gaps \cup (n + 1 .. i - 1)
    PROVE  Replay(Seen(chain, more), i) = Commit(Replay(Seen(chain, gaps), n), chain[i])
  <1> DEFINE seen == Seen(chain, more)
             m == i - 1 - n
  <1>1. m \in Nat /\ n + m = i - 1 /\ i - 1 \in Nat /\ (i - 1) + 1 = i
    OBVIOUS
  <1>2. seen[i] = chain[i] /\ \A j \in n + 1 .. n + m : seen[j] = GenesisHash
    BY DEF Seen
  <1>3. Replay(seen, n) = Replay(Seen(chain, gaps), n)
    <2>1. \A j \in 1 .. n : j \in more <=> j \in gaps
      OBVIOUS
    <2> QED BY <2>1, SeenPrefix
  <1> HIDE DEF seen, m
  <1>4. Replay(seen, n + m) = Replay(seen, n)
    BY <1>1, <1>2, ReplayIdle
  <1>5. Replay(seen, (i - 1) + 1) = Commit(Replay(seen, i - 1), seen[(i - 1) + 1])
    BY <1>1, ReplayMore
  <1>6. Replay(seen, i) = Commit(Replay(Seen(chain, gaps), n), chain[i])
    BY <1>1, <1>2, <1>3, <1>4, <1>5
  <1> QED BY <1>6 DEF seen

LEMMA InitEstablishesReplicas == Init => ReplicaInv
  <1> SUFFICES ASSUME Init, NEW v \in Validators
               PROVE  /\ Books(app[v]) = Replay(Seen(decided, missed[v]), handled[v])
                      /\ Commit(Books(app[v]), decided[handled[v]]) = Books(app[v])
    BY DEF ReplicaInv
  <1> DEFINE a == NewApp(Allocations, SeedTxs)
             seen == Seen(decided, missed[v])
  <1>1. app[v] = a /\ handled[v] = 1 /\ decided[1] = GenesisHash /\ missed[v] = {}
    BY DEF Init, Everywhere
  <1>2. seen[0 + 1] = GenesisHash
    BY <1>1 DEF Seen
  <1>3. Replay(seen, 1) = Books(a)
    <2> HIDE DEF seen
    <2>1. Replay(seen, 0) = Books(a)
      BY Commits!AfterNone DEF Replay
    <2>2. Replay(seen, 0 + 1) = Commit(Replay(seen, 0), seen[0 + 1])
      BY ReplayMore
    <2> QED BY <1>2, <2>1, <2>2 DEF Commit
  <1> QED BY <1>1, <1>3 DEF Commit

LEMMA KeptKeepsReplicas == ASSUME Certificates, ReplicaInv, LedgersKept PROVE ReplicaInv'
  <1> SUFFICES ASSUME NEW v \in Validators
               PROVE  /\ Books(app[v])' = Replay(Seen(decided', missed'[v]), handled'[v])
                      /\ Commit(Books(app[v])', decided'[handled'[v]]) = Books(app[v])'
    BY DEF ReplicaInv, Books
  <1>1. /\ Len(decided) \in Nat /\ handled[v] \in 1 .. Len(decided)
        /\ handled' = handled /\ missed' = missed
    BY LenProperties DEF Certificates, LedgersKept
  <1>2. handled[v] \in Nat /\ \A i \in 1 .. handled[v] : decided'[i] = decided[i]
    BY <1>1 DEF LedgersKept
  <1>3. Replay(Seen(decided', missed[v]), handled[v]) = Replay(Seen(decided, missed[v]), handled[v])
    BY <1>2, SeenPrefix
  <1>4. Books(app[v])' = Books(app[v]) /\ decided'[handled[v]] = decided[handled[v]]
    BY <1>1 DEF LedgersKept
  <1>5. /\ Books(app[v]) = Replay(Seen(decided, missed[v]), handled[v])
        /\ Commit(Books(app[v]), decided[handled[v]]) = Books(app[v])
    BY DEF ReplicaInv
  <1> QED BY <1>1, <1>3, <1>4, <1>5

LEMMA SettlesKeepsReplicas ==
    ASSUME ShapeInv, ChainInv, HeldInv, ReplicaInv, NEW v \in Validators,
           NEW i \in handled[v] .. Len(decided), Settles(v, i)
    PROVE  ReplicaInv'
  <1> DEFINE n == handled[v]
             gaps == missed[v]
             more == gaps \cup (n + 1 .. i - 1)
             books == Books(app[v])
             after == Books(app[v])'
  <1>1. /\ n \in Nat \ {0} /\ i \in Nat
        /\ \A w \in Validators : w # v => Books(app[w])' = Books(app[w])
        /\ \/ decided[i] \notin DOMAIN app[v].pending /\ after = books
           \/ /\ decided[i] \in DOMAIN app[v].pending
              /\ after = Commit(books, decided[i])
              /\ Commit(after, decided[i]) = after
    BY SettlesFacts
  <1>2. /\ i \in n .. Len(decided) /\ decided' = decided
        /\ handled'[v] = i /\ missed'[v] = more
        /\ \A w \in Validators : w # v => handled'[w] = handled[w] /\ missed'[w] = missed[w]
    BY DEF Settles
  <1>3. gaps \subseteq 2 .. n - 1 /\ Len(decided) \in Nat
    BY LenProperties DEF ShapeInv, Certificates
  <1>4. books = Replay(Seen(decided, gaps), n) /\ Commit(books, decided[n]) = books
    BY DEF ReplicaInv
  <1>5. /\ after = Replay(Seen(decided, more), i)
        /\ Commit(after, decided[i]) = after
    <2>1. CASE i = n
      <3>1. more = gaps
        BY <1>1, <2>1
      <3> HIDE DEF more, gaps, books, after, n
      <3>2. after = books
        BY <1>1, <1>4, <2>1
      <3> QED BY <1>4, <2>1, <3>1, <3>2
    <2>2. CASE i # n
      <3>1. /\ n \in Nat /\ i \in Nat /\ n < i /\ gaps \subseteq 0 .. n
            /\ i \in n + 1 .. Len(decided)
        BY <1>1, <1>2, <1>3, <2>2
      <3>2. decided[i] \in DOMAIN app[v].pending
        BY <3>1, InvImpliesHeld DEF DecidedIsHeld
      <3>3. more = gaps \cup (n + 1 .. i - 1)
        OBVIOUS
      <3> HIDE DEF more, gaps, books, after, n
      <3>4. Replay(Seen(decided, more), i) = Commit(Replay(Seen(decided, gaps), n), decided[i])
        BY <3>1, <3>3, SeenNext, Zenon
      <3> QED BY <1>1, <1>4, <3>2, <3>4
    <2> QED BY <2>1, <2>2
  <1> HIDE DEF more, gaps, n
  <1>6. ASSUME NEW w \in Validators
        PROVE  /\ Books(app[w])' = Replay(Seen(decided', missed'[w]), handled'[w])
               /\ Commit(Books(app[w])', decided'[handled'[w]]) = Books(app[w])'
    <2>1. CASE w = v
      BY <1>2, <1>5, <2>1
    <2>2. CASE w # v
      <3>1. /\ Books(app[w])' = Books(app[w])
            /\ handled'[w] = handled[w] /\ missed'[w] = missed[w]
        BY <1>1, <1>2, <2>2
      <3>2. /\ Books(app[w]) = Replay(Seen(decided, missed[w]), handled[w])
            /\ Commit(Books(app[w]), decided[handled[w]]) = Books(app[w])
        BY DEF ReplicaInv
      <3> QED BY <1>2, <3>1, <3>2
    <2> QED BY <2>1, <2>2
  <1> QED BY <1>6 DEF ReplicaInv, Books

(* With every vote needed, the certificates handled determine the books.   *)
THEOREM ReplicaInvariance ==
    ASSUME Cardinality(Validators) <= 3 PROVE Spec => []ReplicaInv
  <1>1. ShapeInv /\ ChainInv /\ HeldInv /\ ReplicaInv /\ [Next]_vars => ReplicaInv'
    BY StepSettles, KeptKeepsReplicas, SettlesKeepsReplicas DEF ShapeInv
  <1> QED BY <1>1, InitEstablishesReplicas, ShapeInvariance, ChainInvariance,
             HeldInvariance, PTL DEF Spec

(* For every roster of at most three, whatever certificates are skipped or *)
(* told twice: validators that have handled the same ones have the same    *)
(* accounts and the same store, whatever each has received, proposed,      *)
(* rejected and in which order.                                            *)
THEOREM ReplicasStayEqual ==
    ASSUME Cardinality(Validators) <= 3
    PROVE  Spec => []ReplicasAgree
  <1>1. ReplicaInv => ReplicasAgree
    BY BooksFacts DEF ReplicaInv, ReplicasAgree
  <1> QED BY <1>1, ReplicaInvariance, PTL
===============================================================================
