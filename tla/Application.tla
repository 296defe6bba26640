------------------------------ MODULE Application -----------------------------
(***************************************************************************)
(* One validator: the application actor with its FIFO mailbox, driven by   *)
(* the consensus engine and by the block relay.  The actor handles one     *)
(* message at a time; between two of them anything else may happen.        *)
(*                                                                         *)
(* The engine (commonware Simplex) and the network are not part of the     *)
(* repository.  They are the environment, kept to what the code relies on: *)
(*   - a parent handed to propose or verify has been notarized;            *)
(*   - a block is notarized only when its parent is, and, where every      *)
(*     validator's vote is needed (n - f = n), only when this one voted;   *)
(*   - a vote follows this node's own proposal or a `true` from verify;    *)
(*   - what is decided (finalized) is one chain of notarized blocks; a     *)
(*     certificate may be skipped, a later one stands for its ancestors;   *)
(*   - a peer's broadcast arrives late, out of order or never, and the     *)
(*     engine may have given up on a question before it is answered.       *)
(***************************************************************************)
EXTENDS App

CONSTANTS
    Self,               \* address of this validator's signing key
    Peer,               \* address the other validators propose under
    Allocations,        \* genesis allocations
    SeedTxs,            \* transactions queued before the node started
    Bodies,             \* bodies of the blocks that peers may propose
    Timestamps,         \* what now_secs() may read
    OwnVoteNeeded,      \* TRUE when the quorum is every validator
    SkipCertificates,   \* TRUE if a finalization certificate may be skipped
    ConformingPeers,    \* TRUE if peers build on the parent they claim, number
                        \* the block parent + 1 and encode it
    PeersRepeat,        \* TRUE if a peer's block may be broadcast again, as when
                        \* it is proposed in two views of one second
    MaxRestarts,        \* bound: restarts of the process, 0 for a run without
    MaxHeight,          \* bound: height of the tallest block
    MaxBlocks,          \* bound: blocks on the wire
    MaxMailbox          \* bound: messages waiting (the code's queue is unbounded)

ASSUME ApplicationAssumption ==
    /\ OwnVoteNeeded \in BOOLEAN
    /\ SkipCertificates \in BOOLEAN
    /\ ConformingPeers \in BOOLEAN
    /\ PeersRepeat \in BOOLEAN
    /\ MaxHeight \in Nat
    /\ MaxRestarts \in Nat
    /\ Self # Peer

(* What is executed is a list of transactions whose amounts and nonces are *)
(* u64 in the code; so are the amounts of the allocations.                 *)
ASSUME BodiesAssumption ==
    \A body \in Bodies \cup {SeedTxs} :
        /\ body \in Seq(Range(body))
        /\ \A i \in DOMAIN body : body[i].amount \in Nat /\ body[i].nonce \in Nat

ASSUME AllocationsAssumption ==
    /\ Allocations \in Seq(Range(Allocations))
    /\ \A i \in DOMAIN Allocations : Allocations[i][2] \in 0 .. MaxU64

VARIABLES
    app,        \* the actor's state, module App
    mailbox,    \* messages enqueued and not yet received, oldest first
    wire,       \* blocks that have been broadcast, by peers or from blocks_out
    inbound,    \* blocks of peers that have not arrived here
    relay,      \* own digests the engine is about to have broadcast
    voted,      \* digests this validator has voted to notarize
    notarized,  \* digests with a notarization
    decided,    \* the finalized chain, genesis first
    settled,    \* digest -> how finalize ended for it since the last start
    restarts    \* how often the process was restarted

vars ==
    <<app, mailbox, wire, inbound, relay, voted, notarized, decided, settled, restarts>>

engine_vars == <<relay, voted, notarized, decided>>
network_vars == <<wire, inbound>>

Init ==
    /\ app = NewApp(Allocations, SeedTxs)
    /\ mailbox = <<>>
    /\ wire = {}
    /\ inbound = {}
    /\ relay = {}
    /\ voted = {}
    /\ notarized = {}
    /\ decided = <<>>
    /\ settled = EmptyMap
    /\ restarts = 0

(* A digest is ideal: it holds the header it was computed from.            *)
Header(digest) == digest[2]

-----------------------------------------------------------------------------
(* The mailbox: enqueue never refuses and never reorders (its overflow     *)
(* policy pushes to the back).                                             *)

(* Faulty variant: newest first.                                           *)
Push(queue, message) == <<message>> \o queue

Enqueue(queue, message) == Append(queue, message)

Send(message) ==
    /\ Len(mailbox) < MaxMailbox
    /\ mailbox' = Enqueue(mailbox, message)

Received(type) == mailbox # <<>> /\ Head(mailbox).type = type

-----------------------------------------------------------------------------
(* The actor: one action for each arm of `run`.                            *)

HandleGenesis ==
    /\ Received("Genesis")
    /\ mailbox' = Tail(mailbox)
    /\ notarized' = notarized \cup {GenesisHash}
    /\ decided' = <<GenesisHash>>
    /\ UNCHANGED <<app, network_vars, relay, voted, settled>>

(* The engine votes for the digest and has it broadcast, unless the view   *)
(* is over and it no longer listens.                                       *)
HandlePropose ==
    /\ Received("Propose")
    /\ mailbox' = Tail(mailbox)
    /\ \E timestamp \in Timestamps, listening \in BOOLEAN :
        \E block \in Proposals(app, Head(mailbox).parent, timestamp, Self) :
            /\ app' = Stash(app, block)
            /\ voted' = IF listening THEN voted \cup {BlockHash(block)} ELSE voted
            /\ relay' = IF listening THEN relay \cup {BlockHash(block)} ELSE relay
    /\ UNCHANGED <<network_vars, notarized, decided, settled>>

(* An unknown parent: no answer is sent.                                   *)
ProposeFails ==
    /\ Received("Propose")
    /\ ~Knows(app, Head(mailbox).parent)
    /\ mailbox' = Tail(mailbox)
    /\ UNCHANGED <<app, network_vars, engine_vars, settled>>

HandleVerify ==
    /\ Received("Verify")
    /\ mailbox' = Tail(mailbox)
    /\ LET digest == Head(mailbox).digest
       IN  \/ /\ VerifyAnswer(app, Head(mailbox).parent, digest)
              /\ voted' = voted \cup {digest}
           \/ UNCHANGED voted           \* false, or nobody listens any more
    /\ UNCHANGED <<app, network_vars, relay, notarized, decided, settled>>

(* A repeated Finalize matters only if it commits the block after all.     *)
Settle(digest, outcome) ==
    IF digest \in DOMAIN settled /\ outcome # "committed" THEN settled
    ELSE Bind(settled, digest, outcome)

HandleFinalize ==
    /\ Received("Finalize")
    /\ mailbox' = Tail(mailbox)
    /\ LET digest == Head(mailbox).digest
       IN  /\ app' = AfterFinalize(app, digest)
           /\ settled' = Settle(digest, FinalizeOutcome(app, digest))
    /\ UNCHANGED <<network_vars, engine_vars>>

HandleBroadcast ==
    /\ Received("Broadcast")
    /\ mailbox' = Tail(mailbox)
    /\ app' = AfterBroadcast(app, Head(mailbox).digest)
    /\ UNCHANGED <<network_vars, engine_vars, settled>>

HandleStoreBlock ==
    /\ Received("StoreBlock")
    /\ mailbox' = Tail(mailbox)
    /\ app' = AfterStoreBlock(app, Head(mailbox).bytes)
    /\ UNCHANGED <<network_vars, engine_vars, settled>>

Actor ==
    \/ HandleGenesis \/ HandlePropose \/ ProposeFails \/ HandleVerify
    \/ HandleFinalize \/ HandleBroadcast \/ HandleStoreBlock

-----------------------------------------------------------------------------
(* The engine.                                                             *)

AskGenesis ==
    /\ decided = <<>>
    /\ \A i \in DOMAIN mailbox : mailbox[i].type # "Genesis"
    /\ Send([type |-> "Genesis"])
    /\ UNCHANGED <<app, network_vars, engine_vars, settled>>

(* Views move on: of the decided chain, only its last block is built on.   *)
Parents == notarized \ {decided[i] : i \in 1 .. Len(decided) - 1}

AskPropose ==
    \E parent \in Parents :
        /\ Header(parent).height < MaxHeight
        /\ Send([type |-> "Propose", parent |-> parent])
        /\ UNCHANGED <<app, network_vars, engine_vars, settled>>

(* A conforming peer claims the parent that its block was built on.        *)
AskVerify ==
    \E parent \in Parents, block \in wire :
        /\ block.header.proposer = Peer
        /\ ConformingPeers => block.header.parent_hash = parent
        /\ Send([type |-> "Verify", parent |-> parent, digest |-> BlockHash(block)])
        /\ UNCHANGED <<app, network_vars, engine_vars, settled>>

(* Relay::broadcast, after a proposal of our own.                          *)
AskBroadcast ==
    \E digest \in relay :
        /\ Send([type |-> "Broadcast", digest |-> digest])
        /\ relay' = relay \ {digest}
        /\ UNCHANGED <<app, network_vars, voted, notarized, decided, settled>>

Notarize ==
    \E block \in wire :
        /\ BlockHash(block) \notin notarized
        /\ block.header.parent_hash \in Parents
        /\ OwnVoteNeeded => BlockHash(block) \in voted
        /\ notarized' = notarized \cup {BlockHash(block)}
        /\ UNCHANGED <<app, mailbox, network_vars, relay, voted, decided, settled>>

(* The chain grows by a notarized block, and the reporter forwards the     *)
(* certificate, unless this node never sees it and a later one stands for  *)
(* it (so not for the tallest block of the bounded chain).                 *)
Decide ==
    \E digest \in notarized :
        /\ decided # <<>>
        /\ Header(digest).parent_hash = decided[Len(decided)]
        /\ decided' = Append(decided, digest)
        /\ \/ Send([type |-> "Finalize", digest |-> digest])
           \/ /\ SkipCertificates
              /\ Header(digest).height < MaxHeight
              /\ UNCHANGED mailbox
        /\ UNCHANGED <<app, network_vars, relay, voted, notarized, settled>>

(* The latest certificate reported once more; older ones are not, the      *)
(* engine has moved past their views.                                      *)
ReportAgain ==
    /\ decided # <<>>
    /\ decided[Len(decided)] \in DOMAIN settled
    /\ Send([type |-> "Finalize", digest |-> decided[Len(decided)]])
    /\ UNCHANGED <<app, network_vars, engine_vars, settled>>

Engine ==
    \/ AskGenesis \/ AskPropose \/ AskVerify \/ AskBroadcast
    \/ Notarize \/ Decide \/ ReportAgain

-----------------------------------------------------------------------------
(* The network and the relay tasks of Node::run.                           *)

PeerHeights(parent) ==
    IF ConformingPeers THEN {Header(parent).height + 1} ELSE 1 .. MaxHeight

PeerProposes ==
    \E parent \in notarized \cup {GenesisHash}, body \in Bodies, timestamp \in Timestamps :
        \E height \in PeerHeights(parent) :
            LET block == NewBlock(height, parent, timestamp, Peer, body)
            IN  /\ height <= MaxHeight
                /\ Cardinality(wire \cup {block}) <= MaxBlocks
                /\ PeersRepeat \/ block \notin wire
                /\ wire' = wire \cup {block}
                /\ inbound' = inbound \cup {block}
                /\ UNCHANGED <<app, mailbox, engine_vars, settled>>

(* Task block_in.                                                          *)
DeliverBlock ==
    \E block \in inbound :
        /\ Send([type |-> "StoreBlock", bytes |-> block])
        /\ inbound' = inbound \ {block}
        /\ UNCHANGED <<app, wire, engine_vars, settled>>

DeliverGarbage ==
    /\ ~ConformingPeers
    /\ Send([type |-> "StoreBlock", bytes |-> Undecodable])
    /\ UNCHANGED <<app, network_vars, engine_vars, settled>>

(* Task block_out.                                                         *)
SendBlock ==
    /\ app.blocks_out # <<>>
    /\ Cardinality(wire) < MaxBlocks
    /\ wire' = wire \cup {Head(app.blocks_out)}
    /\ app' = [app EXCEPT !.blocks_out = Tail(app.blocks_out)]
    /\ UNCHANGED <<mailbox, inbound, engine_vars, settled>>

Network == PeerProposes \/ DeliverBlock \/ DeliverGarbage \/ SendBlock

-----------------------------------------------------------------------------
(* The process ends and Node::run boots again.  Everything the node keeps  *)
(* is in memory and starts from genesis; the engine has its journal (the   *)
(* `partition` and `replay_buffer` of Tuning), the votes it has cast are   *)
(* with the others, and what is under way may still arrive.                *)

(* Faulty variant: the blocks survive, the accounts do not.                *)
KeptBlocks(old) == [NewApp(Allocations, SeedTxs) EXCEPT !.blocks = old.blocks]

Rebooted(old) == NewApp(Allocations, SeedTxs)

Restart ==
    /\ restarts < MaxRestarts
    /\ restarts' = restarts + 1
    /\ app' = Rebooted(app)
    /\ mailbox' = <<>>
    /\ relay' = {}
    /\ settled' = EmptyMap
    /\ UNCHANGED <<network_vars, voted, notarized, decided>>

(* What the journal holds of the decided chain is reported again, oldest   *)
(* first; old entries may have been pruned from it.                        *)
ReplayJournal ==
    /\ restarts > 0
    /\ \E i \in DOMAIN decided \ {1} :
          /\ \A j \in i .. Len(decided) :
                /\ decided[j] \notin DOMAIN settled
                /\ \A k \in DOMAIN mailbox :
                      mailbox[k].type = "Finalize" => mailbox[k].digest # decided[j]
          /\ Send([type |-> "Finalize", digest |-> decided[i]])
    /\ UNCHANGED <<app, network_vars, engine_vars, settled, restarts>>

Next ==
    \/ (Actor \/ Engine \/ Network) /\ UNCHANGED restarts
    \/ Restart
    \/ ReplayJournal

Spec == Init /\ [][Next]_vars

(* The actor's loop is a task of the runtime: a waiting message is received*)
(* sooner or later.  Nothing is assumed of the engine and the network.     *)
FairSpec == Spec /\ WF_vars(Actor /\ UNCHANGED restarts)

-----------------------------------------------------------------------------

(* Shapes: a balance fits in u64, the maps of the actor are keyed by the   *)
(* digests of the headers they hold, queues keep within their capacities,  *)
(* what is relayed was voted for and what is settled was decided.          *)
TypeOK ==
    /\ \A a \in DOMAIN app.state :
          app.state[a] \in [balance : 0 .. MaxU64, nonce : Nat]
    /\ Cardinality(DOMAIN app.mempool.txs) <= Capacity
    /\ \A d \in DOMAIN app.pending : app.pending[d].header = Header(d)
    /\ \A d \in DOMAIN app.blocks.blocks : app.blocks.blocks[d].header = Header(d)
    /\ Len(app.blocks_out) <= BlocksOutCapacity
    /\ \A i \in DOMAIN mailbox :
          mailbox[i].type \in {"Genesis", "Propose", "Verify", "Finalize",
                               "Broadcast", "StoreBlock"}
    /\ inbound \subseteq wire
    /\ relay \subseteq voted
    /\ DOMAIN settled \subseteq {decided[i] : i \in DOMAIN decided}

(* The height index and the blocks of the store agree: every height leads  *)
(* to a stored block of that height, and every stored block is the one its *)
(* height leads to, so none has been overwritten by another at its height. *)
StoreIndexed ==
    LET store == app.blocks
    IN  /\ \A h \in DOMAIN store.height_index :
              /\ store.height_index[h] \in DOMAIN store.blocks
              /\ store.blocks[store.height_index[h]].header.height = h
        /\ \A d \in DOMAIN store.blocks :
              /\ store.blocks[d].header.height \in DOMAIN store.height_index
              /\ store.height_index[store.blocks[d].header.height] = d

(* A block this validator has voted for stays in `pending` until its       *)
(* finalization is handled: no proposal, late block or finalized sibling   *)
(* may push it out, or the certificate would find nothing to apply.  Only a*)
(* restart loses it.                                                       *)
VotedBlockHeld == voted \subseteq DOMAIN app.pending \cup DOMAIN settled

(* Where every validator's vote is needed, `finalize` never answers "block *)
(* missing" to the first certificate of a block, as long as nothing is     *)
(* restarted.                                                              *)
NeverMissing == \A d \in DOMAIN settled : settled[d] # "missing"

(* Every vote is for a block one above its parent (actor.rs:160), which    *)
(* this validator knows when it votes: where its own vote is needed, it    *)
(* has voted for the parent and still holds it.  The one exception is a    *)
(* parent that was finalized and refused; nobody holds it any more, and    *)
(* verify compares nothing (actor.rs:172).                                 *)
VotesSequential ==
    [][\A d \in voted' \ voted :
          LET parent == Header(d).parent_hash
          IN  IF Knows(app, parent) THEN Header(d).height = Header(parent).height + 1
              ELSE parent \in DOMAIN settled /\ settled[parent] = "rejected"]_vars

(* actor.rs:160, "Accept a proposal iff it builds on the consensus-        *)
(* designated `parent` with a sequential height": a block that was voted   *)
(* for is one above its parent, if this validator knows the parent by now. *)
VotedSequential ==
    \A d \in voted :
        Knows(app, Header(d).parent_hash) =>
            Header(d).height
                = BlockByDigest(app, Header(d).parent_hash).header.height + 1

(* The broadcast of an own proposal finds the block, unless its decision   *)
(* has been handled already: the same block can be proposed twice, in two  *)
(* views of one second.                                                    *)
BroadcastFindsBlock ==
    Received("Broadcast") =>
        \/ BroadcastOutcome(app, Head(mailbox).digest) # "miss"
        \/ Head(mailbox).digest \in DOMAIN settled

(* No transaction of a finalized block is still in the mempool.            *)
PoolForgetsCommitted ==
    \A d \in DOMAIN app.blocks.blocks :
        \A i \in DOMAIN app.blocks.blocks[d].transactions :
            TxHash(app.blocks.blocks[d].transactions[i]) \notin DOMAIN app.mempool.txs

(* builder.rs:42-43, "the proposer's reward is paid out by                 *)
(* `StateStore::apply_block`": whoever proposed a finalized block has a    *)
(* balance.                                                                *)
ProposerIsRewarded ==
    \A d \in DOMAIN app.blocks.blocks \ {GenesisHash} :
        GetBalance(app.state, app.blocks.blocks[d].header.proposer) > 0

(* actor.rs:161-162, the dry run happens "only when `parent` is our        *)
(* finalized tip (otherwise we lack the parent's state to execute          *)
(* against)": at the tip, the state is that of the tip's whole ancestry.   *)
TipStateIsComplete ==
    \A d \in DOMAIN app.blocks.blocks \ {GenesisHash} :
        Header(d).parent_hash \in DOMAIN app.blocks.blocks

(* Where the decided chain holds the blocks that were applied.             *)
Committed ==
    {i \in DOMAIN decided :
        decided[i] \in DOMAIN settled /\ settled[decided[i]] = "committed"}

(* The store holds genesis and the blocks that were applied, and nothing   *)
(* else; its tip is the last of them in the order they were decided in.    *)
StoreIsCommitted ==
    /\ DOMAIN app.blocks.blocks = {GenesisHash} \cup {decided[i] : i \in Committed}
    /\ Committed = {} => BlockHash(TipBlock(app.blocks)) = GenesisHash
    /\ \A i \in Committed : (\A j \in Committed : j <= i) =>
          BlockHash(TipBlock(app.blocks)) = decided[i]

(* The finalized part of the actor implements the ledger: between restarts *)
(* it only grows, upwards, and the accounts are what its blocks make of    *)
(* the genesis allocations.                                                *)
Chain ==
    [h \in DOMAIN app.blocks.height_index |->
        app.blocks.blocks[app.blocks.height_index[h]]]

FinalizedLedger ==
    INSTANCE Ledger WITH chain <- Chain, accounts <- app.state, starts <- restarts

ImplementsLedger == FinalizedLedger!Spec

(* Every reported certificate is handled in the end, however many other    *)
(* questions the engine keeps asking.                                      *)
CertificatesAreHandled ==
    \A h \in 1 .. MaxHeight :
        (\E i \in DOMAIN mailbox :
            mailbox[i].type = "Finalize" /\ Header(mailbox[i].digest).height = h)
        ~> (\E d \in DOMAIN settled : Header(d).height = h)
===============================================================================
