--------------------------------- MODULE Devnet -------------------------------
(***************************************************************************)
(* The validators of a roster together, each a process of its own that is  *)
(* started at its own time: their application actors, the block channel    *)
(* between them, and the votes that Simplex counts.  What one actor does   *)
(* with its queue is module Application; here a message is handled in the  *)
(* step that takes it, and what is late is late on its way.                *)
(*                                                                         *)
(* The engines are the environment.  Views are not kept: any notarized     *)
(* block that is not below what a validator has finalized may be handed to *)
(* it as a parent, by any leader.  A certificate is formed from the votes  *)
(* of a quorum.  A validator is told of finalized blocks upwards: it may   *)
(* never be told of one, when a later certificate stands for it, and it    *)
(* may be told of the latest one again.                                    *)
(***************************************************************************)
EXTENDS App

CONSTANTS
    Validators,     \* the roster, by the address each validator signs blocks with
    Allocations,    \* genesis allocations, the same on every node
    SeedTxs,        \* transactions queued on every node before it runs
    Timestamps,     \* what now_secs() may read
    MaxHeight,      \* bound: height of the tallest block
    MaxBlocks       \* bound: blocks proposed

ASSUME DevnetAssumption ==
    /\ IsFiniteSet(Validators) /\ Validators # {}
    /\ ZeroAddr \notin Validators

(* The fields of a queued transaction and of an allocation are u64.        *)
ASSUME SeedTxsAssumption ==
    /\ SeedTxs \in Seq(Range(SeedTxs))
    /\ \A i \in DOMAIN SeedTxs : SeedTxs[i].amount \in Nat /\ SeedTxs[i].nonce \in Nat

ASSUME AllocationsAssumption ==
    /\ Allocations \in Seq(Range(Allocations))
    /\ \A i \in DOMAIN Allocations : Allocations[i][2] \in 0 .. MaxU64

VARIABLES
    up,         \* the validators that have been started
    app,        \* validator -> its actor's state
    inflight,   \* validator -> blocks that were sent to it and may arrive
    relay,      \* validator -> own digests its engine is about to have broadcast
    voted,      \* validator -> digests it has voted to notarize
    proposed,   \* digests of all blocks that were built
    notarized,  \* digests with a notarization
    decided,    \* the finalized chain, genesis first
    handled,    \* validator -> the place in `decided` its actor has got to
    missed      \* validator -> places below that whose certificate it never got

vars ==
    <<up, app, inflight, relay, voted, proposed, notarized, decided, handled, missed>>

place_vars == <<handled, missed>>

consensus_vars == <<proposed, notarized, decided>>

Everywhere(x) == [v \in Validators |-> x]

(* Node::run on every machine: one genesis, one set of queued transactions.*)
Init ==
    /\ up = {}
    /\ app = Everywhere(NewApp(Allocations, SeedTxs))
    /\ inflight = Everywhere({})
    /\ relay = Everywhere({})
    /\ voted = Everywhere({})
    /\ proposed = {}
    /\ notarized = {GenesisHash}
    /\ decided = <<GenesisHash>>
    /\ handled = Everywhere(1)
    /\ missed = Everywhere({})

(* A digest is ideal: it holds the header it was computed from.            *)
Header(digest) == digest[2]

(* Votes for a certificate: all but the faults that n validators tolerate. *)
Quorum(n) == n - (n - 1) \div 3

(* Notarized blocks not below the one at position i of the decided chain.  *)
ParentsFrom(i) == {d \in notarized : Header(d).height >= Header(decided[i]).height}

(* What the engine makes of the answer to propose.                         *)
WithAnswer(digests, block, listening) ==
    IF listening THEN digests \cup {BlockHash(block)} ELSE digests

(* The roster that Network::new tracks, as far as it is running.           *)
Connected(v) == up \ {v}

-----------------------------------------------------------------------------
(* A validator.                                                            *)

Boot(v) ==
    /\ v \notin up
    /\ up' = up \cup {v}
    /\ UNCHANGED <<app, inflight, relay, voted, place_vars, consensus_vars>>

(* The leader of a view builds; its engine votes for the block and has it  *)
(* sent, unless the view is over and it no longer listens.                 *)
HandlePropose(v) ==
    \E parent \in ParentsFrom(handled[v]), timestamp \in Timestamps :
        /\ Header(parent).height < MaxHeight
        /\ \E block \in Proposals(app[v], parent, timestamp, v), listening \in BOOLEAN :
            /\ Cardinality(proposed \cup {BlockHash(block)}) <= MaxBlocks
            /\ app' = [app EXCEPT ![v] = Stash(app[v], block)]
            /\ relay' = [relay EXCEPT ![v] = WithAnswer(relay[v], block, listening)]
            /\ voted' = [voted EXCEPT ![v] = WithAnswer(voted[v], block, listening)]
            /\ proposed' = proposed \cup {BlockHash(block)}
        /\ UNCHANGED <<up, inflight, notarized, decided, place_vars>>

(* A `true` from verify becomes a vote; a `false` leaves no trace.         *)
HandleVerify(v) ==
    \E parent \in ParentsFrom(handled[v]), digest \in proposed \ voted[v] :
        /\ VerifyAnswer(app[v], parent, digest)
        /\ voted' = [voted EXCEPT ![v] = voted[v] \cup {digest}]
        /\ UNCHANGED <<up, app, inflight, relay, place_vars, consensus_vars>>

HandleBroadcast(v) ==
    \E digest \in relay[v] :
        /\ app' = [app EXCEPT ![v] = AfterBroadcast(app[v], digest)]
        /\ relay' = [relay EXCEPT ![v] = relay[v] \ {digest}]
        /\ UNCHANGED <<up, inflight, voted, place_vars, consensus_vars>>

(* Task block_out and Channel::broadcast: to the peers that are connected, *)
(* now or never.                                                           *)
SendBlock(v) ==
    /\ app[v].blocks_out # <<>>
    /\ app' = [app EXCEPT ![v].blocks_out = Tail(app[v].blocks_out)]
    /\ inflight' = [w \in Validators |->
                      IF w \in Connected(v)
                      THEN inflight[w] \cup {Head(app[v].blocks_out)} ELSE inflight[w]]
    /\ UNCHANGED <<up, relay, voted, place_vars, consensus_vars>>

(* Channel::recv, task block_in and store_block.                           *)
ReceiveBlock(v) ==
    \E block \in inflight[v] :
        /\ app' = [app EXCEPT ![v] = AfterStoreBlock(app[v], block)]
        /\ inflight' = [inflight EXCEPT ![v] = inflight[v] \ {block}]
        /\ UNCHANGED <<up, relay, voted, place_vars, consensus_vars>>

(* A certificate is handled: the next one, a later one that stands for     *)
(* those between, or the latest one again (there is none for genesis).     *)
HandleFinalize(v) ==
    \E i \in handled[v] .. Len(decided) :
        /\ i > 1
        /\ app' = [app EXCEPT ![v] = AfterFinalize(app[v], decided[i])]
        /\ handled' = [handled EXCEPT ![v] = i]
        /\ missed' = [missed EXCEPT ![v] = missed[v] \cup (handled[v] + 1 .. i - 1)]
        /\ UNCHANGED <<up, inflight, relay, voted, consensus_vars>>

Validator(v) ==
    /\ v \in up
    /\ \/ HandlePropose(v) \/ HandleVerify(v) \/ HandleBroadcast(v)
       \/ SendBlock(v) \/ ReceiveBlock(v) \/ HandleFinalize(v)

-----------------------------------------------------------------------------
(* Certificates.                                                           *)

Notarize ==
    \E digest \in proposed \ notarized :
        /\ Header(digest).parent_hash \in ParentsFrom(Len(decided))
        /\ Cardinality({v \in Validators : digest \in voted[v]})
              >= Quorum(Cardinality(Validators))
        /\ notarized' = notarized \cup {digest}
        /\ UNCHANGED <<up, app, inflight, relay, voted, proposed, decided, place_vars>>

Decide ==
    \E digest \in notarized :
        /\ Header(digest).parent_hash = decided[Len(decided)]
        /\ decided' = Append(decided, digest)
        /\ UNCHANGED <<up, app, inflight, relay, voted, proposed, notarized, place_vars>>

Next ==
    \/ \E v \in Validators : Boot(v) \/ Validator(v)
    \/ Notarize
    \/ Decide

Spec == Init /\ [][Next]_vars

-----------------------------------------------------------------------------

(* Shapes, on every validator: a balance fits in u64, the maps are keyed by*)
(* the digests of the headers they hold, the pool and the outbound queue   *)
(* keep within their capacities; nobody votes or is voted for out of the   *)
(* blue, and what a validator missed is below the place it has got to.     *)
TypeOK ==
    /\ up \subseteq Validators
    /\ notarized \subseteq proposed \cup {GenesisHash}
    /\ \A v \in Validators :
          /\ \A a \in DOMAIN app[v].state :
                app[v].state[a] \in [balance : 0 .. MaxU64, nonce : Nat]
          /\ Cardinality(DOMAIN app[v].mempool.txs) <= Capacity
          /\ \A d \in DOMAIN app[v].pending : app[v].pending[d].header = Header(d)
          /\ \A d \in DOMAIN app[v].blocks.blocks :
                app[v].blocks.blocks[d].header = Header(d)
          /\ Len(app[v].blocks_out) <= BlocksOutCapacity
          /\ relay[v] \subseteq voted[v] /\ voted[v] \subseteq proposed
          /\ handled[v] \in 1 .. Len(decided)
          /\ missed[v] \subseteq 2 .. handled[v] - 1

(* Validators that have handled the same certificates, each at least once, *)
(* have the same accounts and the same store, whatever each has received,  *)
(* proposed and in which order (main.rs:37-38, the genesis block "matches  *)
(* across the validator set"; the rest has to follow).  Nothing is said of *)
(* validators one of which missed a certificate: their books differ.       *)
ReplicasAgree ==
    \A v, w \in Validators :
        handled[v] = handled[w] /\ missed[v] = missed[w] =>
            app[v].state = app[w].state /\ app[v].blocks = app[w].blocks

(* Every validator has at hand what is decided and what it has not handled:*)
(* a certificate stands for a block that everybody can apply, also those   *)
(* that were started late, and one whose certificate was missed is still   *)
(* there.                                                                  *)
DecidedIsHeld ==
    \A v \in Validators : \A i \in (handled[v] + 1 .. Len(decided)) \cup missed[v] :
        decided[i] \in DOMAIN app[v].pending

(* What the store of a validator shows: height -> block.                   *)
ChainOf(v) ==
    [h \in DOMAIN app[v].blocks.height_index |->
        app[v].blocks.blocks[app[v].blocks.height_index[h]]]

(* No two validators show different blocks at one height, whatever         *)
(* certificates each has missed: a store may have gaps, but no fork.       *)
StoresNeverFork ==
    \A v, w \in Validators :
        LET ours == ChainOf(v)
            theirs == ChainOf(w)
        IN  \A h \in DOMAIN ours \cap DOMAIN theirs : ours[h] = theirs[h]

(* Every validator is a ledger of its own, whatever it misses or is told   *)
(* twice: its chain only grows, upwards, and its accounts are what the     *)
(* blocks of that chain make of the genesis allocations.                   *)
Replica(v) == INSTANCE Ledger WITH chain <- ChainOf(v), accounts <- app[v].state, starts <- 0

ReplicasImplementLedger ==
    /\ \A v \in Validators : Replica(v)!Init
    /\ [][\A v \in Validators :
            UNCHANGED <<ChainOf(v), app[v].state>> \/ Replica(v)!Next]_vars

(* node.rs:47-48, "run consensus until shutdown", and actor.rs:136, "Build *)
(* the next block on the consensus-designated `parent`": when everybody has*)
(* handled what is decided and no block is on its way, somebody can build  *)
(* on a notarized block that is not below it.                              *)
ChainCanGrow ==
    (\A v \in Validators :
        /\ handled[v] = Len(decided) /\ inflight[v] = {}
        /\ relay[v] = {} /\ app[v].blocks_out = <<>>) =>
        \E v \in Validators, parent \in ParentsFrom(Len(decided)) : Knows(app[v], parent)
===============================================================================
