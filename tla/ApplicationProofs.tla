--------------------------- MODULE ApplicationProofs --------------------------
(***************************************************************************)
(* One validator, in four parts.                                           *)
(*                                                                         *)
(* A validator's vote is a promise to have the block when it is finalized  *)
(* (IInv): for every genesis, every peer behaviour, every length of the    *)
(* mailbox and of the chain, as long as the process runs, nothing but its  *)
(* finalization removes a block that was voted for from `pending`, and so, *)
(* where every vote is needed, no certificate comes for a block that is    *)
(* missing.                                                                *)
(*                                                                         *)
(* The shapes of everything a validator keeps (ShapeInv), for every quorum,*)
(* every peer behaviour and any number of restarts.                        *)
(*                                                                         *)
(* The finalized part, where peers number their blocks as they should: for *)
(* every quorum, however many certificates are skipped, repeated or        *)
(* replayed after a restart.                                               *)
(*   - The block store's two maps agree: no finalized block is overwritten *)
(*     by another at its height (IndexInv).                                *)
(*   - What is stored is what was committed, and its tip is the last of it *)
(*     (CommitInv: certificates wait in the order of the chain, and what   *)
(*     was committed has spent its nonces).                                *)
(*   - Store and accounts implement the ledger of module Ledger.  A        *)
(*     certificate that is handled twice applies its block twice only if   *)
(*     the block is empty: by the Merkle root, the block is the one that is*)
(*     stored, and the nonce of its first transaction is spent.            *)
(*                                                                         *)
(* What a vote is given for (VoteInv), for every peer behaviour, where     *)
(* every vote is needed and the process runs: a block one above its parent,*)
(* or a child of a block that was finalized and refused.                   *)
(***************************************************************************)
EXTENDS Application, ActorTheorems

AppShape == DOMAIN app = {"state", "blocks", "mempool", "pending", "blocks_out"}

(* What is decided was notarized, and no notarized digest is the parent    *)
(* hash of genesis: genesis is not decided a second time.                  *)
DecidedNotarized ==
    /\ decided \in Seq(notarized)
    /\ \A d \in notarized : d # ZeroHash

NotarizedVoted == notarized \subseteq voted \cup {GenesisHash}

CertifiedVoted ==
    \A i \in DOMAIN mailbox : mailbox[i].type = "Finalize" =>
        mailbox[i].digest \in voted \cup DOMAIN settled

IInv ==
    /\ IsQueue(mailbox)
    /\ AppShape
    /\ VotedBlockHeld
    /\ DecidedNotarized
    /\ OwnVoteNeeded => NotarizedVoted /\ CertifiedVoted /\ NeverMissing

-----------------------------------------------------------------------------
(* Queues.                                                                 *)

LEMMA EnqueueIsLonger == \A queue, message : Enqueue(queue, message) = Longer(queue, message)
  BY DEF Enqueue, Longer

LEMMA EnqueueFacts ==
    ASSUME NEW queue, IsQueue(queue), NEW message, NEW longer,
           longer = Enqueue(queue, message)
    PROVE  /\ IsQueue(longer)
           /\ \A i \in DOMAIN longer :
                 longer[i] = message \/ \E j \in DOMAIN queue : longer[i] = queue[j]
  BY EnqueueIsLonger, LongerHolds

(* A message that is put into a queue comes last.                          *)
LEMMA EnqueuedLast ==
    ASSUME NEW queue, IsQueue(queue), NEW message, NEW longer,
           longer = Enqueue(queue, message)
    PROVE  /\ IsQueue(longer)
           /\ Len(queue) \in Nat /\ DOMAIN queue = 1 .. Len(queue)
           /\ \A i : i \in DOMAIN longer <=> i \in DOMAIN queue \/ i = Len(queue) + 1
           /\ \A i \in DOMAIN queue : longer[i] = queue[i]
           /\ longer[Len(queue) + 1] = message
  BY EnqueueIsLonger, LongerFacts

-----------------------------------------------------------------------------
(* What the handlers leave of `pending`.                                   *)

LEMMA StashFacts ==
    ASSUME AppShape, NEW block, NEW a, a = Stash(app, block)
    PROVE  /\ DOMAIN a = DOMAIN app
           /\ \A d : d \in DOMAIN a.pending
                        <=> d \in DOMAIN app.pending \/ d = BlockHash(block)
  <1>1. /\ DOMAIN a = DOMAIN app
        /\ a.pending = Bind(app.pending, BlockHash(block), block)
    BY DEF Stash, AppShape
  <1> QED BY <1>1, BindFacts

LEMMA FinalizeFacts ==
    ASSUME AppShape, NEW digest, NEW a, a = AfterFinalize(app, digest)
    PROVE  /\ DOMAIN a = DOMAIN app
           /\ \A d \in DOMAIN app.pending : d # digest => d \in DOMAIN a.pending
           /\ digest \in DOMAIN app.pending => FinalizeOutcome(app, digest) # "missing"
  <1>1. CASE FinalizeOutcome(app, digest) = "missing"
    <2>1. a = app
      BY <1>1 DEF AfterFinalize
    <2>2. digest \notin DOMAIN app.pending
      BY <1>1 DEF FinalizeOutcome
    <2> QED BY <2>1, <2>2
  <1>2. CASE FinalizeOutcome(app, digest) # "missing"
    <2> DEFINE b == Executed(app, digest)
    <2>1. /\ DOMAIN b = DOMAIN app
          /\ b.pending = Unbind(app.pending, digest)
      BY DEF Executed, AppShape
    <2>2. FinalizeOutcome(app, digest) \in {"rejected", "committed"}
      BY <1>2 DEF FinalizeOutcome
    <2>3. a = b \/ a = Persisted(b, app.pending[digest])
      BY <2>2 DEF AfterFinalize
    <2> HIDE DEF b
    <2>4. DOMAIN a = DOMAIN app /\ a.pending = b.pending
      BY <2>1, <2>3 DEF Persisted, AppShape
    <2> QED BY <1>2, <2>1, <2>4, UnbindFacts
  <1> QED BY <1>1, <1>2

-----------------------------------------------------------------------------
(* What is common to several steps.                                        *)

(* Received messages were in the mailbox; votes and outcomes are not taken *)
(* back.                                                                   *)
LEMMA ReceivePreserves ==
    ASSUME IInv, mailbox # <<>>, mailbox' = Tail(mailbox), voted \subseteq voted',
           \A d \in DOMAIN settled : d \in DOMAIN settled'
    PROVE  /\ IsQueue(mailbox)'
           /\ OwnVoteNeeded => CertifiedVoted'
  <1>1. IsQueue(mailbox) /\ mailbox # <<>> /\ mailbox' = Rest(mailbox)
    BY DEF IInv, Rest
  <1>2. /\ IsQueue(mailbox')
        /\ \A i \in DOMAIN mailbox' : \E j \in DOMAIN mailbox : mailbox'[i] = mailbox[j]
    BY ONLY <1>1, DequeueFacts
  <1>3. ASSUME OwnVoteNeeded PROVE CertifiedVoted'
    BY <1>2, <1>3 DEF IInv, CertifiedVoted
  <1> QED BY <1>2, <1>3 DEF IsQueue

LEMMA SendPreserves ==
    ASSUME IInv, NEW message, Send(message), UNCHANGED <<voted, settled>>,
           OwnVoteNeeded /\ message.type = "Finalize" =>
               message.digest \in voted \cup DOMAIN settled
    PROVE  /\ IsQueue(mailbox)'
           /\ OwnVoteNeeded => CertifiedVoted'
  <1>1. IsQueue(mailbox) /\ mailbox' = Enqueue(mailbox, message)
    BY DEF IInv, Send
  <1>2. /\ IsQueue(mailbox')
        /\ \A i \in DOMAIN mailbox' :
              mailbox'[i] = message \/ \E j \in DOMAIN mailbox : mailbox'[i] = mailbox[j]
    BY <1>1, EnqueueFacts
  <1>3. ASSUME OwnVoteNeeded PROVE CertifiedVoted'
    BY <1>2, <1>3 DEF IInv, CertifiedVoted
  <1> QED BY <1>2, <1>3 DEF IsQueue

(* A step that leaves the votes, the certificates and the outcomes alone   *)
(* and only adds to `pending`.                                             *)
LEMMA PendingGrows ==
    ASSUME IInv, UNCHANGED <<voted, notarized, decided, settled>>,
           DOMAIN app' = DOMAIN app,
           \A d \in DOMAIN app.pending : d \in DOMAIN app'.pending
    PROVE  /\ AppShape' /\ VotedBlockHeld' /\ DecidedNotarized'
           /\ OwnVoteNeeded => NotarizedVoted' /\ NeverMissing'
  BY DEF IInv, AppShape, VotedBlockHeld, DecidedNotarized, NotarizedVoted, NeverMissing

-----------------------------------------------------------------------------
(* The actor.                                                              *)

LEMMA GenesisPreserves == ASSUME IInv, HandleGenesis PROVE IInv'
  <1>1. IsQueue(mailbox)' /\ (OwnVoteNeeded => CertifiedVoted')
    BY ReceivePreserves DEF HandleGenesis, Received
  <1>2. AppShape' /\ VotedBlockHeld'
    BY DEF HandleGenesis, IInv, AppShape, VotedBlockHeld
  <1>3. DecidedNotarized'
    <2>1. GenesisHash # ZeroHash
      BY BlockHashIsNotZero DEF GenesisHash
    <2>2. <<GenesisHash>> \in Seq(notarized')
      BY DEF HandleGenesis
    <2> QED BY <2>1, <2>2 DEF HandleGenesis, IInv, DecidedNotarized
  <1>4. OwnVoteNeeded => NotarizedVoted' /\ NeverMissing'
    BY DEF HandleGenesis, IInv, NotarizedVoted, NeverMissing
  <1> QED BY <1>1, <1>2, <1>3, <1>4 DEF IInv

LEMMA ProposePreserves == ASSUME IInv, HandlePropose PROVE IInv'
  <1>1. PICK block : /\ app' = Stash(app, block)
                     /\ voted' \in {voted, voted \cup {BlockHash(block)}}
    BY DEF HandlePropose
  <1>2. UNCHANGED <<notarized, decided, settled>>
    BY DEF HandlePropose
  <1>3. IsQueue(mailbox)' /\ (OwnVoteNeeded => CertifiedVoted')
    BY <1>1, <1>2, ReceivePreserves DEF HandlePropose, Received
  <1>4. /\ DOMAIN app' = DOMAIN app
        /\ \A d : d \in DOMAIN app'.pending
                     <=> d \in DOMAIN app.pending \/ d = BlockHash(block)
    BY <1>1, StashFacts DEF IInv
  <1>5. AppShape' /\ VotedBlockHeld'
    BY <1>1, <1>2, <1>4 DEF IInv, AppShape, VotedBlockHeld
  <1>6. DecidedNotarized'
    BY <1>2 DEF IInv, DecidedNotarized
  <1>7. OwnVoteNeeded => NotarizedVoted' /\ NeverMissing'
    BY <1>1, <1>2 DEF IInv, NotarizedVoted, NeverMissing
  <1> QED BY <1>3, <1>5, <1>6, <1>7 DEF IInv

LEMMA ProposeFailsPreserves == ASSUME IInv, ProposeFails PROVE IInv'
  <1>1. IsQueue(mailbox)' /\ (OwnVoteNeeded => CertifiedVoted')
    BY ReceivePreserves DEF ProposeFails, Received, engine_vars
  <1>2. /\ AppShape' /\ VotedBlockHeld' /\ DecidedNotarized'
        /\ OwnVoteNeeded => NotarizedVoted' /\ NeverMissing'
    BY PendingGrows DEF ProposeFails, engine_vars
  <1> QED BY <1>1, <1>2 DEF IInv

(* A `true` from verify is only ever given for a block in `pending`.       *)
LEMMA VerifyPreserves == ASSUME IInv, HandleVerify PROVE IInv'
  <1>1. /\ UNCHANGED <<app, notarized, decided, settled>>
        /\ \/ voted' = voted
           \/ \E d \in DOMAIN app.pending : voted' = voted \cup {d}
    BY DEF HandleVerify, VerifyAnswer
  <1>2. IsQueue(mailbox)' /\ (OwnVoteNeeded => CertifiedVoted')
    BY <1>1, ReceivePreserves DEF HandleVerify, Received
  <1>3. AppShape' /\ VotedBlockHeld'
    BY <1>1 DEF IInv, AppShape, VotedBlockHeld
  <1>4. DecidedNotarized'
    BY <1>1 DEF IInv, DecidedNotarized
  <1>5. OwnVoteNeeded => NotarizedVoted' /\ NeverMissing'
    BY <1>1 DEF IInv, NotarizedVoted, NeverMissing
  <1> QED BY <1>2, <1>3, <1>4, <1>5 DEF IInv

(* The block leaves `pending` and its outcome is known.  A certificate for *)
(* a digest that was voted for and has no outcome finds its block.         *)
LEMMA FinalizePreserves == ASSUME IInv, HandleFinalize PROVE IInv'
  <1> DEFINE digest == Head(mailbox).digest
             outcome == FinalizeOutcome(app, digest)
  <1>1. /\ UNCHANGED <<voted, notarized, decided>>
        /\ app' = AfterFinalize(app, digest)
        /\ settled' = Settle(digest, outcome)
        /\ mailbox # <<>> /\ mailbox' = Tail(mailbox)
        /\ Head(mailbox).type = "Finalize"
    BY DEF HandleFinalize, engine_vars, Received
  <1>2. /\ \A d : d \in DOMAIN settled' <=> d \in DOMAIN settled \/ d = digest
        /\ \A d \in DOMAIN settled : d # digest => settled'[d] = settled[d]
        /\ \/ settled'[digest] = outcome /\ outcome = "committed"
           \/ settled'[digest] = outcome /\ digest \notin DOMAIN settled
           \/ settled'[digest] = settled[digest] /\ digest \in DOMAIN settled
    <2>1. CASE settled' = settled /\ digest \in DOMAIN settled
      BY <2>1
    <2>2. CASE /\ settled' = Bind(settled, digest, outcome)
               /\ digest \notin DOMAIN settled \/ outcome = "committed"
      BY <2>2, BindFacts
    <2> QED BY <1>1, <2>1, <2>2 DEF Settle
  <1>3. /\ DOMAIN app' = DOMAIN app
        /\ \A d \in DOMAIN app.pending : d # digest => d \in DOMAIN app'.pending
        /\ digest \in DOMAIN app.pending => outcome # "missing"
    BY <1>1, FinalizeFacts DEF IInv
  <1>4. IsQueue(mailbox)' /\ (OwnVoteNeeded => CertifiedVoted')
    BY <1>1, <1>2, ReceivePreserves
  <1>5. AppShape' /\ VotedBlockHeld'
    <2> HIDE DEF digest, outcome
    <2> QED BY <1>1, <1>2, <1>3 DEF IInv, AppShape, VotedBlockHeld
  <1>6. DecidedNotarized'
    BY <1>1 DEF IInv, DecidedNotarized
  <1>7. ASSUME OwnVoteNeeded PROVE NotarizedVoted' /\ NeverMissing'
    <2>1. NotarizedVoted'
      BY <1>1, <1>7 DEF IInv, NotarizedVoted
    <2>2. digest \in voted \cup DOMAIN settled
      <3>1. PICK j \in DOMAIN mailbox : Head(mailbox) = mailbox[j]
        BY <1>1, HeadFacts DEF IInv
      <3> QED BY <1>1, <1>7, <3>1 DEF IInv, CertifiedVoted
    <2>3. digest \notin DOMAIN settled => outcome # "missing"
      BY <1>3, <2>2 DEF IInv, VotedBlockHeld
    <2> HIDE DEF digest, outcome
    <2>4. NeverMissing'
      BY <1>2, <1>7, <2>3 DEF IInv, NeverMissing
    <2> QED BY <2>1, <2>4
  <1> QED BY <1>4, <1>5, <1>6, <1>7 DEF IInv

LEMMA BroadcastPreserves == ASSUME IInv, HandleBroadcast PROVE IInv'
  <1>1. IsQueue(mailbox)' /\ (OwnVoteNeeded => CertifiedVoted')
    BY ReceivePreserves DEF HandleBroadcast, Received, engine_vars
  <1>2. DOMAIN app' = DOMAIN app /\ app'.pending = app.pending
    BY DEF HandleBroadcast, AfterBroadcast, IInv, AppShape
  <1>3. /\ AppShape' /\ VotedBlockHeld' /\ DecidedNotarized'
        /\ OwnVoteNeeded => NotarizedVoted' /\ NeverMissing'
    BY <1>2, PendingGrows DEF HandleBroadcast, engine_vars
  <1> QED BY <1>1, <1>3 DEF IInv

LEMMA StoreBlockPreserves == ASSUME IInv, HandleStoreBlock PROVE IInv'
  <1> DEFINE bytes == Head(mailbox).bytes
  <1>1. IsQueue(mailbox)' /\ (OwnVoteNeeded => CertifiedVoted')
    BY ReceivePreserves DEF HandleStoreBlock, Received, engine_vars
  <1>2. app' = app \/ app' = Stash(app, bytes)
    BY DEF HandleStoreBlock, AfterStoreBlock
  <1>3. /\ DOMAIN app' = DOMAIN app
        /\ \A d \in DOMAIN app.pending : d \in DOMAIN app'.pending
    BY <1>2, StashFacts DEF IInv
  <1>4. /\ AppShape' /\ VotedBlockHeld' /\ DecidedNotarized'
        /\ OwnVoteNeeded => NotarizedVoted' /\ NeverMissing'
    BY <1>3, PendingGrows DEF HandleStoreBlock, engine_vars
  <1> QED BY <1>1, <1>4 DEF IInv

-----------------------------------------------------------------------------
(* The engine and the network.                                             *)

(* Questions and deliveries: one message more, the rest alone.             *)
LEMMA QuestionPreserves ==
    ASSUME IInv, NEW message, Send(message), message.type # "Finalize",
           UNCHANGED <<app, voted, notarized, decided, settled>>
    PROVE  IInv'
  <1>1. IsQueue(mailbox)' /\ (OwnVoteNeeded => CertifiedVoted')
    BY SendPreserves
  <1>2. /\ AppShape' /\ VotedBlockHeld' /\ DecidedNotarized'
        /\ OwnVoteNeeded => NotarizedVoted' /\ NeverMissing'
    BY PendingGrows
  <1> QED BY <1>1, <1>2 DEF IInv

LEMMA NotarizePreserves == ASSUME IInv, Notarize PROVE IInv'
  <1>1. PICK block \in wire :
           /\ OwnVoteNeeded => BlockHash(block) \in voted
           /\ notarized' = notarized \cup {BlockHash(block)}
           /\ UNCHANGED <<app, mailbox, voted, decided, settled>>
    BY DEF Notarize
  <1>2. DecidedNotarized'
    <2>1. decided \in Seq(notarized')
      BY <1>1, SeqMonotonic DEF IInv, DecidedNotarized
    <2>2. BlockHash(block) # ZeroHash
      BY BlockHashIsNotZero
    <2> QED BY <1>1, <2>1, <2>2 DEF IInv, DecidedNotarized
  <1>3. OwnVoteNeeded => NotarizedVoted'
    BY <1>1 DEF IInv, NotarizedVoted
  <1> QED BY <1>1, <1>2, <1>3 DEF IInv, IsQueue, AppShape, VotedBlockHeld,
             CertifiedVoted, NeverMissing

(* Genesis has no notarized parent, so what is decided after it was voted  *)
(* for.                                                                    *)
LEMMA DecidePreserves == ASSUME IInv, Decide PROVE IInv'
  <1>1. PICK digest \in notarized :
           /\ decided # <<>>
           /\ Header(digest).parent_hash = decided[Len(decided)]
           /\ decided' = Append(decided, digest)
           /\ \/ Send([type |-> "Finalize", digest |-> digest])
              \/ UNCHANGED mailbox
    BY DEF Decide
  <1>2. UNCHANGED <<app, voted, notarized, settled>>
    BY DEF Decide, network_vars
  <1>3. decided[Len(decided)] \in notarized
    BY <1>1 DEF IInv, DecidedNotarized
  <1>4. digest # GenesisHash
    <2>1. Header(GenesisHash).parent_hash = ZeroHash
      BY DEF Header, GenesisHash, GenesisBlock, BlockHash
    <2> QED BY <1>1, <1>3, <2>1 DEF IInv, DecidedNotarized
  <1>5. OwnVoteNeeded => digest \in voted
    BY <1>4 DEF IInv, NotarizedVoted
  <1>6. IsQueue(mailbox)' /\ (OwnVoteNeeded => CertifiedVoted')
    <2>1. CASE Send([type |-> "Finalize", digest |-> digest])
      BY <1>2, <1>5, <2>1, SendPreserves
    <2>2. CASE UNCHANGED mailbox
      BY <1>2, <2>2 DEF IInv, IsQueue, CertifiedVoted
    <2> QED BY <1>1, <2>1, <2>2
  <1>7. DecidedNotarized'
    BY <1>1, <1>2 DEF IInv, DecidedNotarized
  <1>8. AppShape' /\ VotedBlockHeld'
    BY <1>2 DEF IInv, AppShape, VotedBlockHeld
  <1>9. OwnVoteNeeded => NotarizedVoted' /\ NeverMissing'
    BY <1>2 DEF IInv, NotarizedVoted, NeverMissing
  <1> QED BY <1>6, <1>7, <1>8, <1>9 DEF IInv

LEMMA ReportAgainPreserves == ASSUME IInv, ReportAgain PROVE IInv'
  <1>1. PICK digest \in DOMAIN settled :
            Send([type |-> "Finalize", digest |-> digest])
    BY DEF ReportAgain
  <1>2. UNCHANGED <<app, voted, notarized, decided, settled>>
    BY DEF ReportAgain, engine_vars
  <1>3. IsQueue(mailbox)' /\ (OwnVoteNeeded => CertifiedVoted')
    BY <1>1, <1>2, SendPreserves
  <1>4. /\ AppShape' /\ VotedBlockHeld' /\ DecidedNotarized'
        /\ OwnVoteNeeded => NotarizedVoted' /\ NeverMissing'
    BY <1>2, PendingGrows
  <1> QED BY <1>3, <1>4 DEF IInv

LEMMA SendBlockPreserves == ASSUME IInv, SendBlock PROVE IInv'
  <1>1. UNCHANGED <<mailbox, voted, notarized, decided, settled>>
    BY DEF SendBlock, engine_vars
  <1>2. DOMAIN app' = DOMAIN app /\ app'.pending = app.pending
    BY DEF SendBlock, IInv, AppShape
  <1>3. /\ AppShape' /\ VotedBlockHeld' /\ DecidedNotarized'
        /\ OwnVoteNeeded => NotarizedVoted' /\ NeverMissing'
    BY <1>1, <1>2, PendingGrows
  <1> QED BY <1>1, <1>3 DEF IInv, IsQueue, CertifiedVoted

LEMMA IdlePreserves ==
    ASSUME IInv, UNCHANGED <<app, mailbox, voted, notarized, decided, settled>>
    PROVE  IInv'
  <1>1. /\ AppShape' /\ VotedBlockHeld' /\ DecidedNotarized'
        /\ OwnVoteNeeded => NotarizedVoted' /\ NeverMissing'
    BY PendingGrows
  <1> QED BY <1>1 DEF IInv, IsQueue, CertifiedVoted

-----------------------------------------------------------------------------

LEMMA InitEstablishes == Init => IInv
  <1> SUFFICES ASSUME Init PROVE IInv
    OBVIOUS
  <1>1. AppShape
    BY DEF Init, NewApp, AppShape
  <1>2. IsQueue(mailbox)
    BY EmptyQueue DEF Init
  <1>3. VotedBlockHeld /\ DecidedNotarized
    BY EmptySeq DEF Init, VotedBlockHeld, DecidedNotarized
  <1>4. NotarizedVoted /\ CertifiedVoted /\ NeverMissing
    BY EmptyMapFacts DEF Init, NotarizedVoted, CertifiedVoted, NeverMissing
  <1> QED BY <1>1, <1>2, <1>3, <1>4 DEF IInv

(* Without restarts neither Restart nor ReplayJournal is ever enabled.     *)
LEMMA StepPreserves ==
    ASSUME MaxRestarts = 0, IInv, restarts = 0, [Next]_vars
    PROVE  IInv' /\ (restarts = 0)'
  <1>1. CASE Actor /\ UNCHANGED restarts
    BY <1>1, GenesisPreserves, ProposePreserves, ProposeFailsPreserves,
       VerifyPreserves, FinalizePreserves, BroadcastPreserves,
       StoreBlockPreserves DEF Actor
  <1>2. CASE Engine /\ UNCHANGED restarts
    <2>1. CASE AskGenesis
      BY <1>2, <2>1, QuestionPreserves DEF AskGenesis, engine_vars
    <2>2. CASE AskPropose
      BY <1>2, <2>2, QuestionPreserves DEF AskPropose, engine_vars
    <2>3. CASE AskVerify
      BY <1>2, <2>3, QuestionPreserves DEF AskVerify, engine_vars
    <2>4. CASE AskBroadcast
      BY <1>2, <2>4, QuestionPreserves DEF AskBroadcast, engine_vars
    <2> QED BY <1>2, <2>1, <2>2, <2>3, <2>4, NotarizePreserves, DecidePreserves,
               ReportAgainPreserves DEF Engine
  <1>3. CASE Network /\ UNCHANGED restarts
    <2>1. CASE PeerProposes
      <3>1. UNCHANGED <<app, mailbox, voted, notarized, decided, settled>>
        BY <2>1 DEF PeerProposes, engine_vars
      <3> QED BY <1>3, <3>1, IdlePreserves
    <2>2. CASE DeliverBlock
      BY <1>3, <2>2, QuestionPreserves DEF DeliverBlock, engine_vars
    <2>3. CASE DeliverGarbage
      BY <1>3, <2>3, QuestionPreserves DEF DeliverGarbage, engine_vars
    <2> QED BY <1>3, <2>1, <2>2, <2>3, SendBlockPreserves DEF Network
  <1>4. ~Restart /\ ~ReplayJournal
    BY DEF Restart, ReplayJournal
  <1>5. CASE UNCHANGED vars
    BY <1>5, IdlePreserves DEF vars
  <1> QED BY <1>1, <1>2, <1>3, <1>4, <1>5 DEF Next

(* The inductive invariant holds in every reachable state of a run without *)
(* restarts.                                                               *)
THEOREM Invariance == ASSUME MaxRestarts = 0 PROVE Spec => []IInv
  <1>1. Init => IInv /\ restarts = 0
    BY InitEstablishes DEF Init
  <1>2. IInv /\ restarts = 0 /\ [Next]_vars => IInv' /\ (restarts = 0)'
    BY StepPreserves
  <1> QED BY <1>1, <1>2, PTL DEF Spec

(* A block this validator voted for is in `pending` until its finalization *)
(* has been handled, whatever arrives, is proposed or is finalized         *)
(* meanwhile.                                                              *)
THEOREM VotedBlocksAreHeld ==
    ASSUME MaxRestarts = 0 PROVE Spec => []VotedBlockHeld
  <1>1. IInv => VotedBlockHeld
    BY DEF IInv
  <1> QED BY <1>1, Invariance, PTL

(* In a network that needs every vote, `finalize` always finds the block   *)
(* of a certificate.                                                       *)
THEOREM CertifiedBlocksAreFound ==
    ASSUME OwnVoteNeeded, MaxRestarts = 0 PROVE Spec => []NeverMissing
  <1>1. IInv => NeverMissing
    BY DEF IInv
  <1> QED BY <1>1, Invariance, PTL


-----------------------------------------------------------------------------
(* What the actor starts with.                                             *)

(* What a configuration may hold.                                          *)
LEMMA ListedOk ==
    ASSUME NEW body \in Bodies \cup {SeedTxs}
    PROVE  TxsOk(body) /\ (Len(body) = 0 => body = <<>>)
  <1>1. body \in Seq(Range(body))
    BY BodiesAssumption
  <1>2. IsList(body)
    BY <1>1, LenProperties DEF IsList
  <1>3. Len(body) = 0 => body = <<>>
    BY <1>1, EmptySeq
  <1> QED BY <1>2, <1>3, BodiesAssumption DEF TxsOk, TxOk, IsList

LEMMA AllocationsAreOk == AllocationsOk(Allocations)
  <1>1. IsList(Allocations)
    BY AllocationsAssumption DEF IsList
  <1>2. \A i \in 1 .. Len(Allocations) : Allocations[i][2] \in Nat
    BY <1>1, AllocationsAssumption, MaxU64Assumption DEF IsList
  <1> QED BY <1>1, <1>2 DEF AllocationsOk

LEMMA BootedOk ==
    ASSUME NEW a, a = NewApp(Allocations, SeedTxs)
    PROVE  /\ ActorOk(a)
           /\ \A d : d \notin DOMAIN a.pending
           /\ \A d : d \in DOMAIN a.blocks.blocks => d = GenesisHash
  BY AllocationsAreOk, ListedOk, NewAppOk

-----------------------------------------------------------------------------
(* The invariant of every run, restarts and non-conforming peers included. *)

IsIn(chain, d) == \E i \in 1 .. Len(chain) : chain[i] = d

(* Where a digest that this validator proposed is found.                   *)
Found == DOMAIN app.pending \cup DOMAIN settled

MessageTypes ==
    {"Genesis", "Propose", "Verify", "Finalize", "Broadcast", "StoreBlock"}

(* Only decided blocks are reported, only what was proposed here is to be  *)
(* broadcast; genesis is asked for once, and nothing is decided before the *)
(* answer.                                                                 *)
MessageOk(message, chain, found) ==
    /\ message.type \in MessageTypes
    /\ message.type = "Finalize" => IsIn(chain, message.digest)
    /\ message.type = "Broadcast" => message.digest \in found
    /\ message.type = "StoreBlock" =>
          message.bytes = Undecodable \/ BlockOk(message.bytes)
    /\ message.type = "Genesis" => chain = <<>>

MailOk(queue, chain, found) ==
    /\ IsQueue(queue)
    /\ \A i \in DOMAIN queue : MessageOk(queue[i], chain, found)
    /\ \A i, j \in DOMAIN queue :
          queue[i].type = "Genesis" /\ queue[j].type = "Genesis" => i = j

ShapeInv ==
    /\ ActorOk(app)
    /\ MailOk(mailbox, decided, Found)
    /\ \A block \in wire : BlockOk(block)
    /\ inbound \subseteq wire
    /\ relay \subseteq voted \cap Found
    /\ IsQueue(decided)
    /\ \A d \in DOMAIN settled : IsIn(decided, d)

-----------------------------------------------------------------------------
(* The mailbox.                                                            *)

LEMMA TakeOk ==
    ASSUME NEW queue, NEW chain, NEW found, MailOk(queue, chain, found), queue # <<>>,
           NEW shorter, shorter = Rest(queue)
    PROVE  /\ MailOk(shorter, chain, found)
           /\ MessageOk(Head(queue), chain, found)
           /\ Head(queue).type = "Genesis" =>
                 \A i \in DOMAIN shorter : shorter[i].type # "Genesis"
  <1>1. /\ IsQueue(shorter)
        /\ 1 \in DOMAIN queue /\ Head(queue) = queue[1]
        /\ \A i \in DOMAIN shorter :
              i \in Nat \ {0} /\ i + 1 \in DOMAIN queue /\ shorter[i] = queue[i + 1]
    BY RestFacts DEF MailOk
  <1>2. /\ \A i \in DOMAIN queue : MessageOk(queue[i], chain, found)
        /\ \A i, j \in DOMAIN queue :
              queue[i].type = "Genesis" /\ queue[j].type = "Genesis" => i = j
    BY DEF MailOk
  <1>3. \A i \in DOMAIN shorter : MessageOk(shorter[i], chain, found)
    BY <1>1, <1>2
  <1>4. ASSUME NEW i \in DOMAIN shorter, NEW j \in DOMAIN shorter,
               shorter[i].type = "Genesis", shorter[j].type = "Genesis"
        PROVE  i = j
    <2>1. i + 1 = j + 1
      BY <1>1, <1>2, <1>4
    <2> QED BY <1>1, <2>1
  <1>5. ASSUME Head(queue).type = "Genesis", NEW i \in DOMAIN shorter,
               shorter[i].type = "Genesis"
        PROVE  FALSE
    <2>1. i + 1 = 1
      BY <1>1, <1>2, <1>5
    <2> QED BY <1>1, <2>1
  <1>6. MailOk(shorter, chain, found)
    BY <1>1, <1>3, <1>4 DEF MailOk
  <1> QED BY <1>1, <1>2, <1>5, <1>6

LEMMA PutOk ==
    ASSUME NEW queue, NEW chain, NEW found, MailOk(queue, chain, found),
           NEW message, MessageOk(message, chain, found),
           message.type = "Genesis" => \A i \in DOMAIN queue : queue[i].type # "Genesis",
           NEW longer, longer = Enqueue(queue, message)
    PROVE  MailOk(longer, chain, found)
  <1>1. /\ IsQueue(longer)
        /\ Len(queue) \in Nat /\ DOMAIN queue = 1 .. Len(queue)
        /\ \A i : i \in DOMAIN longer <=> i \in DOMAIN queue \/ i = Len(queue) + 1
        /\ \A i \in DOMAIN queue : longer[i] = queue[i]
        /\ longer[Len(queue) + 1] = message
    BY EnqueuedLast DEF MailOk
  <1>2. \A i \in DOMAIN longer : MessageOk(longer[i], chain, found)
    BY <1>1 DEF MailOk
  <1>3. ASSUME NEW i \in DOMAIN longer, NEW j \in DOMAIN longer,
               longer[i].type = "Genesis", longer[j].type = "Genesis"
        PROVE  i = j
    BY <1>1, <1>3 DEF MailOk
  <1> QED BY <1>1, <1>2, <1>3 DEF MailOk

(* The chain goes on, and more is found.                                   *)
LEMMA MoreFound ==
    ASSUME NEW queue, NEW chain, NEW found, MailOk(queue, chain, found),
           NEW later, \A d : IsIn(chain, d) => IsIn(later, d), chain = <<>> => later = <<>>,
           NEW more, \A d \in found : d \in more
    PROVE  MailOk(queue, later, more)
  <1>1. \A i \in DOMAIN queue : MessageOk(queue[i], later, more)
    BY DEF MailOk, MessageOk
  <1> QED BY <1>1 DEF MailOk

(* The actor has handled a message.                                        *)
LEMMA Handled ==
    ASSUME ShapeInv, mailbox # <<>>, mailbox' = Tail(mailbox), ActorOk(app'),
           UNCHANGED <<wire, inbound, decided>>,
           \A d \in Found : d \in Found',
           relay' \subseteq voted' \cap Found',
           \A d \in DOMAIN settled' : IsIn(decided, d)
    PROVE  ShapeInv'
  <1>1. MailOk(mailbox, decided, Found) /\ mailbox' = Rest(mailbox)
    BY DEF ShapeInv, Rest
  <1>2. MailOk(mailbox', decided, Found)
    BY <1>1, TakeOk
  <1>3. MailOk(mailbox', decided', Found')
    BY <1>2, MoreFound
  <1> QED BY <1>3 DEF ShapeInv, IsQueue

(* A message was put into the mailbox.                                     *)
LEMMA Asked ==
    ASSUME ShapeInv, NEW message, Send(message), MessageOk(message, decided, Found),
           message.type = "Genesis" => \A i \in DOMAIN mailbox : mailbox[i].type # "Genesis",
           UNCHANGED <<app, wire, voted, decided, settled>>,
           inbound' \subseteq inbound, relay' \subseteq relay
    PROVE  ShapeInv'
  <1>1. MailOk(mailbox, decided, Found) /\ mailbox' = Enqueue(mailbox, message)
    BY DEF ShapeInv, Send
  <1>2. MailOk(mailbox', decided, Found)
    BY <1>1, PutOk
  <1>3. Found' = Found
    BY DEF Found
  <1> QED BY <1>2, <1>3 DEF ShapeInv, IsQueue

(* The head of the mailbox.                                                *)
LEMMA HeadOk ==
    ASSUME ShapeInv, mailbox # <<>>
    PROVE  /\ MessageOk(Head(mailbox), decided, Found)
           /\ MailOk(Rest(mailbox), decided, Found)
           /\ Head(mailbox).type = "Genesis" =>
                 \A i \in DOMAIN Rest(mailbox) : Rest(mailbox)[i].type # "Genesis"
  BY TakeOk DEF ShapeInv


LEMMA GenesisKeepsShape == ASSUME ShapeInv, HandleGenesis PROVE ShapeInv'
  <1>1. /\ mailbox # <<>> /\ Head(mailbox).type = "Genesis"
        /\ mailbox' = Rest(mailbox)
        /\ decided' = <<GenesisHash>>
        /\ UNCHANGED <<app, wire, inbound, relay, voted, settled>>
    BY DEF HandleGenesis, Received, network_vars, Rest
  <1>2. /\ MailOk(mailbox', decided, Found) /\ decided = <<>>
        /\ \A i \in DOMAIN mailbox' : mailbox'[i].type # "Genesis"
    BY <1>1, HeadOk DEF MessageOk
  <1>3. \A d : ~IsIn(decided, d)
    BY <1>2 DEF IsIn
  <1>4. Found' = Found
    BY <1>1 DEF Found
  <1>5. MailOk(mailbox', decided', Found')
    <2>1. \A i \in DOMAIN mailbox' : MessageOk(mailbox'[i], decided', Found')
      BY <1>2, <1>3, <1>4 DEF MailOk, MessageOk
    <2> QED BY <1>2, <2>1 DEF MailOk
  <1>6. IsQueue(decided')
    <2>1. decided' \in Seq({GenesisHash})
      BY <1>1
    <2> QED BY <2>1, SequenceIsQueue
  <1> QED BY <1>1, <1>3, <1>4, <1>5, <1>6 DEF ShapeInv

LEMMA ProposeKeepsShape == ASSUME ShapeInv, HandlePropose PROVE ShapeInv'
  <1>1. PICK timestamp \in Timestamps, listening \in BOOLEAN :
           \E block \in Proposals(app, Head(mailbox).parent, timestamp, Self) :
               /\ app' = Stash(app, block)
               /\ voted' = IF listening THEN voted \cup {BlockHash(block)} ELSE voted
               /\ relay' = IF listening THEN relay \cup {BlockHash(block)} ELSE relay
    BY DEF HandlePropose
  <1>2. PICK block \in Proposals(app, Head(mailbox).parent, timestamp, Self) :
               /\ app' = Stash(app, block)
               /\ voted' = IF listening THEN voted \cup {BlockHash(block)} ELSE voted
               /\ relay' = IF listening THEN relay \cup {BlockHash(block)} ELSE relay
    BY <1>1
  <1>3. /\ mailbox # <<>> /\ mailbox' = Tail(mailbox)
        /\ UNCHANGED <<wire, inbound, decided, settled>>
    BY DEF HandlePropose, Received, network_vars
  <1>4. ActorOk(app) /\ BlockOk(block)
    BY ProposalOk DEF ShapeInv
  <1>5. /\ ActorOk(app')
        /\ \A d : d \in DOMAIN app'.pending
                     <=> d \in DOMAIN app.pending \/ d = BlockHash(block)
    BY <1>2, <1>4, StashOk
  <1>6. (\A d \in Found : d \in Found') /\ BlockHash(block) \in Found'
    BY <1>3, <1>5 DEF Found
  <1>7. relay' \subseteq voted' \cap Found'
    BY <1>2, <1>6 DEF ShapeInv
  <1>8. \A d \in DOMAIN settled' : IsIn(decided, d)
    BY <1>3 DEF ShapeInv
  <1> QED BY <1>3, <1>5, <1>6, <1>7, <1>8, Handled

(* Messages that leave the actor as it is.                                 *)
LEMMA AnswerKeepsShape ==
    ASSUME ShapeInv, mailbox # <<>>, mailbox' = Tail(mailbox), voted \subseteq voted',
           UNCHANGED <<app, wire, inbound, relay, decided, settled>>
    PROVE  ShapeInv'
  <1>1. Found' = Found /\ ActorOk(app')
    BY DEF Found, ShapeInv
  <1>2. relay' \subseteq voted' \cap Found'
    BY <1>1 DEF ShapeInv
  <1>3. \A d \in DOMAIN settled' : IsIn(decided, d)
    BY DEF ShapeInv
  <1> QED BY <1>1, <1>2, <1>3, Handled

LEMMA SettleFacts ==
    ASSUME NEW digest, NEW outcome, NEW later, later = Settle(digest, outcome)
    PROVE  \A d : d \in DOMAIN later <=> d \in DOMAIN settled \/ d = digest
  <1>1. CASE later = settled /\ digest \in DOMAIN settled
    BY <1>1
  <1>2. CASE later = Bind(settled, digest, outcome)
    BY <1>2, BindFacts
  <1> QED BY <1>1, <1>2 DEF Settle

LEMMA FinalizeKeepsShape == ASSUME ShapeInv, HandleFinalize PROVE ShapeInv'
  <1> DEFINE digest == Head(mailbox).digest
  <1>1. /\ mailbox # <<>> /\ mailbox' = Tail(mailbox)
        /\ Head(mailbox).type = "Finalize"
        /\ app' = AfterFinalize(app, digest)
        /\ settled' = Settle(digest, FinalizeOutcome(app, digest))
        /\ UNCHANGED <<wire, inbound, relay, voted, decided>>
    BY DEF HandleFinalize, Received, network_vars, engine_vars
  <1>2. IsIn(decided, digest)
    BY <1>1, HeadOk DEF MessageOk
  <1> HIDE DEF digest
  <1>3. /\ ActorOk(app')
        /\ \A d \in DOMAIN app.pending : d # digest => d \in DOMAIN app'.pending
    BY <1>1, FinalizeOk DEF ShapeInv
  <1>4. \A d : d \in DOMAIN settled' <=> d \in DOMAIN settled \/ d = digest
    BY <1>1, SettleFacts
  <1>5. \A d \in Found : d \in Found'
    BY <1>3, <1>4 DEF Found
  <1>6. relay' \subseteq voted' \cap Found'
    BY <1>1, <1>5 DEF ShapeInv
  <1>7. \A d \in DOMAIN settled' : IsIn(decided, d)
    BY <1>2, <1>4 DEF ShapeInv
  <1> QED BY <1>1, <1>3, <1>5, <1>6, <1>7, Handled

(* Messages that only add to `pending` or to the outbound queue.           *)
LEMMA StepKeepsFound ==
    ASSUME ShapeInv, mailbox # <<>>, mailbox' = Tail(mailbox), ActorOk(app'),
           \A d \in DOMAIN app.pending : d \in DOMAIN app'.pending,
           UNCHANGED <<wire, inbound, relay, voted, decided, settled>>
    PROVE  ShapeInv'
  <1>1. \A d \in Found : d \in Found'
    BY DEF Found
  <1>2. relay' \subseteq voted' \cap Found'
    BY <1>1 DEF ShapeInv
  <1>3. \A d \in DOMAIN settled' : IsIn(decided, d)
    BY DEF ShapeInv
  <1> QED BY <1>1, <1>2, <1>3, Handled

LEMMA BroadcastKeepsShape == ASSUME ShapeInv, HandleBroadcast PROVE ShapeInv'
  <1>1. /\ mailbox # <<>> /\ mailbox' = Tail(mailbox)
        /\ app' = AfterBroadcast(app, Head(mailbox).digest)
        /\ UNCHANGED <<wire, inbound, relay, voted, decided, settled>>
    BY DEF HandleBroadcast, Received, network_vars, engine_vars
  <1>2. ActorOk(app') /\ app'.pending = app.pending
    BY <1>1, BroadcastOk DEF ShapeInv
  <1> QED BY <1>1, <1>2, StepKeepsFound

LEMMA StoreBlockKeepsShape == ASSUME ShapeInv, HandleStoreBlock PROVE ShapeInv'
  <1> DEFINE bytes == Head(mailbox).bytes
  <1>1. /\ mailbox # <<>> /\ mailbox' = Tail(mailbox)
        /\ Head(mailbox).type = "StoreBlock"
        /\ app' = AfterStoreBlock(app, bytes)
        /\ UNCHANGED <<wire, inbound, relay, voted, decided, settled>>
    BY DEF HandleStoreBlock, Received, network_vars, engine_vars
  <1>2. bytes = Undecodable \/ BlockOk(bytes)
    BY <1>1, HeadOk DEF MessageOk
  <1> HIDE DEF bytes
  <1>3. \/ app' = app
        \/ app' = Stash(app, bytes) /\ BlockOk(bytes)
    BY <1>1, <1>2 DEF AfterStoreBlock, Decodes
  <1>4. ActorOk(app') /\ \A d \in DOMAIN app.pending : d \in DOMAIN app'.pending
    BY <1>3, StashOk DEF ShapeInv
  <1> QED BY <1>1, <1>4, StepKeepsFound

-----------------------------------------------------------------------------

LEMMA NotarizeKeepsShape == ASSUME ShapeInv, Notarize PROVE ShapeInv'
  BY DEF Notarize, network_vars, ShapeInv, Found, IsQueue

LEMMA DecideKeepsShape == ASSUME ShapeInv, Decide PROVE ShapeInv'
  <1>1. PICK digest :
           /\ decided # <<>>
           /\ decided' = Enqueue(decided, digest)
           /\ \/ Send([type |-> "Finalize", digest |-> digest])
              \/ UNCHANGED mailbox
    BY DEF Decide, Enqueue
  <1>2. UNCHANGED <<app, wire, inbound, relay, voted, settled>>
    BY DEF Decide, network_vars
  <1>3. /\ IsQueue(decided')
        /\ Len(decided) \in Nat /\ DOMAIN decided = 1 .. Len(decided)
        /\ \A i : i \in DOMAIN decided' <=> i \in DOMAIN decided \/ i = Len(decided) + 1
        /\ \A i \in DOMAIN decided : decided'[i] = decided[i]
        /\ decided'[Len(decided) + 1] = digest
    BY <1>1, EnqueuedLast DEF ShapeInv
  <1>4. DOMAIN decided' = 1 .. Len(decided')
    BY <1>3, LenProperties DEF IsQueue
  <1>5. (\A d : IsIn(decided, d) => IsIn(decided', d)) /\ IsIn(decided', digest)
    BY <1>3, <1>4 DEF IsIn
  <1>6. Found' = Found
    BY <1>2 DEF Found
  <1>7. MailOk(mailbox, decided', Found)
    BY <1>1, <1>5, MoreFound DEF ShapeInv
  <1>8. MailOk(mailbox', decided', Found)
    <2> DEFINE message == [type |-> "Finalize", digest |-> digest]
    <2>1. CASE Send(message)
      <3>1. MessageOk(message, decided', Found) /\ message.type # "Genesis"
        BY <1>5 DEF MessageOk, MessageTypes
      <3>2. mailbox' = Enqueue(mailbox, message)
        BY <2>1 DEF Send
      <3> HIDE DEF message
      <3> QED BY <1>7, <3>1, <3>2, PutOk
    <2>2. CASE UNCHANGED mailbox
      BY <1>7, <2>2
    <2> QED BY <1>1, <2>1, <2>2
  <1> QED BY <1>2, <1>3, <1>5, <1>6, <1>8 DEF ShapeInv

LEMMA EngineKeepsShape == ASSUME ShapeInv, Engine PROVE ShapeInv'
  <1>1. ASSUME NEW message, message.type \in {"Propose", "Verify"}
        PROVE  MessageOk(message, decided, Found)
    BY <1>1 DEF MessageOk, MessageTypes
  <1>2. CASE AskGenesis
    <2> DEFINE message == [type |-> "Genesis"]
    <2>1. MessageOk(message, decided, Found)
      BY <1>2 DEF AskGenesis, MessageOk, MessageTypes
    <2>2. /\ Send(message)
          /\ \A i \in DOMAIN mailbox : mailbox[i].type # "Genesis"
          /\ UNCHANGED <<app, wire, inbound, relay, voted, decided, settled>>
      BY <1>2 DEF AskGenesis, network_vars, engine_vars
    <2> HIDE DEF message
    <2> QED BY <2>1, <2>2, Asked
  <1>3. CASE AskPropose
    BY <1>1, <1>3, Asked DEF AskPropose, network_vars, engine_vars
  <1>4. CASE AskVerify
    BY <1>1, <1>4, Asked DEF AskVerify, network_vars, engine_vars
  <1>5. CASE AskBroadcast
    <2>1. PICK digest \in relay :
             /\ Send([type |-> "Broadcast", digest |-> digest])
             /\ relay' = relay \ {digest}
             /\ UNCHANGED <<app, wire, inbound, voted, decided, settled>>
      BY <1>5 DEF AskBroadcast, network_vars
    <2> DEFINE message == [type |-> "Broadcast", digest |-> digest]
    <2>2. MessageOk(message, decided, Found) /\ message.type # "Genesis"
      BY DEF MessageOk, MessageTypes, ShapeInv
    <2> HIDE DEF message
    <2> QED BY <2>1, <2>2, Asked DEF message
  <1>6. CASE ReportAgain
    <2> DEFINE message == [type |-> "Finalize", digest |-> decided[Len(decided)]]
    <2>1. /\ Send(message) /\ message.digest \in DOMAIN settled
          /\ UNCHANGED <<app, wire, inbound, relay, voted, decided, settled>>
      BY <1>6 DEF ReportAgain, network_vars, engine_vars
    <2>2. MessageOk(message, decided, Found) /\ message.type # "Genesis"
      BY <2>1 DEF MessageOk, MessageTypes, ShapeInv
    <2> HIDE DEF message
    <2> QED BY <2>1, <2>2, Asked
  <1> QED BY <1>2, <1>3, <1>4, <1>5, <1>6, NotarizeKeepsShape, DecideKeepsShape DEF Engine

LEMMA PeerProposesKeepsShape == ASSUME ShapeInv, PeerProposes PROVE ShapeInv'
  <1>1. PICK parent \in notarized \cup {GenesisHash}, body \in Bodies,
             timestamp \in Timestamps :
          \E height \in PeerHeights(parent) :
             LET block == NewBlock(height, parent, timestamp, Peer, body)
             IN  wire' = wire \cup {block} /\ inbound' = inbound \cup {block}
    BY DEF PeerProposes
  <1>2. PICK block : /\ BlockOk(block)
                     /\ wire' = wire \cup {block} /\ inbound' = inbound \cup {block}
    BY <1>1, ListedOk, NewBlockOk
  <1>3. UNCHANGED <<app, mailbox, relay, voted, decided, settled>>
    BY DEF PeerProposes, engine_vars
  <1> QED BY <1>2, <1>3 DEF ShapeInv, Found, IsQueue

LEMMA NetworkKeepsShape == ASSUME ShapeInv, Network PROVE ShapeInv'
  <1>1. CASE DeliverBlock
    <2>1. PICK block \in inbound :
             /\ Send([type |-> "StoreBlock", bytes |-> block])
             /\ inbound' = inbound \ {block}
             /\ UNCHANGED <<app, wire, relay, voted, decided, settled>>
      BY <1>1 DEF DeliverBlock, engine_vars
    <2> DEFINE message == [type |-> "StoreBlock", bytes |-> block]
    <2>2. MessageOk(message, decided, Found) /\ message.type # "Genesis"
      BY DEF MessageOk, MessageTypes, ShapeInv
    <2> HIDE DEF message
    <2> QED BY <2>1, <2>2, Asked DEF message
  <1>2. CASE DeliverGarbage
    <2> DEFINE message == [type |-> "StoreBlock", bytes |-> Undecodable]
    <2>1. /\ Send(message)
          /\ UNCHANGED <<app, wire, inbound, relay, voted, decided, settled>>
      BY <1>2 DEF DeliverGarbage, network_vars, engine_vars
    <2>2. MessageOk(message, decided, Found) /\ message.type # "Genesis"
      BY DEF MessageOk, MessageTypes
    <2> HIDE DEF message
    <2> QED BY <2>1, <2>2, Asked
  <1>3. CASE SendBlock
    <2>1. /\ app.blocks_out # <<>>
          /\ wire' = wire \cup {Head(app.blocks_out)}
          /\ app' = [app EXCEPT !.blocks_out = Rest(app.blocks_out)]
          /\ UNCHANGED <<mailbox, inbound, relay, voted, decided, settled>>
      BY <1>3 DEF SendBlock, engine_vars, Rest
    <2>2. ActorOk(app') /\ BlockOk(Head(app.blocks_out)) /\ app'.pending = app.pending
      BY <2>1, SentOk DEF ShapeInv
    <2>3. Found' = Found
      BY <2>1, <2>2 DEF Found
    <2> QED BY <2>1, <2>2, <2>3 DEF ShapeInv, IsQueue
  <1> QED BY <1>1, <1>2, <1>3, PeerProposesKeepsShape DEF Network

-----------------------------------------------------------------------------

LEMMA EmptyMailOk == ASSUME NEW chain, NEW found PROVE MailOk(<<>>, chain, found)
  BY EmptyQueue DEF MailOk

LEMMA RestartKeepsShape == ASSUME ShapeInv, Restart PROVE ShapeInv'
  <1>1. /\ app' = NewApp(Allocations, SeedTxs) /\ mailbox' = <<>> /\ relay' = {}
        /\ settled' = EmptyMap
        /\ UNCHANGED <<wire, inbound, voted, decided>>
    BY DEF Restart, Rebooted, network_vars
  <1>2. ActorOk(app')
    BY <1>1, BootedOk
  <1> QED BY <1>1, <1>2, EmptyMailOk, EmptyMapFacts DEF ShapeInv, IsQueue

LEMMA ReplayKeepsShape == ASSUME ShapeInv, ReplayJournal PROVE ShapeInv'
  <1>1. PICK i \in DOMAIN decided : Send([type |-> "Finalize", digest |-> decided[i]])
    BY DEF ReplayJournal
  <1>2. UNCHANGED <<app, wire, inbound, relay, voted, decided, settled>>
    BY DEF ReplayJournal, network_vars, engine_vars
  <1> DEFINE message == [type |-> "Finalize", digest |-> decided[i]]
  <1>3. IsIn(decided, decided[i])
    BY LenProperties DEF IsIn, ShapeInv, IsQueue
  <1>4. MessageOk(message, decided, Found) /\ message.type # "Genesis"
    BY <1>3 DEF MessageOk, MessageTypes
  <1> HIDE DEF message
  <1> QED BY <1>1, <1>2, <1>4, Asked DEF message

LEMMA InitEstablishesShape == Init => ShapeInv
  <1> SUFFICES ASSUME Init PROVE ShapeInv
    OBVIOUS
  <1>1. ActorOk(app)
    BY BootedOk DEF Init
  <1> QED BY <1>1, EmptyMailOk, EmptyQueue, EmptyMapFacts DEF Init, ShapeInv

LEMMA StepKeepsShape == ASSUME ShapeInv, [Next]_vars PROVE ShapeInv'
  <1>1. CASE ProposeFails
    BY <1>1, AnswerKeepsShape DEF ProposeFails, Received, network_vars, engine_vars
  <1>2. CASE HandleVerify
    <2>1. voted \subseteq voted' /\ mailbox # <<>> /\ mailbox' = Tail(mailbox)
          /\ UNCHANGED <<app, wire, inbound, relay, decided, settled>>
      BY <1>2 DEF HandleVerify, Received, network_vars
    <2> QED BY <2>1, AnswerKeepsShape
  <1>3. CASE Actor
    BY <1>1, <1>2, <1>3, GenesisKeepsShape, ProposeKeepsShape, FinalizeKeepsShape,
       BroadcastKeepsShape, StoreBlockKeepsShape DEF Actor
  <1>4. CASE UNCHANGED vars
    BY <1>4 DEF vars, ShapeInv, Found, IsQueue
  <1> QED BY <1>3, <1>4, EngineKeepsShape, NetworkKeepsShape, RestartKeepsShape,
             ReplayKeepsShape DEF Next

(* The shapes are inductive, whatever engine, peers and restarts do.       *)
THEOREM ShapeInvariance == Spec => []ShapeInv
  <1>1. ShapeInv /\ [Next]_vars => ShapeInv'
    BY StepKeepsShape
  <1> QED BY <1>1, InitEstablishesShape, PTL DEF Spec

(* The shapes hold for every configuration: any quorum, any peers, any     *)
(* number of restarts, a mailbox and a chain of any length.                *)
THEOREM TypeCorrect == Spec => []TypeOK
  <1>1. ShapeInv => TypeOK
    <2> SUFFICES ASSUME ShapeInv PROVE TypeOK
      OBVIOUS
    <2>1. \A a \in DOMAIN app.state : app.state[a] \in [balance : 0 .. MaxU64, nonce : Nat]
      BY DEF ShapeInv, ActorOk, AccountsOk, Account
    <2>2. Cardinality(DOMAIN app.mempool.txs) <= Capacity
      BY DEF ShapeInv, ActorOk, PoolOk, Bounded
    <2>3. ASSUME NEW blocks, Keyed(blocks), NEW d \in DOMAIN blocks
          PROVE  blocks[d].header = Header(d)
      <3>1. BlockHash(blocks[d]) = d
        BY <2>3 DEF Keyed
      <3> QED BY <3>1 DEF BlockHash, Header
    <2>4. /\ \A d \in DOMAIN app.pending : app.pending[d].header = Header(d)
          /\ \A d \in DOMAIN app.blocks.blocks : app.blocks.blocks[d].header = Header(d)
      BY <2>3 DEF ShapeInv, ActorOk
    <2>5. Len(app.blocks_out) <= BlocksOutCapacity
      BY DEF ShapeInv, ActorOk, OutOk
    <2>6. \A i \in DOMAIN mailbox : mailbox[i].type \in MessageTypes
      BY DEF ShapeInv, MailOk, MessageOk
    <2>7. DOMAIN settled \subseteq {decided[i] : i \in DOMAIN decided}
      BY LenProperties DEF ShapeInv, IsIn, IsQueue
    <2> QED BY <2>1, <2>2, <2>4, <2>5, <2>6, <2>7 DEF TypeOK, ShapeInv, MessageTypes
  <1> QED BY <1>1, ShapeInvariance, PTL

(* The broadcast of an own proposal never finds the block gone, unless its *)
(* decision has been handled.                                              *)
THEOREM BroadcastsFindTheirBlocks == Spec => []BroadcastFindsBlock
  <1>1. ShapeInv => BroadcastFindsBlock
    <2> SUFFICES ASSUME ShapeInv, Received("Broadcast")
                 PROVE  \/ BroadcastOutcome(app, Head(mailbox).digest) # "miss"
                        \/ Head(mailbox).digest \in DOMAIN settled
      BY DEF BroadcastFindsBlock
    <2>1. Head(mailbox).digest \in Found
      BY HeadOk DEF Received, MessageOk
    <2> QED BY <2>1 DEF Found, BroadcastOutcome
  <1> QED BY <1>1, ShapeInvariance, PTL

(* A transaction that was finalized is not pending any more.               *)
THEOREM PoolForgets == Spec => []PoolForgetsCommitted
  <1>1. ShapeInv => PoolForgetsCommitted
    BY DEF ShapeInv, ActorOk, Forgotten, PoolForgetsCommitted
  <1> QED BY <1>1, ShapeInvariance, PTL

-----------------------------------------------------------------------------
(* The finalized part: the store's two maps.                               *)

(* A block one above its parent, by what its digest holds.                 *)
Linked(d) ==
    /\ d # ZeroHash
    /\ Header(d).height \in Nat
    /\ Header(d).height = Header(Header(d).parent_hash).height + 1

Rooted(d) == d = GenesisHash \/ Linked(d)

(* Every block on its way to the store is linked to its parent.            *)
BlocksLinked ==
    /\ \A block \in wire : Linked(BlockHash(block))
    /\ \A block \in inbound : Linked(BlockHash(block))
    /\ \A d \in DOMAIN app.pending : Linked(d) /\ BlockHash(app.pending[d]) = d
    /\ IsQueue(app.blocks_out)
    /\ \A i \in DOMAIN app.blocks_out : Linked(BlockHash(app.blocks_out[i]))

(* The decided chain starts at genesis; its i-th block has height i - 1.   *)
DecidedLinked ==
    /\ \A d \in notarized : Rooted(d)
    /\ decided \in Seq(notarized)
    /\ decided # <<>> => decided[1] = GenesisHash
    /\ \A i \in 1 .. Len(decided) : Header(decided[i]).height = i - 1

(* Only decided blocks are reported; genesis is asked for once, and nothing*)
(* is decided before the answer.                                           *)
InOrder(message, chain) ==
    /\ message.type = "Finalize" => IsIn(chain, message.digest)
    /\ message.type = "StoreBlock" =>
          message.bytes = Undecodable \/ Linked(BlockHash(message.bytes))
    /\ message.type = "Genesis" => chain = <<>>

MailInOrder(queue, chain) ==
    /\ IsQueue(queue)
    /\ \A i \in DOMAIN queue : InOrder(queue[i], chain)
    /\ \A i, j \in DOMAIN queue :
          queue[i].type = "Genesis" /\ queue[j].type = "Genesis" => i = j

StoredDecided ==
    \A d \in DOMAIN app.blocks.blocks :
        /\ BlockHash(app.blocks.blocks[d]) = d
        /\ d = GenesisHash \/ IsIn(decided, d)

IndexInv ==
    /\ AppShape
    /\ BlocksLinked
    /\ DecidedLinked
    /\ MailInOrder(mailbox, decided)
    /\ StoredDecided
    /\ StoreIndexed

-----------------------------------------------------------------------------
(* Digests.                                                                *)

LEMMA HeaderOfHash == \A block : Header(BlockHash(block)) = block.header
  BY DEF Header, BlockHash

LEMMA GenesisFacts ==
    /\ GenesisHash # ZeroHash
    /\ GenesisBlock.header = Header(GenesisHash)
    /\ BlockHash(GenesisBlock) = GenesisHash
    /\ Header(GenesisHash).height = 0
    /\ Header(GenesisHash).parent_hash = ZeroHash
  <1>1. GenesisHash # ZeroHash /\ BlockHash(GenesisBlock) = GenesisHash
    BY BlockHashIsNotZero DEF GenesisHash
  <1>2. Header(GenesisHash) = GenesisBlock.header
    BY <1>1, HeaderOfHash
  <1>3. GenesisBlock.header.height = 0 /\ GenesisBlock.header.parent_hash = ZeroHash
    BY DEF GenesisBlock
  <1> QED BY <1>1, <1>2, <1>3

LEMMA RootedFacts ==
    ASSUME NEW d, Rooted(d) PROVE d # ZeroHash /\ Header(d).height \in Nat
  BY GenesisFacts DEF Rooted, Linked

LEMMA NewBlockLinked ==
    ASSUME NEW parent, Rooted(parent), NEW height, height = Header(parent).height + 1,
           NEW timestamp, NEW proposer, NEW body, NEW block,
           block = NewBlock(height, parent, timestamp, proposer, body)
    PROVE  Linked(BlockHash(block))
  <1>1. block.header.height = height /\ block.header.parent_hash = parent
    BY DEF NewBlock
  <1> QED BY <1>1, HeaderOfHash, RootedFacts, BlockHashIsNotZero DEF Linked

(* What the actor knows is rooted, and found under its own digest.         *)
LEMMA KnownFacts ==
    ASSUME IndexInv, NEW d, Knows(app, d)
    PROVE  BlockHash(BlockByDigest(app, d)) = d /\ Rooted(d)
  <1>1. CASE d \in DOMAIN app.pending
    BY <1>1 DEF IndexInv, BlocksLinked, BlockByDigest, Rooted
  <1>2. CASE d \notin DOMAIN app.pending
    <2>1. d \in DOMAIN app.blocks.blocks /\ BlockByDigest(app, d) = app.blocks.blocks[d]
      BY <1>2 DEF Knows, Stores, BlockByDigest
    <2>2. d = GenesisHash \/ d \in notarized
      BY <2>1, ElementOfSeq DEF IndexInv, StoredDecided, DecidedLinked, IsIn
    <2> QED BY <2>1, <2>2 DEF IndexInv, StoredDecided, DecidedLinked, Rooted
  <1> QED BY <1>1, <1>2

LEMMA ProposalLinked ==
    ASSUME IndexInv, NEW parent, NEW timestamp, NEW signer,
           NEW block \in Proposals(app, parent, timestamp, signer)
    PROVE  Linked(BlockHash(block))
  <1> DEFINE p == BlockByDigest(app, parent)
  <1>1. /\ Knows(app, parent)
        /\ block \in BuildBlock(p, timestamp, signer, app.mempool, app.state, MaxTxsPerBlock)
    BY DEF Proposals
  <1>2. BlockHash(p) = parent /\ Rooted(parent)
    BY <1>1, KnownFacts
  <1> HIDE DEF p
  <1>3. PICK body : block = NewBlock(p.header.height + 1, parent, timestamp, signer, body)
    BY <1>1, <1>2 DEF BuildBlock
  <1>4. p.header = Header(parent)
    BY <1>2, HeaderOfHash
  <1> QED BY <1>2, <1>3, <1>4, NewBlockLinked

(* Blocks of one height that have been decided are one block.              *)
LEMMA OneDecidedPerHeight ==
    ASSUME DecidedLinked, NEW c, NEW d, IsIn(decided, c), IsIn(decided, d) \/ d = GenesisHash,
           Header(c).height = Header(d).height
    PROVE  c = d
  <1>1. Len(decided) \in Nat
    BY LenProperties DEF DecidedLinked
  <1>2. PICK i \in 1 .. Len(decided) : decided[i] = c
    BY DEF IsIn
  <1>3. PICK j \in 1 .. Len(decided) : decided[j] = d
    <2>1. decided # <<>> /\ 1 \in 1 .. Len(decided)
      BY <1>1, <1>2
    <2> QED BY <2>1 DEF IsIn, DecidedLinked
  <1>4. i - 1 = j - 1
    BY <1>2, <1>3 DEF DecidedLinked
  <1> QED BY <1>1, <1>2, <1>3, <1>4

-----------------------------------------------------------------------------
(* The mailbox.                                                            *)

LEMMA ReceiveKeepsOrder ==
    ASSUME NEW queue, NEW chain, MailInOrder(queue, chain), queue # <<>>,
           NEW shorter, shorter = Rest(queue)
    PROVE  /\ MailInOrder(shorter, chain)
           /\ InOrder(Head(queue), chain)
           /\ Head(queue).type = "Genesis" =>
                 \A i \in DOMAIN shorter : shorter[i].type # "Genesis"
  <1>1. /\ IsQueue(shorter)
        /\ 1 \in DOMAIN queue /\ Head(queue) = queue[1]
        /\ \A i \in DOMAIN shorter :
              i \in Nat \ {0} /\ i + 1 \in DOMAIN queue /\ shorter[i] = queue[i + 1]
    BY RestFacts DEF MailInOrder
  <1>2. /\ \A i \in DOMAIN queue : InOrder(queue[i], chain)
        /\ \A i, j \in DOMAIN queue :
              queue[i].type = "Genesis" /\ queue[j].type = "Genesis" => i = j
    BY DEF MailInOrder
  <1>3. \A i \in DOMAIN shorter : InOrder(shorter[i], chain)
    BY <1>1, <1>2
  <1>4. ASSUME NEW i \in DOMAIN shorter, NEW j \in DOMAIN shorter,
               shorter[i].type = "Genesis", shorter[j].type = "Genesis"
        PROVE  i = j
    <2>1. i + 1 = j + 1
      BY <1>1, <1>2, <1>4
    <2> QED BY <1>1, <2>1
  <1>5. ASSUME Head(queue).type = "Genesis", NEW i \in DOMAIN shorter,
               shorter[i].type = "Genesis"
        PROVE  FALSE
    <2>1. i + 1 = 1
      BY <1>1, <1>2, <1>5
    <2> QED BY <1>1, <2>1
  <1>6. MailInOrder(shorter, chain)
    BY <1>1, <1>3, <1>4 DEF MailInOrder
  <1> QED BY <1>1, <1>2, <1>5, <1>6

(* A queue grows by a message that is in order, and only by a first        *)
(* Genesis; the chain may grow too.                                        *)
LEMMA SendKeepsOrder ==
    ASSUME NEW queue, NEW chain, MailInOrder(queue, chain), NEW later,
           \A d : IsIn(chain, d) => IsIn(later, d), chain = <<>> => later = <<>>,
           NEW message, InOrder(message, later),
           message.type = "Genesis" => \A i \in DOMAIN queue : queue[i].type # "Genesis",
           NEW longer, longer = Enqueue(queue, message)
    PROVE  MailInOrder(longer, later)
  <1> DEFINE S == {queue[i] : i \in DOMAIN queue} \cup {message}
  <1>1. queue \in Seq(S)
    BY SMT DEF MailInOrder, IsQueue
  <1>2. /\ Len(longer) = Len(queue) + 1
        /\ \A i \in 1 .. Len(queue) : longer[i] = queue[i]
        /\ longer[Len(queue) + 1] = message
        /\ Len(queue) \in Nat
        /\ longer \in Seq(S)
    BY <1>1 DEF Enqueue
  <1>3. DOMAIN longer = 1 .. (Len(queue) + 1) /\ DOMAIN queue = 1 .. Len(queue)
    BY <1>1, <1>2
  <1>4. IsQueue(longer)
    BY <1>2, SequenceIsQueue
  <1>5. \A i \in DOMAIN longer :
           \/ i \in DOMAIN queue /\ longer[i] = queue[i]
           \/ i = Len(queue) + 1 /\ longer[i] = message
    BY <1>2, <1>3
  <1> HIDE DEF S
  <1>6. \A i \in DOMAIN queue : InOrder(queue[i], later)
    BY DEF MailInOrder, InOrder
  <1>7. \A i \in DOMAIN longer : InOrder(longer[i], later)
    BY <1>5, <1>6
  <1>8. ASSUME NEW i \in DOMAIN longer, NEW j \in DOMAIN longer,
               longer[i].type = "Genesis", longer[j].type = "Genesis"
        PROVE  i = j
    BY <1>5, <1>8 DEF MailInOrder
  <1> QED BY <1>4, <1>7, <1>8 DEF MailInOrder

-----------------------------------------------------------------------------
(* What steps have in common.                                              *)

LEMMA StoreUntouched ==
    ASSUME StoredDecided, StoreIndexed, app'.blocks = app.blocks,
           \A d : IsIn(decided, d) => IsIn(decided', d)
    PROVE  StoredDecided' /\ StoreIndexed'
  BY DEF StoredDecided, StoreIndexed

LEMMA AppUntouched ==
    ASSUME IndexInv, UNCHANGED <<app, wire, inbound>>,
           \A d : IsIn(decided, d) => IsIn(decided', d)
    PROVE  AppShape' /\ BlocksLinked' /\ StoredDecided' /\ StoreIndexed'
  <1>1. AppShape' /\ BlocksLinked'
    BY DEF IndexInv, AppShape, BlocksLinked, IsQueue
  <1> QED BY <1>1, StoreUntouched DEF IndexInv

LEMMA ChainUntouched ==
    ASSUME IndexInv, UNCHANGED <<notarized, decided>>
    PROVE  DecidedLinked' /\ \A d : IsIn(decided, d) => IsIn(decided', d)
  BY DEF IndexInv, DecidedLinked

(* A message was taken, and the store and the chain are as they were.      *)
LEMMA MessageTaken ==
    ASSUME IndexInv, mailbox # <<>>, mailbox' = Tail(mailbox),
           UNCHANGED <<notarized, decided>>
    PROVE  MailInOrder(mailbox', decided') /\ InOrder(Head(mailbox), decided)
  <1>1. MailInOrder(mailbox, decided) /\ mailbox' = Rest(mailbox)
    BY DEF IndexInv, Rest
  <1> QED BY <1>1, ReceiveKeepsOrder

(* A question or a delivery was put into the mailbox.                      *)
LEMMA MessageSent ==
    ASSUME IndexInv, NEW message, Send(message), InOrder(message, decided),
           message.type # "Genesis", UNCHANGED <<notarized, decided>>
    PROVE  MailInOrder(mailbox', decided')
  <1>1. MailInOrder(mailbox, decided) /\ mailbox' = Enqueue(mailbox, message)
    BY DEF IndexInv, Send
  <1> QED BY <1>1, SendKeepsOrder

LEMMA StashLinked ==
    ASSUME IndexInv, NEW block, Linked(BlockHash(block)), app' = Stash(app, block),
           UNCHANGED <<wire, inbound>>
    PROVE  AppShape' /\ BlocksLinked' /\ app'.blocks = app.blocks
  <1>1. /\ DOMAIN app' = DOMAIN app
        /\ app'.pending = Bind(app.pending, BlockHash(block), block)
        /\ app'.blocks = app.blocks /\ app'.blocks_out = app.blocks_out
    BY DEF Stash, IndexInv, AppShape
  <1>2. \A d \in DOMAIN app'.pending : Linked(d) /\ BlockHash(app'.pending[d]) = d
    BY <1>1, BindFacts DEF IndexInv, BlocksLinked
  <1>3. BlocksLinked'
    BY <1>1, <1>2 DEF IndexInv, BlocksLinked, IsQueue
  <1> QED BY <1>1, <1>3 DEF IndexInv, AppShape

-----------------------------------------------------------------------------
(* The actor.                                                              *)

LEMMA GenesisKeepsIndex == ASSUME IndexInv, HandleGenesis PROVE IndexInv'
  <1>1. /\ mailbox # <<>> /\ Head(mailbox).type = "Genesis"
        /\ mailbox' = Rest(mailbox) /\ MailInOrder(mailbox, decided)
        /\ notarized' = notarized \cup {GenesisHash}
        /\ decided' = <<GenesisHash>>
        /\ UNCHANGED <<app, wire, inbound>>
    BY DEF HandleGenesis, Received, network_vars, Rest, IndexInv
  <1>2. /\ MailInOrder(mailbox', decided) /\ decided = <<>>
        /\ \A i \in DOMAIN mailbox' : mailbox'[i].type # "Genesis"
    BY <1>1, ReceiveKeepsOrder DEF InOrder
  <1>3. \A d : ~IsIn(decided, d)
    BY <1>2 DEF IsIn
  <1>4. MailInOrder(mailbox', decided')
    BY <1>2, <1>3 DEF MailInOrder, InOrder
  <1>5. AppShape' /\ BlocksLinked' /\ StoredDecided' /\ StoreIndexed'
    BY <1>1, <1>3, AppUntouched
  <1>6. DecidedLinked'
    <2>1. decided' \in Seq(notarized') /\ Len(decided') = 1 /\ decided'[1] = GenesisHash
      BY <1>1
    <2>2. \A d \in notarized' : Rooted(d)
      BY <1>1 DEF IndexInv, DecidedLinked, Rooted
    <2> QED BY <2>1, <2>2, GenesisFacts DEF DecidedLinked
  <1> QED BY <1>4, <1>5, <1>6 DEF IndexInv

LEMMA ProposeKeepsIndex == ASSUME IndexInv, HandlePropose PROVE IndexInv'
  <1>1. PICK timestamp \in Timestamps :
           \E block \in Proposals(app, Head(mailbox).parent, timestamp, Self) :
               app' = Stash(app, block)
    BY DEF HandlePropose
  <1>2. PICK block \in Proposals(app, Head(mailbox).parent, timestamp, Self) :
               app' = Stash(app, block)
    BY <1>1
  <1>3. /\ mailbox # <<>> /\ mailbox' = Tail(mailbox)
        /\ UNCHANGED <<wire, inbound, notarized, decided>>
    BY DEF HandlePropose, Received, network_vars
  <1>4. AppShape' /\ BlocksLinked' /\ app'.blocks = app.blocks
    BY <1>2, <1>3, ProposalLinked, StashLinked
  <1>5. StoredDecided' /\ StoreIndexed'
    BY <1>3, <1>4, ChainUntouched, StoreUntouched DEF IndexInv
  <1> QED BY <1>3, <1>4, <1>5, ChainUntouched, MessageTaken DEF IndexInv

(* A message that changes nothing here: Verify, or Propose on an unknown   *)
(* parent.                                                                 *)
LEMMA AnswerKeepsIndex ==
    ASSUME IndexInv, mailbox # <<>>, mailbox' = Tail(mailbox),
           UNCHANGED <<app, wire, inbound, notarized, decided>>
    PROVE  IndexInv'
  BY AppUntouched, ChainUntouched, MessageTaken DEF IndexInv

LEMMA BroadcastKeepsIndex == ASSUME IndexInv, HandleBroadcast PROVE IndexInv'
  <1> DEFINE digest == Head(mailbox).digest
  <1>1. /\ mailbox # <<>> /\ mailbox' = Tail(mailbox)
        /\ app' = AfterBroadcast(app, digest)
        /\ UNCHANGED <<wire, inbound, notarized, decided>>
    BY DEF HandleBroadcast, Received, network_vars, engine_vars
  <1> HIDE DEF digest
  <1>2. /\ DOMAIN app' = DOMAIN app /\ app'.blocks = app.blocks
        /\ app'.pending = app.pending
        /\ \/ app'.blocks_out = app.blocks_out
           \/ /\ digest \in DOMAIN app.pending
              /\ app'.blocks_out = Enqueue(app.blocks_out, app.pending[digest])
    BY <1>1 DEF AfterBroadcast, BroadcastOutcome, IndexInv, AppShape, Enqueue
  <1>3. /\ IsQueue(app'.blocks_out)
        /\ \A i \in DOMAIN app'.blocks_out : Linked(BlockHash(app'.blocks_out[i]))
    <2>1. CASE app'.blocks_out = app.blocks_out
      BY <2>1 DEF IndexInv, BlocksLinked
    <2>2. CASE /\ digest \in DOMAIN app.pending
               /\ app'.blocks_out = Enqueue(app.blocks_out, app.pending[digest])
      <3>1. IsQueue(app.blocks_out) /\ Linked(BlockHash(app.pending[digest]))
        BY <2>2 DEF IndexInv, BlocksLinked
      <3>2. /\ IsQueue(app'.blocks_out)
            /\ \A i \in DOMAIN app'.blocks_out :
                  \/ app'.blocks_out[i] = app.pending[digest]
                  \/ \E j \in DOMAIN app.blocks_out :
                        app'.blocks_out[i] = app.blocks_out[j]
        BY <2>2, <3>1, EnqueueFacts
      <3> QED BY <3>1, <3>2 DEF IndexInv, BlocksLinked
    <2> QED BY <1>2, <2>1, <2>2
  <1>4. BlocksLinked' /\ AppShape'
    BY <1>1, <1>2, <1>3 DEF IndexInv, BlocksLinked, AppShape, IsQueue
  <1>5. StoredDecided' /\ StoreIndexed'
    BY <1>1, <1>2, ChainUntouched, StoreUntouched DEF IndexInv
  <1> QED BY <1>1, <1>4, <1>5, ChainUntouched, MessageTaken DEF IndexInv

LEMMA StoreBlockKeepsIndex == ASSUME IndexInv, HandleStoreBlock PROVE IndexInv'
  <1> DEFINE bytes == Head(mailbox).bytes
  <1>1. /\ mailbox # <<>> /\ mailbox' = Tail(mailbox)
        /\ Head(mailbox).type = "StoreBlock"
        /\ app' = AfterStoreBlock(app, bytes)
        /\ UNCHANGED <<wire, inbound, notarized, decided>>
    BY DEF HandleStoreBlock, Received, network_vars, engine_vars
  <1>2. bytes = Undecodable \/ Linked(BlockHash(bytes))
    BY <1>1, MessageTaken DEF InOrder
  <1> HIDE DEF bytes
  <1>3. CASE app' = app
    BY <1>1, <1>3, AnswerKeepsIndex
  <1>4. CASE app' = Stash(app, bytes) /\ Linked(BlockHash(bytes))
    <2>1. AppShape' /\ BlocksLinked' /\ app'.blocks = app.blocks
      BY <1>1, <1>4, StashLinked
    <2>2. StoredDecided' /\ StoreIndexed'
      BY <1>1, <2>1, ChainUntouched, StoreUntouched DEF IndexInv
    <2> QED BY <1>1, <2>1, <2>2, ChainUntouched, MessageTaken DEF IndexInv
  <1> QED BY <1>1, <1>2, <1>3, <1>4 DEF AfterStoreBlock, Decodes

(* Inserting a decided block: another block at its height would have been  *)
(* decided too, and decided blocks of one height are one.                  *)
LEMMA InsertKeepsIndex ==
    ASSUME DecidedLinked, StoredDecided, StoreIndexed, NEW block,
           IsIn(decided, BlockHash(block)),
           app'.blocks = StoreInsert(app.blocks, block), decided' = decided
    PROVE  StoredDecided' /\ StoreIndexed'
  <1> DEFINE d == BlockHash(block)
             h == block.header.height
             blocks == app.blocks.blocks
             index == app.blocks.height_index
             new_blocks == app'.blocks.blocks
             new_index == app'.blocks.height_index
  <1>1. new_blocks = Bind(blocks, d, block) /\ new_index = Bind(index, h, d)
    BY DEF StoreInsert
  <1>2. /\ \A x : x \in DOMAIN new_blocks <=> x \in DOMAIN blocks \/ x = d
        /\ new_blocks[d] = block
        /\ \A x \in DOMAIN blocks : x # d => new_blocks[x] = blocks[x]
    BY <1>1, BindFacts
  <1>3. /\ \A x : x \in DOMAIN new_index <=> x \in DOMAIN index \/ x = h
        /\ new_index[h] = d
        /\ \A x \in DOMAIN index : x # h => new_index[x] = index[x]
    BY <1>1, BindFacts
  <1>4. \A x \in DOMAIN blocks : x # d => blocks[x].header.height # h
    <2> SUFFICES ASSUME NEW x \in DOMAIN blocks, blocks[x].header.height = h
                 PROVE  x = d
      OBVIOUS
    <2>1. BlockHash(blocks[x]) = x /\ (x = GenesisHash \/ IsIn(decided, x))
      BY DEF StoredDecided
    <2>2. Header(x) = blocks[x].header /\ Header(d) = block.header
      BY <2>1, HeaderOfHash
    <2> QED BY <2>1, <2>2, OneDecidedPerHeight
  <1> HIDE DEF d, h, blocks, index, new_blocks, new_index
  <1>5. StoredDecided'
    <2>1. \A x \in DOMAIN new_blocks :
             BlockHash(new_blocks[x]) = x /\ (x = GenesisHash \/ IsIn(decided, x))
      <3>1. BlockHash(block) = d /\ IsIn(decided, d)
        BY DEF d
      <3> QED BY <1>2, <3>1 DEF StoredDecided, blocks
    <2> QED BY <2>1 DEF StoredDecided, new_blocks
  <1>6. \A x \in DOMAIN new_index :
           new_index[x] \in DOMAIN new_blocks /\ new_blocks[new_index[x]].header.height = x
    <2>1. \A x \in DOMAIN index :
             index[x] \in DOMAIN blocks /\ blocks[index[x]].header.height = x
      BY DEF StoreIndexed, index, blocks
    <2>2. block.header.height = h
      BY DEF h
    <2>3. ASSUME NEW x \in DOMAIN index, x # h PROVE new_blocks[index[x]].header.height = x
      <3>1. CASE index[x] = d
        <4>1. d \in DOMAIN blocks /\ blocks[d].header.height = x
          BY <2>1, <2>3, <3>1
        <4>2. Header(d) = blocks[d].header /\ Header(d) = block.header
          BY <4>1, HeaderOfHash DEF StoredDecided, blocks, d
        <4> QED BY <2>2, <2>3, <4>1, <4>2
      <3>2. CASE index[x] # d
        BY <1>2, <2>1, <3>2
      <3> QED BY <3>1, <3>2
    <2> QED BY <1>2, <1>3, <2>1, <2>2, <2>3
  <1>7. \A x \in DOMAIN new_blocks :
           /\ new_blocks[x].header.height \in DOMAIN new_index
           /\ new_index[new_blocks[x].header.height] = x
    <2>1. \A x \in DOMAIN blocks :
             /\ blocks[x].header.height \in DOMAIN index
             /\ index[blocks[x].header.height] = x
      BY DEF StoreIndexed, index, blocks
    <2>2. block.header.height = h
      BY DEF h
    <2> QED BY <1>2, <1>3, <1>4, <2>1, <2>2
  <1>8. StoreIndexed'
    BY <1>6, <1>7 DEF StoreIndexed, new_blocks, new_index
  <1> QED BY <1>5, <1>8

LEMMA FinalizeKeepsIndex == ASSUME IndexInv, HandleFinalize PROVE IndexInv'
  <1> DEFINE digest == Head(mailbox).digest
  <1>1. /\ mailbox # <<>> /\ mailbox' = Tail(mailbox)
        /\ Head(mailbox).type = "Finalize"
        /\ app' = AfterFinalize(app, digest)
        /\ UNCHANGED <<wire, inbound, notarized, decided>>
    BY DEF HandleFinalize, Received, network_vars, engine_vars
  <1>2. IsIn(decided, digest)
    BY <1>1, MessageTaken DEF InOrder
  <1> HIDE DEF digest
  <1>3. CASE FinalizeOutcome(app, digest) = "missing"
    <2>1. app' = app
      BY <1>1, <1>3 DEF AfterFinalize
    <2> QED BY <1>1, <2>1, AnswerKeepsIndex
  <1>4. CASE FinalizeOutcome(app, digest) # "missing"
    <2> DEFINE e == Executed(app, digest)
               block == app.pending[digest]
    <2>1. /\ digest \in DOMAIN app.pending
          /\ FinalizeOutcome(app, digest) \in {"rejected", "committed"}
      BY <1>4 DEF FinalizeOutcome
    <2>2. app' = e \/ app' = Persisted(e, block)
      BY <1>1, <2>1 DEF AfterFinalize
    <2>3. BlockHash(block) = digest
      BY <2>1 DEF IndexInv, BlocksLinked
    <2>4. /\ DOMAIN e = DOMAIN app
          /\ e.pending = Unbind(app.pending, digest)
          /\ e.blocks = app.blocks /\ e.blocks_out = app.blocks_out
      BY DEF Executed, IndexInv, AppShape
    <2> HIDE DEF e, block
    <2>5. /\ DOMAIN app' = DOMAIN app
          /\ app'.pending = Unbind(app.pending, digest)
          /\ app'.blocks_out = app.blocks_out
          /\ app'.blocks = app.blocks \/ app'.blocks = StoreInsert(app.blocks, block)
      BY <2>2, <2>4 DEF Persisted, IndexInv, AppShape
    <2>6. \A d \in DOMAIN app'.pending : Linked(d) /\ BlockHash(app'.pending[d]) = d
      BY <2>5, UnbindFacts DEF IndexInv, BlocksLinked
    <2>7. AppShape' /\ BlocksLinked'
      BY <1>1, <2>5, <2>6 DEF IndexInv, AppShape, BlocksLinked, IsQueue
    <2>8. StoredDecided' /\ StoreIndexed'
      <3>1. CASE app'.blocks = app.blocks
        BY <1>1, <3>1, StoreUntouched DEF IndexInv
      <3>2. CASE app'.blocks = StoreInsert(app.blocks, block)
        BY <1>1, <1>2, <2>3, <3>2, InsertKeepsIndex DEF IndexInv
      <3> QED BY <2>5, <3>1, <3>2
    <2> QED BY <1>1, <2>7, <2>8, ChainUntouched, MessageTaken DEF IndexInv
  <1> QED BY <1>3, <1>4

-----------------------------------------------------------------------------
(* The engine and the network.                                             *)

LEMMA QuestionKeepsIndex ==
    ASSUME IndexInv, NEW message, Send(message), InOrder(message, decided),
           message.type # "Genesis",
           UNCHANGED <<app, wire, inbound, notarized, decided>>
    PROVE  IndexInv'
  BY AppUntouched, ChainUntouched, MessageSent DEF IndexInv

LEMMA AskGenesisKeepsIndex == ASSUME IndexInv, AskGenesis PROVE IndexInv'
  <1> DEFINE message == [type |-> "Genesis"]
  <1>1. /\ mailbox' = Enqueue(mailbox, message) /\ MailInOrder(mailbox, decided)
        /\ \A i \in DOMAIN mailbox : mailbox[i].type # "Genesis"
        /\ decided = <<>>
        /\ UNCHANGED <<app, wire, inbound, notarized, decided>>
    BY DEF AskGenesis, Send, network_vars, engine_vars, IndexInv
  <1>2. InOrder(message, decided)
    BY <1>1 DEF InOrder
  <1> HIDE DEF message
  <1>3. MailInOrder(mailbox', decided')
    BY <1>1, <1>2, SendKeepsOrder
  <1> QED BY <1>1, <1>3, AppUntouched, ChainUntouched DEF IndexInv

LEMMA NotarizeKeepsIndex == ASSUME IndexInv, Notarize PROVE IndexInv'
  <1>1. PICK block \in wire : notarized' = notarized \cup {BlockHash(block)}
    BY DEF Notarize
  <1>2. UNCHANGED <<app, mailbox, wire, inbound, decided>>
    BY DEF Notarize, network_vars
  <1>3. Rooted(BlockHash(block))
    BY DEF IndexInv, BlocksLinked, Rooted
  <1>4. decided' \in Seq(notarized')
    BY <1>1, <1>2, SeqMonotonic DEF IndexInv, DecidedLinked
  <1>5. DecidedLinked'
    BY <1>1, <1>2, <1>3, <1>4 DEF IndexInv, DecidedLinked
  <1> QED BY <1>2, <1>5, AppUntouched DEF IndexInv

LEMMA DecideKeepsIndex == ASSUME IndexInv, Decide PROVE IndexInv'
  <1>1. PICK digest \in notarized :
           /\ decided # <<>>
           /\ Header(digest).parent_hash = decided[Len(decided)]
           /\ decided' = Append(decided, digest)
           /\ \/ Send([type |-> "Finalize", digest |-> digest])
              \/ UNCHANGED mailbox
    BY DEF Decide
  <1>2. UNCHANGED <<app, wire, inbound, notarized>>
    BY DEF Decide, network_vars
  <1> DEFINE n == Len(decided)
  <1>3. n \in Nat \ {0} /\ decided \in Seq(notarized)
    BY <1>1, LenProperties, EmptySeq DEF IndexInv, DecidedLinked
  <1>4. decided[n] \in notarized /\ Header(decided[n]).height = n - 1
    BY <1>3, ElementOfSeq DEF IndexInv, DecidedLinked
  <1>5. Linked(digest)
    <2>1. decided[n] # ZeroHash
      BY <1>4, RootedFacts DEF IndexInv, DecidedLinked
    <2> QED BY <1>1, <2>1, GenesisFacts DEF IndexInv, DecidedLinked, Rooted
  <1>6. Header(digest).height = n
    BY <1>1, <1>3, <1>4, <1>5 DEF Linked
  <1>7. /\ decided' \in Seq(notarized')
        /\ Len(decided') = n + 1
        /\ \A i \in 1 .. n : decided'[i] = decided[i]
        /\ decided'[n + 1] = digest
    BY <1>1, <1>2, <1>3, AppendProperties
  <1> HIDE DEF n
  <1>8. DecidedLinked'
    <2>1. \A i \in 1 .. n + 1 : i \in 1 .. n \/ i = n + 1
      BY <1>3
    <2>2. \A i \in 1 .. n : Header(decided'[i]).height = i - 1
      BY <1>7 DEF IndexInv, DecidedLinked, n
    <2>3. Header(decided'[n + 1]).height = (n + 1) - 1
      BY <1>3, <1>6, <1>7
    <2>4. decided'[1] = GenesisHash
      BY <1>1, <1>3, <1>7 DEF IndexInv, DecidedLinked
    <2> QED BY <1>2, <1>7, <2>1, <2>2, <2>3, <2>4 DEF IndexInv, DecidedLinked
  <1>9. (\A d : IsIn(decided, d) => IsIn(decided', d)) /\ IsIn(decided', digest)
    BY <1>3, <1>7 DEF IsIn, n
  <1>10. MailInOrder(mailbox', decided')
    <2> DEFINE message == [type |-> "Finalize", digest |-> digest]
    <2>1. CASE Send(message)
      <3>1. InOrder(message, decided') /\ message.type # "Genesis"
        BY <1>9 DEF InOrder
      <3>2. mailbox' = Enqueue(mailbox, message) /\ MailInOrder(mailbox, decided)
        BY <2>1 DEF Send, IndexInv
      <3> HIDE DEF message
      <3> QED BY <1>1, <1>9, <3>1, <3>2, SendKeepsOrder
    <2>2. CASE UNCHANGED mailbox
      BY <1>1, <1>9, <2>2 DEF IndexInv, MailInOrder, InOrder
    <2> QED BY <1>1, <2>1, <2>2
  <1> QED BY <1>2, <1>8, <1>9, <1>10, AppUntouched DEF IndexInv

(* A certificate reported again, by the engine or from its journal.        *)
LEMMA ReportKeepsIndex ==
    ASSUME IndexInv, NEW i \in DOMAIN decided,
           Send([type |-> "Finalize", digest |-> decided[i]]),
           UNCHANGED <<app, wire, inbound, notarized, decided>>
    PROVE  IndexInv'
  <1> DEFINE message == [type |-> "Finalize", digest |-> decided[i]]
  <1>1. IsIn(decided, decided[i])
    BY LenProperties DEF IsIn, IndexInv, DecidedLinked
  <1>2. InOrder(message, decided) /\ message.type # "Genesis"
    BY <1>1 DEF InOrder
  <1> HIDE DEF message
  <1>3. Send(message)
    BY DEF message
  <1> QED BY <1>2, <1>3, QuestionKeepsIndex

(* A peer's block is one above the parent that it was built on.            *)
LEMMA PeerProposesKeepsIndex ==
    ASSUME ConformingPeers, IndexInv, PeerProposes PROVE IndexInv'
  <1>1. PICK parent \in notarized \cup {GenesisHash}, body \in Bodies,
             timestamp \in Timestamps :
          \E height \in PeerHeights(parent) :
             LET block == NewBlock(height, parent, timestamp, Peer, body)
             IN  wire' = wire \cup {block} /\ inbound' = inbound \cup {block}
    BY DEF PeerProposes
  <1>2. UNCHANGED <<app, mailbox, notarized, decided>>
    BY DEF PeerProposes, engine_vars
  <1>3. Rooted(parent)
    BY DEF IndexInv, DecidedLinked, Rooted
  <1> DEFINE block == NewBlock(Header(parent).height + 1, parent, timestamp, Peer, body)
  <1>4. wire' = wire \cup {block} /\ inbound' = inbound \cup {block}
    BY <1>1 DEF PeerHeights
  <1>5. Linked(BlockHash(block))
    BY <1>3, NewBlockLinked
  <1> HIDE DEF block
  <1>6. AppShape' /\ BlocksLinked'
    BY <1>2, <1>4, <1>5 DEF IndexInv, AppShape, BlocksLinked, IsQueue
  <1>7. StoredDecided' /\ StoreIndexed'
    BY <1>2, StoreUntouched DEF IndexInv
  <1> QED BY <1>2, <1>6, <1>7, ChainUntouched DEF IndexInv

LEMMA DeliverKeepsIndex == ASSUME IndexInv, DeliverBlock PROVE IndexInv'
  <1>1. PICK block \in inbound :
           /\ Send([type |-> "StoreBlock", bytes |-> block])
           /\ inbound' = inbound \ {block}
    BY DEF DeliverBlock
  <1>2. UNCHANGED <<app, wire, notarized, decided>>
    BY DEF DeliverBlock, engine_vars
  <1> DEFINE message == [type |-> "StoreBlock", bytes |-> block]
  <1>3. InOrder(message, decided) /\ message.type # "Genesis"
    BY DEF InOrder, IndexInv, BlocksLinked
  <1> HIDE DEF message
  <1>4. MailInOrder(mailbox', decided')
    BY <1>1, <1>2, <1>3, MessageSent DEF message
  <1>5. AppShape' /\ BlocksLinked'
    BY <1>1, <1>2 DEF IndexInv, AppShape, BlocksLinked, IsQueue
  <1>6. StoredDecided' /\ StoreIndexed'
    BY <1>2, StoreUntouched DEF IndexInv
  <1> QED BY <1>2, <1>4, <1>5, <1>6, ChainUntouched DEF IndexInv

LEMMA SendBlockKeepsIndex == ASSUME IndexInv, SendBlock PROVE IndexInv'
  <1>1. /\ app.blocks_out # <<>> /\ IsQueue(app.blocks_out)
        /\ wire' = wire \cup {Head(app.blocks_out)}
        /\ app' = [app EXCEPT !.blocks_out = Rest(app.blocks_out)]
        /\ UNCHANGED <<mailbox, inbound, notarized, decided>>
    BY DEF SendBlock, engine_vars, Rest, IndexInv, BlocksLinked
  <1>2. /\ DOMAIN app' = DOMAIN app /\ app'.blocks = app.blocks
        /\ app'.pending = app.pending /\ app'.blocks_out = Rest(app.blocks_out)
    BY <1>1 DEF IndexInv, AppShape
  <1>3. /\ IsQueue(app'.blocks_out)
        /\ \A i \in DOMAIN app'.blocks_out :
              \E j \in DOMAIN app.blocks_out : app'.blocks_out[i] = app.blocks_out[j]
        /\ \E j \in DOMAIN app.blocks_out : Head(app.blocks_out) = app.blocks_out[j]
    BY <1>1, <1>2, DequeueFacts, HeadFacts
  <1>4. AppShape' /\ BlocksLinked'
    BY <1>1, <1>2, <1>3 DEF IndexInv, AppShape, BlocksLinked, IsQueue
  <1>5. StoredDecided' /\ StoreIndexed'
    BY <1>1, <1>2, StoreUntouched DEF IndexInv
  <1> QED BY <1>1, <1>4, <1>5, ChainUntouched DEF IndexInv

-----------------------------------------------------------------------------
(* Boot.                                                                   *)

LEMMA EmptyMail == ASSUME NEW chain PROVE MailInOrder(<<>>, chain)
  BY EmptyQueue DEF MailInOrder

(* A node that has just booted: nothing pending, genesis stored.           *)
LEMMA BootFacts ==
    ASSUME NEW a, a = NewApp(Allocations, SeedTxs)
    PROVE  /\ DOMAIN a = {"state", "blocks", "mempool", "pending", "blocks_out"}
           /\ \A d : d \notin DOMAIN a.pending
           /\ a.blocks_out = <<>>
           /\ \A d : d \in DOMAIN a.blocks.blocks <=> d = GenesisHash
           /\ a.blocks.blocks[GenesisHash] = GenesisBlock
           /\ \A h : h \in DOMAIN a.blocks.height_index <=> h = 0
           /\ a.blocks.height_index[0] = GenesisHash
  <1>1. /\ DOMAIN a = {"state", "blocks", "mempool", "pending", "blocks_out"}
        /\ a.pending = EmptyMap /\ a.blocks_out = <<>>
        /\ a.blocks = StoreInsert(EmptyStore, GenesisBlock)
    BY DEF NewApp
  <1>2. /\ a.blocks.blocks = Bind(EmptyMap, GenesisHash, GenesisBlock)
        /\ a.blocks.height_index = Bind(EmptyMap, GenesisBlock.header.height, GenesisHash)
    BY <1>1, GenesisFacts DEF StoreInsert, EmptyStore
  <1>3. GenesisBlock.header.height = 0
    BY GenesisFacts
  <1>4. /\ \A d : d \in DOMAIN a.blocks.blocks <=> d = GenesisHash
        /\ a.blocks.blocks[GenesisHash] = GenesisBlock
        /\ \A h : h \in DOMAIN a.blocks.height_index <=> h = 0
        /\ a.blocks.height_index[0] = GenesisHash
    BY <1>2, <1>3, BindFacts, EmptyMapFacts
  <1> QED BY <1>1, <1>4, EmptyMapFacts

LEMMA InitEstablishesIndex == Init => IndexInv
  <1> SUFFICES ASSUME Init PROVE IndexInv
    OBVIOUS
  <1>1. AppShape /\ BlocksLinked
    BY BootFacts, EmptyQueue DEF Init, AppShape, BlocksLinked
  <1>2. DecidedLinked
    BY EmptySeq DEF Init, DecidedLinked
  <1>3. StoredDecided /\ StoreIndexed
    BY BootFacts, GenesisFacts DEF Init, StoredDecided, StoreIndexed
  <1> QED BY <1>1, <1>2, <1>3, EmptyMail DEF Init, IndexInv

LEMMA RestartKeepsIndex == ASSUME IndexInv, Restart PROVE IndexInv'
  <1>1. /\ app' = NewApp(Allocations, SeedTxs) /\ mailbox' = <<>>
        /\ UNCHANGED <<wire, inbound, notarized, decided>>
    BY DEF Restart, Rebooted, network_vars
  <1>2. AppShape' /\ BlocksLinked'
    <2>1. AppShape' /\ (\A d : d \notin DOMAIN app'.pending) /\ app'.blocks_out = <<>>
      BY <1>1, BootFacts DEF AppShape
    <2>2. IsQueue(app'.blocks_out) /\ \A i : i \notin DOMAIN app'.blocks_out
      BY <2>1, EmptyQueue
    <2> QED BY <1>1, <2>1, <2>2 DEF IndexInv, BlocksLinked, IsQueue
  <1>3. StoredDecided' /\ StoreIndexed'
    BY <1>1, BootFacts, GenesisFacts DEF StoredDecided, StoreIndexed
  <1> QED BY <1>1, <1>2, <1>3, EmptyMail, ChainUntouched DEF IndexInv

LEMMA ReplayKeepsIndex == ASSUME IndexInv, ReplayJournal PROVE IndexInv'
  <1>1. PICK i \in DOMAIN decided \ {1} : Send([type |-> "Finalize", digest |-> decided[i]])
    BY DEF ReplayJournal
  <1> QED BY <1>1, ReportKeepsIndex DEF ReplayJournal, network_vars, engine_vars

-----------------------------------------------------------------------------

LEMMA ActorKeepsIndex == ASSUME IndexInv, Actor PROVE IndexInv'
  <1>1. CASE ProposeFails
    BY <1>1, AnswerKeepsIndex DEF ProposeFails, Received, network_vars, engine_vars
  <1>2. CASE HandleVerify
    BY <1>2, AnswerKeepsIndex DEF HandleVerify, Received, network_vars
  <1> QED BY <1>1, <1>2, GenesisKeepsIndex, ProposeKeepsIndex, FinalizeKeepsIndex,
             BroadcastKeepsIndex, StoreBlockKeepsIndex DEF Actor

LEMMA EngineKeepsIndex == ASSUME IndexInv, Engine PROVE IndexInv'
  <1>1. \A message :
           message.type \in {"Propose", "Verify", "Broadcast"} => InOrder(message, decided)
    BY DEF InOrder
  <1>2. CASE AskPropose
    BY <1>1, <1>2, QuestionKeepsIndex DEF AskPropose, network_vars, engine_vars
  <1>3. CASE AskVerify
    BY <1>1, <1>3, QuestionKeepsIndex DEF AskVerify, network_vars, engine_vars
  <1>4. CASE AskBroadcast
    BY <1>1, <1>4, QuestionKeepsIndex DEF AskBroadcast, network_vars
  <1>5. CASE ReportAgain
    <2>1. Len(decided) \in DOMAIN decided
      BY <1>5, LenProperties, EmptySeq DEF ReportAgain, IndexInv, DecidedLinked
    <2> QED BY <1>5, <2>1, ReportKeepsIndex DEF ReportAgain, network_vars, engine_vars
  <1> QED BY <1>2, <1>3, <1>4, <1>5, AskGenesisKeepsIndex, NotarizeKeepsIndex,
             DecideKeepsIndex DEF Engine

LEMMA NetworkKeepsIndex == ASSUME ConformingPeers, IndexInv, Network PROVE IndexInv'
  BY PeerProposesKeepsIndex, DeliverKeepsIndex, SendBlockKeepsIndex
     DEF Network, DeliverGarbage

LEMMA StepKeepsIndex == ASSUME ConformingPeers, IndexInv, [Next]_vars PROVE IndexInv'
  <1>1. CASE UNCHANGED vars
    BY <1>1, AppUntouched, ChainUntouched DEF vars, IndexInv
  <1> QED BY <1>1, ActorKeepsIndex, EngineKeepsIndex, NetworkKeepsIndex,
             RestartKeepsIndex, ReplayKeepsIndex DEF Next

(* Links, order and index are inductive among conforming peers.            *)
THEOREM IndexInvariance == ASSUME ConformingPeers PROVE Spec => []IndexInv
  <1>1. IndexInv /\ [Next]_vars => IndexInv'
    BY StepKeepsIndex
  <1> QED BY <1>1, InitEstablishesIndex, PTL DEF Spec

(* The two maps of the block store agree, and no finalized block is ever   *)
(* overwritten, for every quorum, however many certificates are skipped or *)
(* repeated, and across restarts.                                          *)
THEOREM StoreStaysIndexed ==
    ASSUME ConformingPeers PROVE Spec => []StoreIndexed
  <1>1. IndexInv => StoreIndexed
    BY DEF IndexInv
  <1> QED BY <1>1, IndexInvariance, PTL


-----------------------------------------------------------------------------
(* What was committed.  Certificates wait in the order of the chain, above *)
(* everything that is settled; what is stored is what was committed, and   *)
(* the nonces of its transactions are spent.                               *)

Level(d) == Header(d).height

IsReport(message) == message.type = "Finalize"

InTurn(queue, outcomes) ==
    \A i \in DOMAIN queue : IsReport(queue[i]) =>
        /\ queue[i].digest # GenesisHash
        /\ \A j \in DOMAIN queue : i < j /\ IsReport(queue[j]) =>
              Level(queue[i].digest) <= Level(queue[j].digest)
        /\ \A d \in DOMAIN outcomes : Level(d) <= Level(queue[i].digest)

StoredIs(blocks, outcomes) ==
    /\ GenesisHash \notin DOMAIN outcomes
    /\ \A d : d \in DOMAIN blocks
                 <=> d = GenesisHash \/ (d \in DOMAIN outcomes /\ outcomes[d] = "committed")

AllSpent(accounts, blocks) ==
    \A d \in DOMAIN blocks :
        SpentBy(accounts, blocks[d].transactions, Len(blocks[d].transactions))

CommitInv ==
    /\ InTurn(mailbox, settled)
    /\ StoredIs(app.blocks.blocks, settled)
    /\ AllSpent(app.state, app.blocks.blocks)

(* A decided block stands in the chain where its level says.               *)
LEMMA LevelFacts ==
    ASSUME IndexInv, NEW d, IsIn(decided, d)
    PROVE  /\ Level(d) \in Nat /\ Level(d) < Len(decided) /\ Len(decided) \in Nat
           /\ Level(d) + 1 \in DOMAIN decided /\ decided[Level(d) + 1] = d
           /\ d # GenesisHash => Level(d) >= 1
  <1>1. Len(decided) \in Nat /\ DOMAIN decided = 1 .. Len(decided)
    BY LenProperties DEF IndexInv, DecidedLinked
  <1>2. PICK i \in 1 .. Len(decided) : decided[i] = d
    BY DEF IsIn
  <1>3. Level(d) = i - 1
    BY <1>2 DEF IndexInv, DecidedLinked, Level
  <1>4. i = 1 => d = GenesisHash
    BY <1>1, <1>2 DEF IndexInv, DecidedLinked
  <1> QED BY <1>1, <1>2, <1>3, <1>4

LEMMA GenesisLevel == Level(GenesisHash) = 0
  BY GenesisFacts DEF Level

(* Reports and outcomes are of decided blocks.                             *)
LEMMA ReportFacts ==
    ASSUME ShapeInv, NEW i \in DOMAIN mailbox, IsReport(mailbox[i])
    PROVE  IsIn(decided, mailbox[i].digest)
  BY DEF ShapeInv, MailOk, MessageOk, IsReport

LEMMA OutcomeFacts ==
    ASSUME ShapeInv, NEW d \in DOMAIN settled PROVE IsIn(decided, d)
  BY DEF ShapeInv

-----------------------------------------------------------------------------
(* The queue of certificates.                                              *)

LEMMA InTurnRest ==
    ASSUME NEW queue, IsQueue(queue), queue # <<>>, NEW outcomes, InTurn(queue, outcomes),
           NEW shorter, shorter = Rest(queue)
    PROVE  InTurn(shorter, outcomes)
  <1>1. \A i \in DOMAIN shorter :
           i \in Nat \ {0} /\ i + 1 \in DOMAIN queue /\ shorter[i] = queue[i + 1]
    BY RestFacts
  <1> SUFFICES ASSUME NEW i \in DOMAIN shorter, IsReport(shorter[i])
               PROVE  /\ shorter[i].digest # GenesisHash
                      /\ \A j \in DOMAIN shorter : i < j /\ IsReport(shorter[j]) =>
                            Level(shorter[i].digest) <= Level(shorter[j].digest)
                      /\ \A d \in DOMAIN outcomes : Level(d) <= Level(shorter[i].digest)
    BY DEF InTurn
  <1>2. i + 1 \in DOMAIN queue /\ shorter[i] = queue[i + 1] /\ i \in Nat
    BY <1>1
  <1>3. /\ queue[i + 1].digest # GenesisHash
        /\ \A d \in DOMAIN outcomes : Level(d) <= Level(queue[i + 1].digest)
        /\ \A j \in DOMAIN queue : i + 1 < j /\ IsReport(queue[j]) =>
              Level(queue[i + 1].digest) <= Level(queue[j].digest)
    BY <1>2 DEF InTurn
  <1>4. ASSUME NEW j \in DOMAIN shorter, i < j, IsReport(shorter[j])
        PROVE  Level(shorter[i].digest) <= Level(shorter[j].digest)
    <2>1. j + 1 \in DOMAIN queue /\ shorter[j] = queue[j + 1] /\ j \in Nat
      BY <1>1
    <2>2. i + 1 < j + 1
      BY <1>2, <1>4, <2>1
    <2> QED BY <1>2, <1>3, <1>4, <2>1, <2>2
  <1> QED BY <1>2, <1>3, <1>4

(* The certificate at the head is not above any other.                     *)
LEMMA HeadInTurn ==
    ASSUME NEW queue, IsQueue(queue), queue # <<>>, NEW outcomes, InTurn(queue, outcomes),
           IsReport(Head(queue)), NEW shorter, shorter = Rest(queue)
    PROVE  /\ Head(queue).digest # GenesisHash
           /\ \A i \in DOMAIN shorter : IsReport(shorter[i]) =>
                 Level(Head(queue).digest) <= Level(shorter[i].digest)
           /\ \A d \in DOMAIN outcomes : Level(d) <= Level(Head(queue).digest)
  <1>1. /\ 1 \in DOMAIN queue /\ Head(queue) = queue[1]
        /\ \A i \in DOMAIN shorter :
              i \in Nat \ {0} /\ i + 1 \in DOMAIN queue /\ shorter[i] = queue[i + 1]
    BY RestFacts
  <1>2. /\ queue[1].digest # GenesisHash
        /\ \A j \in DOMAIN queue : 1 < j /\ IsReport(queue[j]) =>
              Level(queue[1].digest) <= Level(queue[j].digest)
        /\ \A d \in DOMAIN outcomes : Level(d) <= Level(queue[1].digest)
    BY <1>1 DEF InTurn
  <1>3. \A i \in DOMAIN shorter : 1 < i + 1
    BY <1>1
  <1> QED BY <1>1, <1>2, <1>3

(* A message that comes last, if it is a certificate, is the highest.      *)
MayReport(queue, outcomes, d) ==
    /\ d # GenesisHash
    /\ \A i \in DOMAIN queue : IsReport(queue[i]) => Level(queue[i].digest) <= Level(d)
    /\ \A o \in DOMAIN outcomes : Level(o) <= Level(d)

LEMMA InTurnLonger ==
    ASSUME NEW queue, IsQueue(queue), NEW outcomes, InTurn(queue, outcomes),
           NEW message, IsReport(message) => MayReport(queue, outcomes, message.digest),
           NEW longer, longer = Enqueue(queue, message)
    PROVE  InTurn(longer, outcomes)
  <1> DEFINE n == Len(queue)
  <1>1. /\ n \in Nat /\ DOMAIN queue = 1 .. n
        /\ \A i : i \in DOMAIN longer <=> i \in DOMAIN queue \/ i = n + 1
        /\ \A i \in DOMAIN queue : longer[i] = queue[i]
        /\ longer[n + 1] = message
    BY EnqueuedLast
  <1> HIDE DEF n
  <1> SUFFICES ASSUME NEW i \in DOMAIN longer, IsReport(longer[i])
               PROVE  /\ longer[i].digest # GenesisHash
                      /\ \A j \in DOMAIN longer : i < j /\ IsReport(longer[j]) =>
                            Level(longer[i].digest) <= Level(longer[j].digest)
                      /\ \A d \in DOMAIN outcomes : Level(d) <= Level(longer[i].digest)
    BY DEF InTurn
  <1>2. CASE i = n + 1
    <2>1. \A j \in DOMAIN longer : ~(i < j)
      BY <1>1, <1>2
    <2> QED BY <1>1, <1>2, <2>1 DEF MayReport
  <1>3. CASE i \in DOMAIN queue
    <2>1. longer[i] = queue[i]
      BY <1>1, <1>3
    <2>2. /\ queue[i].digest # GenesisHash
          /\ \A d \in DOMAIN outcomes : Level(d) <= Level(queue[i].digest)
          /\ \A j \in DOMAIN queue : i < j /\ IsReport(queue[j]) =>
                Level(queue[i].digest) <= Level(queue[j].digest)
      BY <1>3, <2>1 DEF InTurn
    <2>3. ASSUME NEW j \in DOMAIN longer, i < j, IsReport(longer[j])
          PROVE  Level(longer[i].digest) <= Level(longer[j].digest)
      BY <1>1, <1>3, <2>1, <2>2, <2>3 DEF MayReport
    <2> QED BY <2>1, <2>2, <2>3
  <1> QED BY <1>1, <1>2, <1>3


(* The certificate at the head has been handled.                           *)
LEMMA InTurnSettled ==
    ASSUME NEW queue, IsQueue(queue), queue # <<>>, NEW outcomes, InTurn(queue, outcomes),
           IsReport(Head(queue)), NEW shorter, shorter = Rest(queue),
           NEW later, \A d : d \in DOMAIN later
                               => d \in DOMAIN outcomes \/ d = Head(queue).digest
    PROVE  InTurn(shorter, later)
  <1>1. InTurn(shorter, outcomes)
    BY InTurnRest
  <1>2. \A i \in DOMAIN shorter : IsReport(shorter[i]) =>
           Level(Head(queue).digest) <= Level(shorter[i].digest)
    BY HeadInTurn
  <1> QED BY <1>1, <1>2 DEF InTurn

-----------------------------------------------------------------------------
(* Steps that leave accounts and store alone.                              *)

LedgerSame == app'.blocks = app.blocks /\ app'.state = app.state

LEMMA ActorLeavesLedger ==
    ASSUME ShapeInv, Actor, ~HandleFinalize PROVE LedgerSame
  <1> ActorOk(app)
    BY DEF ShapeInv
  <1>1. CASE HandlePropose
    <2>1. PICK timestamp \in Timestamps :
             \E block \in Proposals(app, Head(mailbox).parent, timestamp, Self) :
                 app' = Stash(app, block)
      BY <1>1 DEF HandlePropose
    <2>2. PICK block \in Proposals(app, Head(mailbox).parent, timestamp, Self) :
                 app' = Stash(app, block)
      BY <2>1
    <2>3. BlockOk(block)
      BY ProposalOk
    <2> QED BY <2>2, <2>3, StashOk DEF LedgerSame
  <1>2. CASE HandleBroadcast
    <2>1. app' = AfterBroadcast(app, Head(mailbox).digest)
      BY <1>2 DEF HandleBroadcast
    <2> QED BY <2>1, BroadcastOk DEF LedgerSame
  <1>3. CASE HandleStoreBlock
    <2> DEFINE bytes == Head(mailbox).bytes
    <2>1. /\ mailbox # <<>> /\ Head(mailbox).type = "StoreBlock"
          /\ app' = AfterStoreBlock(app, bytes)
      BY <1>3 DEF HandleStoreBlock, Received
    <2>2. bytes = Undecodable \/ BlockOk(bytes)
      BY <2>1, HeadOk DEF MessageOk
    <2> HIDE DEF bytes
    <2>3. \/ app' = app
          \/ app' = Stash(app, bytes) /\ BlockOk(bytes)
      BY <2>1, <2>2 DEF AfterStoreBlock, Decodes
    <2> QED BY <2>3, StashOk DEF LedgerSame
  <1>4. CASE HandleGenesis \/ ProposeFails \/ HandleVerify
    BY <1>4 DEF HandleGenesis, ProposeFails, HandleVerify, LedgerSame
  <1> QED BY <1>1, <1>2, <1>3, <1>4 DEF Actor

LEMMA EngineLeavesLedger == ASSUME Engine PROVE LedgerSame
  BY DEF Engine, AskGenesis, AskPropose, AskVerify, AskBroadcast, Notarize, Decide,
         ReportAgain, LedgerSame

LEMMA NetworkLeavesLedger == ASSUME ShapeInv, Network PROVE LedgerSame
  <1>1. CASE SendBlock
    <2>1. /\ app.blocks_out # <<>>
          /\ app' = [app EXCEPT !.blocks_out = Rest(app.blocks_out)]
      BY <1>1 DEF SendBlock, Rest
    <2> QED BY <2>1, SentOk DEF ShapeInv, LedgerSame
  <1>2. CASE PeerProposes \/ DeliverBlock \/ DeliverGarbage
    BY <1>2 DEF PeerProposes, DeliverBlock, DeliverGarbage, LedgerSame
  <1> QED BY <1>1, <1>2 DEF Network

(* Accounts and store change only where a certificate is handled, and by a *)
(* restart.                                                                *)
LEMMA LedgerChanges ==
    ASSUME ShapeInv, [Next]_vars
    PROVE  \/ LedgerSame /\ UNCHANGED restarts
           \/ HandleFinalize /\ UNCHANGED restarts
           \/ Restart
  <1>1. CASE UNCHANGED vars
    BY <1>1 DEF vars, LedgerSame
  <1>2. CASE ReplayJournal
    BY <1>2 DEF ReplayJournal, LedgerSame
  <1> QED BY <1>1, <1>2, ActorLeavesLedger, EngineLeavesLedger, NetworkLeavesLedger DEF Next

-----------------------------------------------------------------------------
(* Steps and the order of the certificates.                                *)

LEMMA TakenInTurn ==
    ASSUME ShapeInv, InTurn(mailbox, settled), mailbox # <<>>, mailbox' = Tail(mailbox)
    PROVE  InTurn(mailbox', settled)
  <1>1. IsQueue(mailbox) /\ mailbox' = Rest(mailbox)
    BY DEF ShapeInv, MailOk, Rest
  <1> QED BY <1>1, InTurnRest

LEMMA SentInTurn ==
    ASSUME ShapeInv, InTurn(mailbox, settled), NEW message, Send(message),
           IsReport(message) => MayReport(mailbox, settled, message.digest)
    PROVE  InTurn(mailbox', settled)
  <1>1. IsQueue(mailbox) /\ mailbox' = Enqueue(mailbox, message)
    BY DEF ShapeInv, MailOk, Send
  <1> QED BY <1>1, InTurnLonger

(* A certificate as high as the chain may follow all others.               *)
LEMMA TopMayReport ==
    ASSUME ShapeInv, IndexInv, NEW d, d # GenesisHash,
           Level(d) \in Nat, Level(d) + 1 >= Len(decided)
    PROVE  MayReport(mailbox, settled, d)
  <1>1. ASSUME NEW e, IsIn(decided, e) PROVE Level(e) <= Level(d)
    BY <1>1, LevelFacts
  <1> QED BY <1>1, ReportFacts, OutcomeFacts DEF MayReport

LEMMA DecideInTurn ==
    ASSUME ShapeInv, IndexInv, IndexInv', InTurn(mailbox, settled), Decide
    PROVE  InTurn(mailbox', settled)
  <1>1. PICK digest :
           /\ decided # <<>>
           /\ decided' = Enqueue(decided, digest)
           /\ \/ Send([type |-> "Finalize", digest |-> digest])
              \/ UNCHANGED mailbox
    BY DEF Decide, Enqueue
  <1> DEFINE n == Len(decided)
             message == [type |-> "Finalize", digest |-> digest]
  <1>2. /\ n \in Nat /\ n >= 1
        /\ n + 1 \in DOMAIN decided' /\ decided'[n + 1] = digest
        /\ DOMAIN decided' = 1 .. Len(decided')
    <2>1. IsQueue(decided) /\ n \in Nat /\ n # 0
      BY <1>1, LenProperties, EmptySeq DEF ShapeInv, IsQueue, IndexInv, DecidedLinked
    <2>2. /\ IsQueue(decided')
          /\ \A i : i \in DOMAIN decided' <=> i \in DOMAIN decided \/ i = n + 1
          /\ decided'[n + 1] = digest
      BY <1>1, <2>1, EnqueuedLast
    <2>3. DOMAIN decided' = 1 .. Len(decided')
      BY <2>2, LenProperties DEF IsQueue
    <2> QED BY <2>1, <2>2, <2>3
  <1>3. Level(digest) = n
    <2>1. Header(decided'[n + 1]).height = (n + 1) - 1
      BY <1>2 DEF IndexInv, DecidedLinked
    <2> QED BY <1>2, <2>1 DEF Level
  <1>4. digest # GenesisHash
    BY <1>2, <1>3, GenesisLevel
  <1>5. MayReport(mailbox, settled, digest)
    BY <1>2, <1>3, <1>4, TopMayReport
  <1>6. message.digest = digest
    OBVIOUS
  <1> HIDE DEF message
  <1>7. CASE Send(message)
    BY <1>5, <1>6, <1>7, SentInTurn
  <1> QED BY <1>1, <1>7 DEF message

LEMMA AgainInTurn ==
    ASSUME ShapeInv, IndexInv, InTurn(mailbox, settled),
           StoredIs(app.blocks.blocks, settled), ReportAgain
    PROVE  InTurn(mailbox', settled)
  <1> DEFINE n == Len(decided)
             d == decided[n]
             message == [type |-> "Finalize", digest |-> d]
  <1>1. decided # <<>> /\ d \in DOMAIN settled /\ Send(message)
    BY DEF ReportAgain
  <1>2. d # GenesisHash
    BY <1>1 DEF StoredIs
  <1>3. n \in Nat /\ n >= 1
    BY <1>1, LenProperties, EmptySeq DEF IndexInv, DecidedLinked
  <1>4. Level(d) = n - 1
    BY <1>3 DEF IndexInv, DecidedLinked, Level
  <1>5. MayReport(mailbox, settled, d)
    <2> HIDE DEF n, d
    <2> QED BY <1>2, <1>3, <1>4, TopMayReport DEF n
  <1>6. message.digest = d
    OBVIOUS
  <1> HIDE DEF message, d
  <1> QED BY <1>1, <1>5, <1>6, SentInTurn

LEMMA ReplayInTurn ==
    ASSUME ShapeInv, IndexInv, InTurn(mailbox, settled), ReplayJournal
    PROVE  InTurn(mailbox', settled)
  <1>1. PICK i \in DOMAIN decided \ {1} :
           /\ \A j \in i .. Len(decided) :
                 /\ decided[j] \notin DOMAIN settled
                 /\ \A k \in DOMAIN mailbox :
                       mailbox[k].type = "Finalize" => mailbox[k].digest # decided[j]
           /\ Send([type |-> "Finalize", digest |-> decided[i]])
    BY DEF ReplayJournal
  <1> DEFINE d == decided[i]
             message == [type |-> "Finalize", digest |-> d]
  <1>2. Len(decided) \in Nat /\ DOMAIN decided = 1 .. Len(decided)
    BY LenProperties DEF IndexInv, DecidedLinked
  <1>3. Level(d) = i - 1 /\ i \in Nat /\ i >= 2
    BY <1>1, <1>2 DEF IndexInv, DecidedLinked, Level
  <1>4. d # GenesisHash
    BY <1>3, GenesisLevel
  <1>5. ASSUME NEW e, IsIn(decided, e),
               \A j \in i .. Len(decided) : e # decided[j]
        PROVE  Level(e) <= Level(d)
    <2>1. /\ Level(e) \in Nat /\ Level(e) + 1 \in DOMAIN decided
          /\ decided[Level(e) + 1] = e
      BY <1>5, LevelFacts
    <2>2. Level(e) + 1 \notin i .. Len(decided)
      BY <1>5, <2>1
    <2> HIDE DEF d
    <2> QED BY <1>2, <1>3, <2>1, <2>2
  <1>6. MayReport(mailbox, settled, d)
    <2>1. \A k \in DOMAIN mailbox : IsReport(mailbox[k]) =>
             Level(mailbox[k].digest) <= Level(d)
      BY <1>1, <1>5, ReportFacts DEF IsReport
    <2>2. \A o \in DOMAIN settled : Level(o) <= Level(d)
      BY <1>1, <1>5, OutcomeFacts
    <2> QED BY <1>4, <2>1, <2>2 DEF MayReport
  <1>7. message.digest = d /\ Send(message)
    BY <1>1
  <1> HIDE DEF message, d
  <1> QED BY <1>6, <1>7, SentInTurn

LEMMA TurnsKept ==
    ASSUME ShapeInv, IndexInv, IndexInv', InTurn(mailbox, settled),
           StoredIs(app.blocks.blocks, settled), [Next]_vars, ~HandleFinalize, ~Restart
    PROVE  settled' = settled /\ InTurn(mailbox', settled')
  <1>1. settled' = settled
    BY DEF vars, Next, ReplayJournal, Actor, HandleGenesis, HandlePropose, ProposeFails,
           HandleVerify, HandleBroadcast, HandleStoreBlock, Engine, AskGenesis,
           AskPropose, AskVerify, AskBroadcast, Notarize, Decide, ReportAgain, Network,
           PeerProposes, DeliverBlock, DeliverGarbage, SendBlock
  <1>2. CASE UNCHANGED mailbox
    BY <1>1, <1>2
  <1>3. CASE Actor
    <2>1. mailbox # <<>> /\ mailbox' = Tail(mailbox)
      BY <1>3 DEF Actor, HandleGenesis, HandlePropose, ProposeFails, HandleVerify,
                  HandleBroadcast, HandleStoreBlock, Received
    <2> QED BY <1>1, <2>1, TakenInTurn
  <1>4. ASSUME NEW message, Send(message), message.type # "Finalize"
        PROVE  InTurn(mailbox', settled')
    BY <1>1, <1>4, SentInTurn DEF IsReport
  <1>5. CASE Engine
    <2>1. CASE AskGenesis
      BY <1>4, <2>1 DEF AskGenesis
    <2>2. CASE AskPropose
      BY <1>4, <2>2 DEF AskPropose
    <2>3. CASE AskVerify
      BY <1>4, <2>3 DEF AskVerify
    <2>4. CASE AskBroadcast
      BY <1>4, <2>4 DEF AskBroadcast
    <2>5. CASE Notarize
      BY <1>2, <2>5 DEF Notarize
    <2> QED BY <1>1, <1>5, <2>1, <2>2, <2>3, <2>4, <2>5, DecideInTurn, AgainInTurn
            DEF Engine
  <1>6. CASE Network
    <2>1. CASE DeliverBlock
      BY <1>4, <2>1 DEF DeliverBlock
    <2>2. CASE DeliverGarbage
      BY <1>4, <2>2 DEF DeliverGarbage
    <2>3. CASE PeerProposes \/ SendBlock
      BY <1>2, <2>3 DEF PeerProposes, SendBlock
    <2> QED BY <1>6, <2>1, <2>2, <2>3 DEF Network
  <1>7. CASE ReplayJournal
    BY <1>1, <1>7, ReplayInTurn
  <1>8. CASE UNCHANGED vars
    BY <1>2, <1>8 DEF vars
  <1> QED BY <1>3, <1>5, <1>6, <1>7, <1>8 DEF Next


-----------------------------------------------------------------------------
(* A certificate is handled: either accounts and store stay as they are,   *)
(* or the block is applied to the accounts and stored.                     *)

Passes(digest) ==
    /\ LedgerSame
    /\ \/ settled' = settled
       \/ \E outcome : /\ outcome # "committed" /\ digest \notin DOMAIN settled
                        /\ settled' = Bind(settled, digest, outcome)

Commits(digest, block) ==
    /\ settled' = Bind(settled, digest, "committed")
    /\ BlockOk(block) /\ BlockHash(block) = digest
    /\ BlockApplies(app.state, block.transactions)
    /\ app'.state = ApplyBlock(app.state, block.transactions)
    /\ app'.blocks = StoreInsert(app.blocks, block)

LEMMA FinalizeCases ==
    ASSUME ShapeInv, InTurn(mailbox, settled), HandleFinalize,
           NEW digest, digest = Head(mailbox).digest,
           NEW block, block = app.pending[digest]
    PROVE  /\ Passes(digest) \/ Commits(digest, block)
           /\ digest # GenesisHash /\ IsIn(decided, digest)
           /\ \A d \in DOMAIN settled : Level(d) <= Level(digest)
           /\ InTurn(mailbox', settled')
           /\ decided' = decided
  <1>1. /\ mailbox # <<>> /\ mailbox' = Rest(mailbox)
        /\ Head(mailbox).type = "Finalize"
        /\ app' = AfterFinalize(app, digest)
        /\ settled' = Settle(digest, FinalizeOutcome(app, digest))
        /\ decided' = decided
    BY DEF HandleFinalize, Received, engine_vars, Rest
  <1>2. IsQueue(mailbox) /\ IsReport(Head(mailbox)) /\ ActorOk(app)
    BY <1>1 DEF ShapeInv, MailOk, IsReport
  <1>3. digest # GenesisHash /\ \A d \in DOMAIN settled : Level(d) <= Level(digest)
    BY <1>1, <1>2, HeadInTurn
  <1>4. IsIn(decided, digest)
    BY <1>1, HeadOk DEF MessageOk
  <1>5. \A d : d \in DOMAIN settled' => d \in DOMAIN settled \/ d = digest
    BY <1>1, SettleFacts
  <1>6. InTurn(mailbox', settled')
    BY <1>1, <1>2, <1>5, InTurnSettled
  <1>7. CASE FinalizeOutcome(app, digest) = "committed"
    <2>1. settled' = Bind(settled, digest, "committed")
      BY <1>1, <1>7 DEF Settle
    <2> QED BY <1>1, <1>2, <1>3, <1>4, <1>6, <1>7, <2>1, FinalizeOk DEF Commits
  <1>8. CASE FinalizeOutcome(app, digest) # "committed"
    <2>1. LedgerSame
      BY <1>1, <1>2, <1>8, FinalizeOk DEF LedgerSame
    <2>2. \/ settled' = settled
          \/ /\ digest \notin DOMAIN settled
             /\ settled' = Bind(settled, digest, FinalizeOutcome(app, digest))
      BY <1>1, <1>8 DEF Settle
    <2> QED BY <1>1, <1>3, <1>4, <1>6, <1>8, <2>1, <2>2 DEF Passes
  <1> QED BY <1>7, <1>8

LEMMA StoredCases ==
    ASSUME NEW digest, digest # GenesisHash, NEW block,
           StoredIs(app.blocks.blocks, settled), Passes(digest) \/ Commits(digest, block)
    PROVE  StoredIs(app'.blocks.blocks, settled')
  <1>1. CASE Passes(digest)
    <2>1. app'.blocks = app.blocks
      BY <1>1 DEF Passes, LedgerSame
    <2>2. CASE settled' = settled
      BY <2>1, <2>2
    <2>3. CASE settled' # settled
      <3>1. PICK outcome : /\ outcome # "committed" /\ digest \notin DOMAIN settled
                           /\ settled' = Bind(settled, digest, outcome)
        BY <1>1, <2>3 DEF Passes
      <3>2. /\ \A x : x \in DOMAIN settled' <=> x \in DOMAIN settled \/ x = digest
            /\ settled'[digest] = outcome
            /\ \A x \in DOMAIN settled : x # digest => settled'[x] = settled[x]
        BY <3>1, BindFacts
      <3> QED BY <2>1, <3>1, <3>2 DEF StoredIs
    <2> QED BY <2>2, <2>3
  <1>2. CASE Commits(digest, block)
    <2>1. app'.blocks.blocks = Bind(app.blocks.blocks, digest, block)
      BY <1>2 DEF Commits, StoreInsert
    <2>2. \A x : x \in DOMAIN app'.blocks.blocks <=> x \in DOMAIN app.blocks.blocks \/ x = digest
      BY <2>1, BindFacts
    <2>3. settled' = Bind(settled, digest, "committed")
      BY <1>2 DEF Commits
    <2>4. /\ \A x : x \in DOMAIN settled' <=> x \in DOMAIN settled \/ x = digest
          /\ settled'[digest] = "committed"
          /\ \A x \in DOMAIN settled : x # digest => settled'[x] = settled[x]
      BY <2>3, BindFacts
    <2> QED BY <2>2, <2>4 DEF StoredIs
  <1> QED BY <1>1, <1>2

(* The nonces of what was committed are spent for good.                    *)
LEMMA SpentCases ==
    ASSUME ShapeInv, ShapeInv', NEW digest, NEW block,
           AllSpent(app.state, app.blocks.blocks), Passes(digest) \/ Commits(digest, block)
    PROVE  AllSpent(app'.state, app'.blocks.blocks)
  <1>1. CASE Passes(digest)
    BY <1>1 DEF Passes, LedgerSame
  <1>2. CASE Commits(digest, block)
    <2> DEFINE txs == block.transactions
    <2>1. /\ AccountsOk(app.state) /\ IsFiniteSet(DOMAIN app.state)
          /\ Keyed(app.blocks.blocks)
      BY DEF ShapeInv, ActorOk
    <2>2. AccountsOk(app'.state)
      BY DEF ShapeInv, ActorOk
    <2>3. /\ TxsOk(txs) /\ BlockApplies(app.state, txs)
          /\ app'.state = ApplyBlock(app.state, txs)
      BY <1>2 DEF Commits, BlockOk
    <2>4. NoNonceDrops(app.state, app'.state) /\ SpentBy(app'.state, txs, Len(txs))
      BY <2>1, <2>3, RunSpendsNonces
    <2>5. app'.blocks.blocks = Bind(app.blocks.blocks, digest, block)
      BY <1>2 DEF Commits, StoreInsert
    <2>6. /\ \A x : x \in DOMAIN app'.blocks.blocks
                       <=> x \in DOMAIN app.blocks.blocks \/ x = digest
          /\ app'.blocks.blocks[digest] = block
          /\ \A x \in DOMAIN app.blocks.blocks :
                x # digest => app'.blocks.blocks[x] = app.blocks.blocks[x]
      BY <2>5, BindFacts
    <2>7. ASSUME NEW d \in DOMAIN app.blocks.blocks,
                 NEW body, body = app.blocks.blocks[d].transactions
          PROVE  SpentBy(app'.state, body, Len(body))
      <3>1. TxsOk(body) /\ SpentBy(app.state, body, Len(body))
        BY <2>1, <2>7 DEF Keyed, BlockOk, AllSpent
      <3>2. Len(body) \in Nat /\ \A k \in 1 .. Len(body) : TxOk(body[k])
        BY <3>1 DEF TxsOk, IsList
      <3> QED BY <2>1, <2>2, <2>4, <3>1, <3>2, SpentLater
    <2> QED BY <2>4, <2>6, <2>7 DEF AllSpent
  <1> QED BY <1>1, <1>2

LEMMA FinalizeKeepsCommit ==
    ASSUME ShapeInv, ShapeInv', CommitInv, HandleFinalize PROVE CommitInv'
  <1>1. PICK digest : digest = Head(mailbox).digest
    OBVIOUS
  <1>2. PICK block : block = app.pending[digest]
    OBVIOUS
  <1>3. /\ Passes(digest) \/ Commits(digest, block)
        /\ digest # GenesisHash
        /\ InTurn(mailbox', settled')
    BY <1>1, <1>2, FinalizeCases DEF CommitInv
  <1>4. StoredIs(app'.blocks.blocks, settled')
    BY <1>3, StoredCases DEF CommitInv
  <1>5. AllSpent(app'.state, app'.blocks.blocks)
    BY <1>3, SpentCases DEF CommitInv
  <1> QED BY <1>3, <1>4, <1>5 DEF CommitInv

(* Nothing but genesis is stored after a boot.                             *)
LEMMA BootedCommit ==
    ASSUME NEW a, a = NewApp(Allocations, SeedTxs), NEW queue, queue = <<>>,
           NEW outcomes, outcomes = EmptyMap
    PROVE  /\ InTurn(queue, outcomes)
           /\ StoredIs(a.blocks.blocks, outcomes)
           /\ AllSpent(a.state, a.blocks.blocks)
  <1>1. /\ \A d : d \in DOMAIN a.blocks.blocks <=> d = GenesisHash
        /\ a.blocks.blocks[GenesisHash] = GenesisBlock
    BY BootFacts
  <1>2. InTurn(queue, outcomes)
    BY EmptyQueue DEF InTurn
  <1>3. StoredIs(a.blocks.blocks, outcomes)
    BY <1>1, EmptyMapFacts DEF StoredIs
  <1>4. AllSpent(a.state, a.blocks.blocks)
    BY <1>1, GenesisOk DEF AllSpent, SpentBy
  <1> QED BY <1>2, <1>3, <1>4

LEMMA StepKeepsCommit ==
    ASSUME ShapeInv, ShapeInv', IndexInv, IndexInv', CommitInv, [Next]_vars
    PROVE  CommitInv'
  <1>1. CASE Restart
    BY <1>1, BootedCommit DEF Restart, Rebooted, CommitInv
  <1>2. CASE ~Restart /\ ~HandleFinalize
    <2>1. LedgerSame
      BY <1>2, LedgerChanges
    <2>2. settled' = settled /\ InTurn(mailbox', settled')
      BY <1>2, TurnsKept DEF CommitInv
    <2> QED BY <2>1, <2>2 DEF CommitInv, LedgerSame
  <1> QED BY <1>1, <1>2, FinalizeKeepsCommit

(* With them, the order of the certificates and what they committed are.   *)
THEOREM CommitInvariance == ASSUME ConformingPeers PROVE Spec => []CommitInv
  <1>1. Init => CommitInv
    BY BootedCommit DEF Init, CommitInv
  <1>2. ShapeInv /\ ShapeInv' /\ IndexInv /\ IndexInv' /\ CommitInv /\ [Next]_vars
           => CommitInv'
    BY StepKeepsCommit
  <1> QED BY <1>1, <1>2, ShapeInvariance, IndexInvariance, PTL DEF Spec

-----------------------------------------------------------------------------
(* What the store holds, and where its tip is.                             *)

(* The tip is the stored block of the highest level.                       *)
LEMMA TipIsHighest ==
    ASSUME ShapeInv, StoreIndexed, NEW t \in DOMAIN app.blocks.blocks,
           \A d \in DOMAIN app.blocks.blocks :
               Level(d) \in Nat /\ Level(d) <= Level(t)
    PROVE  BlockHash(TipBlock(app.blocks)) = t
  <1> DEFINE heights == DOMAIN app.blocks.height_index
             height == CHOOSE h \in heights : \A k \in heights : k <= h
  <1>1. ASSUME NEW d \in DOMAIN app.blocks.blocks
        PROVE  BlockHash(app.blocks.blocks[d]) = d /\ app.blocks.blocks[d].header.height = Level(d)
    BY HeaderOfHash DEF ShapeInv, ActorOk, Keyed, Level
  <1>2. ASSUME NEW h \in heights PROVE h \in Nat /\ h <= Level(t)
    <2>1. /\ app.blocks.height_index[h] \in DOMAIN app.blocks.blocks
          /\ app.blocks.blocks[app.blocks.height_index[h]].header.height = h
      BY DEF StoreIndexed
    <2> QED BY <1>1, <2>1
  <1>3. Level(t) \in heights /\ app.blocks.height_index[Level(t)] = t
    BY <1>1 DEF StoreIndexed
  <1>4. height \in heights /\ \A k \in heights : k <= height
    BY <1>2, <1>3
  <1>5. height = Level(t)
    <2> HIDE DEF height, heights
    <2> QED BY <1>2, <1>3, <1>4
  <1>6. TipBlock(app.blocks) = app.blocks.blocks[app.blocks.height_index[height]]
    BY DEF TipBlock
  <1> HIDE DEF height
  <1> QED BY <1>1, <1>3, <1>5, <1>6

LEMMA StoredIsCommitted ==
    ASSUME ShapeInv, IndexInv, StoredIs(app.blocks.blocks, settled) PROVE StoreIsCommitted
  <1> DEFINE stored == DOMAIN app.blocks.blocks
  <1>1. Len(decided) \in Nat /\ DOMAIN decided = 1 .. Len(decided)
    BY LenProperties DEF IndexInv, DecidedLinked
  <1>2. ASSUME NEW d \in stored, d # GenesisHash
        PROVE  /\ Level(d) \in Nat /\ Level(d) + 1 \in Committed
               /\ decided[Level(d) + 1] = d
    <2>1. d \in DOMAIN settled /\ settled[d] = "committed"
      BY <1>2 DEF StoredIs
    <2>2. IsIn(decided, d)
      BY <2>1, OutcomeFacts
    <2> QED BY <2>1, <2>2, LevelFacts DEF Committed
  <1>3. ASSUME NEW i \in Committed
        PROVE  /\ decided[i] \in stored /\ decided[i] # GenesisHash
               /\ i \in Nat /\ Level(decided[i]) = i - 1
    <2>1. i \in 1 .. Len(decided) /\ decided[i] \in DOMAIN settled
      BY <1>1 DEF Committed
    <2>2. Level(decided[i]) = i - 1
      BY <2>1 DEF IndexInv, DecidedLinked, Level
    <2> QED BY <1>1, <2>1, <2>2 DEF Committed, StoredIs
  <1>4. GenesisHash \in stored
    BY DEF StoredIs
  <1>5. stored = {GenesisHash} \cup {decided[i] : i \in Committed}
    BY <1>2, <1>3, <1>4
  <1>6. StoreIndexed
    BY DEF IndexInv
  <1>7. ASSUME Committed = {} PROVE BlockHash(TipBlock(app.blocks)) = GenesisHash
    <2>1. \A d \in stored : Level(d) \in Nat /\ Level(d) <= Level(GenesisHash)
      BY <1>5, <1>7, GenesisLevel
    <2> QED BY <1>4, <1>6, <2>1, TipIsHighest
  <1>8. ASSUME NEW i \in Committed, \A j \in Committed : j <= i
        PROVE  BlockHash(TipBlock(app.blocks)) = decided[i]
    <2>1. ASSUME NEW d \in stored
          PROVE  Level(d) \in Nat /\ Level(d) <= Level(decided[i])
      <3>1. CASE d = GenesisHash
        <4>1. Level(decided[i]) \in Nat
          BY <1>2, <1>3
        <4> QED BY <3>1, <4>1, GenesisLevel
      <3>2. CASE d # GenesisHash
        BY <1>2, <1>3, <1>8, <3>2
      <3> QED BY <3>1, <3>2
    <2> QED BY <1>3, <1>6, <2>1, TipIsHighest
  <1> HIDE DEF stored
  <1> QED BY <1>5, <1>7, <1>8 DEF StoreIsCommitted, stored

(* The store is genesis and what was committed since the last start, and   *)
(* its tip is the last of that in the order it was decided in.             *)
THEOREM StoreIsWhatWasCommitted ==
    ASSUME ConformingPeers PROVE Spec => []StoreIsCommitted
  <1>1. ShapeInv /\ IndexInv /\ CommitInv => StoreIsCommitted
    BY StoredIsCommitted DEF CommitInv
  <1> QED BY <1>1, ShapeInvariance, IndexInvariance, CommitInvariance, PTL

-----------------------------------------------------------------------------
(* The finalized part of the actor implements the ledger.                  *)

LEMMA SameBind ==
    \A f, k, v : FinalizedLedger!Bind(f, k, v) = Bind(f, k, v)
  BY DEF FinalizedLedger!Bind, Bind

LEMMA SameGenesis == FinalizedLedger!Genesis = Bind(EmptyMap, 0, GenesisBlock)
  BY DEF FinalizedLedger!Genesis, FinalizedLedger!Bind, Bind, FinalizedLedger!EmptyMap,
         EmptyMap, FinalizedLedger!GenesisBlock, GenesisBlock,
         FinalizedLedger!ZeroHash, ZeroHash

LEMMA SameRun ==
    ASSUME NEW accounts, NEW txs
    PROVE  FinalizedLedger!RunTxs(accounts, txs) = RunTxs(accounts, txs)
  BY DEF FinalizedLedger!RunTxs, RunTxs, FinalizedLedger!TxApplies, TxApplies,
         FinalizedLedger!ApplyTransaction, ApplyTransaction, FinalizedLedger!Debit, Debit,
         FinalizedLedger!GetBalance, GetBalance, FinalizedLedger!GetNonce, GetNonce,
         FinalizedLedger!GetAccount, GetAccount, FinalizedLedger!DefaultAccount,
         DefaultAccount, FinalizedLedger!Bind, Bind, FinalizedLedger!VerifySignature,
         VerifySignature, FinalizedLedger!PurePayload, PurePayload

LEMMA SameLedger ==
    ASSUME NEW accounts, NEW txs
    PROVE  /\ FinalizedLedger!BlockApplies(accounts, txs) <=> BlockApplies(accounts, txs)
           /\ FinalizedLedger!ApplyBlock(accounts, txs) = ApplyBlock(accounts, txs)
  BY SameRun DEF FinalizedLedger!BlockApplies, BlockApplies, FinalizedLedger!ApplyBlock,
                 ApplyBlock

LEMMA SameAccounts ==
    FinalizedLedger!GenesisAccounts(Allocations) = GenesisAccounts(Allocations)
  BY DEF FinalizedLedger!GenesisAccounts, GenesisAccounts, FinalizedLedger!Credit, Credit,
         FinalizedLedger!GetBalance, GetBalance, FinalizedLedger!GetNonce, GetNonce,
         FinalizedLedger!GetAccount, GetAccount, FinalizedLedger!DefaultAccount,
         DefaultAccount, FinalizedLedger!Bind, Bind, FinalizedLedger!EmptyMap, EmptyMap


LEMMA ChainIsShown == Chain = Shown(app.blocks)
  BY DEF Chain, Shown

LEMMA ShownAgain ==
    ASSUME NEW store, NEW block,
           \A h \in DOMAIN store.height_index :
               store.height_index[h] \in DOMAIN store.blocks,
           BlockHash(block) \in DOMAIN store.blocks,
           store.blocks[BlockHash(block)] = block,
           block.header.height \in DOMAIN store.height_index,
           store.height_index[block.header.height] = BlockHash(block),
           NEW more, more = StoreInsert(store, block)
    PROVE  Shown(more) = Shown(store)
  <1> DEFINE d == BlockHash(block)
             n == block.header.height
  <1>1. /\ more.blocks = Bind(store.blocks, d, block)
        /\ more.height_index = Bind(store.height_index, n, d)
    BY DEF StoreInsert
  <1> HIDE DEF d, n
  <1>2. /\ d \in DOMAIN store.blocks /\ store.blocks[d] = block
        /\ n \in DOMAIN store.height_index /\ store.height_index[n] = d
    BY DEF d, n
  <1>3. /\ \A x : x \in DOMAIN more.blocks <=> x \in DOMAIN store.blocks
        /\ \A x \in DOMAIN store.height_index : more.height_index[x] = store.height_index[x]
        /\ DOMAIN more.height_index = DOMAIN store.height_index
    BY <1>1, <1>2 DEF Bind
  <1>4. ASSUME NEW h \in DOMAIN store.height_index
        PROVE  more.blocks[more.height_index[h]] = store.blocks[store.height_index[h]]
    <2>1. \A x \in DOMAIN store.blocks : more.blocks[x] = store.blocks[x]
      BY <1>1, <1>2 DEF Bind
    <2> QED BY <1>3, <1>4, <2>1
  <1> QED BY <1>3, <1>4 DEF Shown

LEMMA BootedChain ==
    ASSUME NEW a, a = NewApp(Allocations, SeedTxs)
    PROVE  /\ Shown(a.blocks) = FinalizedLedger!Genesis
           /\ a.state = FinalizedLedger!GenesisAccounts(Allocations)
  <1>1. /\ a.state = GenesisAccounts(Allocations)
        /\ a.blocks = StoreInsert(EmptyStore, GenesisBlock)
    BY DEF NewApp
  <1>2. /\ \A x : x \notin DOMAIN EmptyStore.height_index
        /\ \A x : x \notin DOMAIN EmptyStore.blocks
    BY EmptyMapFacts DEF EmptyStore
  <1>3. Shown(a.blocks) = Bind(Shown(EmptyStore), GenesisBlock.header.height, GenesisBlock)
    BY <1>1, <1>2, ShownInsert
  <1>4. Shown(EmptyStore) = EmptyMap
    BY <1>2 DEF Shown, EmptyMap
  <1>5. GenesisBlock.header.height = 0
    BY GenesisFacts
  <1> QED BY <1>1, <1>3, <1>4, <1>5, SameGenesis, SameAccounts

-----------------------------------------------------------------------------

(* A block that is committed for the first time is appended above all.     *)
LEMMA CommitAppends ==
    ASSUME ShapeInv, IndexInv, CommitInv, UNCHANGED restarts,
           NEW digest, NEW block, Commits(digest, block),
           digest # GenesisHash, IsIn(decided, digest),
           \A d \in DOMAIN settled : Level(d) <= Level(digest),
           digest \notin DOMAIN app.blocks.blocks
    PROVE  FinalizedLedger!Next
  <1> DEFINE n == block.header.height
  <1>1. /\ BlockHash(block) = digest
        /\ BlockApplies(app.state, block.transactions)
        /\ app'.state = ApplyBlock(app.state, block.transactions)
        /\ app'.blocks = StoreInsert(app.blocks, block)
    BY DEF Commits
  <1>2. n = Level(digest) /\ n \in Nat /\ n >= 1
    BY <1>1, HeaderOfHash, LevelFacts DEF Level
  <1>3. \A h \in DOMAIN app.blocks.height_index :
           /\ app.blocks.height_index[h] \in DOMAIN app.blocks.blocks
           /\ app.blocks.blocks[app.blocks.height_index[h]].header.height = h
    BY DEF IndexInv, StoreIndexed
  <1>4. ASSUME NEW h \in DOMAIN app.blocks.height_index PROVE h < n
    <2> DEFINE d == app.blocks.height_index[h]
    <2>1. d \in DOMAIN app.blocks.blocks /\ Level(d) = h
      <3>1. BlockHash(app.blocks.blocks[d]) = d
        BY <1>3 DEF ShapeInv, ActorOk, Keyed
      <3> QED BY <1>3, <3>1, HeaderOfHash DEF Level
    <2> HIDE DEF d
    <2>2. CASE d = GenesisHash
      BY <1>2, <2>1, <2>2, GenesisLevel
    <2>3. CASE d # GenesisHash
      <3>1. d \in DOMAIN settled
        BY <2>1, <2>3 DEF CommitInv, StoredIs
      <3>2. IsIn(decided, d)
        BY <3>1, OutcomeFacts
      <3>3. Level(d) \in Nat /\ Level(d) <= Level(digest)
        BY <3>1, <3>2, LevelFacts
      <3>4. Level(d) # Level(digest)
        BY <2>1, <3>2, OneDecidedPerHeight DEF IndexInv, Level
      <3> QED BY <1>2, <2>1, <3>3, <3>4
    <2> QED BY <2>2, <2>3
  <1>5. Chain' = Bind(Chain, n, block)
    <2>1. Shown(app'.blocks) = Bind(Shown(app.blocks), n, block)
      BY <1>1, <1>3, ShownInsert
    <2> QED BY <2>1 DEF Chain, Shown
  <1> HIDE DEF n
  <1>6. n \in DOMAIN Chain' /\ Chain'[n] = block
    BY <1>5, BindFacts
  <1>7. DOMAIN Chain = DOMAIN app.blocks.height_index
    BY DEF Chain
  <1>8. n = block.header.height
    BY DEF n
  <1>9. FinalizedLedger!AppendBlock(block)
    <2>1. FinalizedLedger!Extends(block)
      BY <1>4, <1>7, <1>8 DEF FinalizedLedger!Extends
    <2>2. Chain' = FinalizedLedger!Bind(Chain, block.header.height, block)
      BY <1>5, <1>8, SameBind
    <2>3. /\ FinalizedLedger!BlockApplies(app.state, block.transactions)
          /\ app'.state = FinalizedLedger!ApplyBlock(app.state, block.transactions)
      BY <1>1, SameLedger
    <2> QED BY <2>1, <2>2, <2>3 DEF FinalizedLedger!AppendBlock
  <1> QED BY <1>6, <1>8, <1>9 DEF FinalizedLedger!Next

(* A block that is stored already applies again only if it is empty, and   *)
(* then changes nothing: the nonce of its first transaction is spent.      *)
LEMMA CommitAgain ==
    ASSUME ShapeInv, IndexInv, CommitInv,
           NEW digest, NEW block, Commits(digest, block),
           digest \in DOMAIN app.blocks.blocks
    PROVE  Chain' = Chain /\ app'.state = app.state
  <1>1. PICK old : old = app.blocks.blocks[digest]
    OBVIOUS
  <1> DEFINE txs == block.transactions
             kept == old.transactions
  <1>2. /\ BlockHash(block) = digest /\ BlockOk(block)
        /\ BlockApplies(app.state, txs)
        /\ app'.state = ApplyBlock(app.state, txs)
        /\ app'.blocks = StoreInsert(app.blocks, block)
    BY DEF Commits
  <1>3. BlockHash(old) = digest /\ BlockOk(old) /\ SpentBy(app.state, kept, Len(kept))
    BY <1>1 DEF ShapeInv, ActorOk, Keyed, CommitInv, AllSpent
  <1>4. old.header = block.header
    BY <1>2, <1>3, HeaderOfHash
  <1>5. /\ TxsOk(txs) /\ TxsOk(kept) /\ IsList(txs) /\ IsList(kept)
        /\ ComputeTxRoot(txs) = ComputeTxRoot(kept)
    BY <1>2, <1>3, <1>4 DEF BlockOk, TxsOk
  <1>6. AccountsOk(app.state) /\ IsFiniteSet(DOMAIN app.state)
    BY DEF ShapeInv, ActorOk
  <1>7. Len(txs) \in Nat /\ Len(kept) \in Nat
    BY <1>5 DEF IsList
  <1>8. ~(Len(txs) >= 1)
    <2> SUFFICES ASSUME Len(txs) >= 1 PROVE FALSE
      OBVIOUS
    <2>1. Len(kept) >= 1 /\ kept[1] = txs[1]
      BY <1>5, RootFixesFirst
    <2>2. TxApplies(app.state, txs[1])
      BY <1>2, <1>5, <1>6, RunSpendsNonces
    <2> DEFINE tx == txs[1]
    <2>3. GetNonce(app.state, tx.from) > tx.nonce
      BY <1>3, <1>7, <2>1 DEF SpentBy
    <2>4. tx.nonce = GetNonce(app.state, tx.from)
      BY <2>2 DEF TxApplies
    <2>5. GetNonce(app.state, tx.from) \in Nat
      BY <1>6, GetFacts
    <2> HIDE DEF tx
    <2> QED BY <2>3, <2>4, <2>5
  <1>9. ~(Len(kept) >= 1)
    BY <1>5, <1>8, RootFixesFirst
  <1>10. txs = <<>> /\ kept = <<>>
    BY <1>2, <1>3, <1>7, <1>8, <1>9 DEF BlockOk
  <1>11. old = block
    BY <1>2, <1>3, <1>4, <1>10 DEF BlockOk
  <1>12. app'.state = app.state
    BY <1>2, <1>10, RunNone
  <1>13. /\ \A h \in DOMAIN app.blocks.height_index :
               app.blocks.height_index[h] \in DOMAIN app.blocks.blocks
         /\ block.header.height \in DOMAIN app.blocks.height_index
         /\ app.blocks.height_index[block.header.height] = digest
    BY <1>1, <1>11 DEF IndexInv, StoreIndexed
  <1>14. Shown(app'.blocks) = Shown(app.blocks)
    BY <1>1, <1>2, <1>11, <1>13, ShownAgain
  <1> QED BY <1>12, <1>14 DEF Chain, Shown

LEMMA StepImplementsLedger ==
    ASSUME ShapeInv, IndexInv, CommitInv, [Next]_vars
    PROVE  [FinalizedLedger!Next]_<<Chain, app.state, restarts>>
  <1>1. CASE LedgerSame /\ UNCHANGED restarts
    BY <1>1 DEF LedgerSame, Chain
  <1>2. CASE HandleFinalize /\ UNCHANGED restarts
    <2>1. PICK digest : digest = Head(mailbox).digest
      OBVIOUS
    <2>2. PICK block : block = app.pending[digest]
      OBVIOUS
    <2>3. /\ Passes(digest) \/ Commits(digest, block)
          /\ digest # GenesisHash /\ IsIn(decided, digest)
          /\ \A d \in DOMAIN settled : Level(d) <= Level(digest)
      BY <1>2, <2>1, <2>2, FinalizeCases DEF CommitInv
    <2>4. CASE Passes(digest)
      BY <1>1, <1>2, <2>4 DEF Passes
    <2>5. CASE Commits(digest, block) /\ digest \notin DOMAIN app.blocks.blocks
      BY <1>2, <2>3, <2>5, CommitAppends
    <2>6. CASE Commits(digest, block) /\ digest \in DOMAIN app.blocks.blocks
      BY <1>2, <2>6, CommitAgain
    <2> QED BY <2>3, <2>4, <2>5, <2>6
  <1>3. CASE Restart
    <2>1. app' = NewApp(Allocations, SeedTxs) /\ restarts' = restarts + 1
      BY <1>3 DEF Restart, Rebooted
    <2>2. /\ Shown(app'.blocks) = FinalizedLedger!Genesis
          /\ app'.state = FinalizedLedger!GenesisAccounts(Allocations)
      BY <2>1, BootedChain
    <2>3. Chain' = FinalizedLedger!Genesis
      BY <2>2 DEF Chain, Shown
    <2> QED BY <2>1, <2>2, <2>3 DEF FinalizedLedger!Next, FinalizedLedger!StartOver
  <1> QED BY <1>1, <1>2, <1>3, LedgerChanges

(* Between restarts what is finalized only grows, upwards, by blocks that  *)
(* apply, and the accounts are what those blocks make of the genesis       *)
(* allocations; a certificate that is handled twice changes nothing.       *)
THEOREM FinalizedIsALedger == ASSUME ConformingPeers PROVE Spec => ImplementsLedger
  <1>1. Init => FinalizedLedger!Init
    <2> SUFFICES ASSUME Init PROVE FinalizedLedger!Init
      OBVIOUS
    <2>1. app = NewApp(Allocations, SeedTxs) /\ restarts = 0
      BY DEF Init
    <2> QED BY <2>1, BootedChain, ChainIsShown DEF FinalizedLedger!Init
  <1>2. ShapeInv /\ IndexInv /\ CommitInv /\ [Next]_vars
           => [FinalizedLedger!Next]_<<Chain, app.state, restarts>>
    BY StepImplementsLedger
  <1> QED BY <1>1, <1>2, ShapeInvariance, IndexInvariance, CommitInvariance, PTL
          DEF Spec, ImplementsLedger, FinalizedLedger!Spec


-----------------------------------------------------------------------------
(* What a vote is given for.  A parent handed to verify was notarized, so  *)
(* it was voted for here, where every vote is needed; what was voted for   *)
(* is held or settled; and what was committed is stored.                   *)

ParentOk(message, certified) ==
    message.type = "Verify" => message.parent \in certified

ParentsOk(queue, certified) ==
    IsQueue(queue) /\ \A i \in DOMAIN queue : ParentOk(queue[i], certified)

OutcomesOk(outcomes, blocks) ==
    \A d \in DOMAIN outcomes :
        outcomes[d] \in {"missing", "rejected"} \/ d \in DOMAIN blocks

VoteInv ==
    /\ ParentsOk(mailbox, notarized)
    /\ OutcomesOk(settled, app.blocks.blocks)
    /\ GenesisHash \in DOMAIN app.blocks.blocks

LEMMA ParentsTaken ==
    ASSUME NEW queue, NEW certified, ParentsOk(queue, certified), queue # <<>>,
           NEW more, certified \subseteq more, NEW shorter, shorter = Rest(queue)
    PROVE  ParentsOk(shorter, more)
  <1>1. /\ IsQueue(shorter)
        /\ \A i \in DOMAIN shorter : \E j \in DOMAIN queue : shorter[i] = queue[j]
    BY DequeueFacts DEF ParentsOk
  <1> QED BY <1>1 DEF ParentsOk, ParentOk

LEMMA ParentsAsked ==
    ASSUME NEW queue, NEW certified, ParentsOk(queue, certified),
           NEW message, ParentOk(message, certified),
           NEW longer, longer = Enqueue(queue, message)
    PROVE  ParentsOk(longer, certified)
  <1>1. /\ IsQueue(longer)
        /\ \A i \in DOMAIN longer :
              longer[i] = message \/ \E j \in DOMAIN queue : longer[i] = queue[j]
    BY EnqueueFacts DEF ParentsOk
  <1> QED BY <1>1 DEF ParentsOk

LEMMA ParentsKept ==
    ASSUME ParentsOk(mailbox, notarized), [Next]_vars
    PROVE  ParentsOk(mailbox, notarized)'
  <1>1. CASE Actor
    <2>1. mailbox # <<>> /\ mailbox' = Rest(mailbox) /\ notarized \subseteq notarized'
      BY <1>1 DEF Actor, HandleGenesis, HandlePropose, ProposeFails, HandleVerify,
                  HandleFinalize, HandleBroadcast, HandleStoreBlock, Received,
                  engine_vars, Rest
    <2>2. ParentsOk(mailbox', notarized')
      BY <2>1, ParentsTaken
    <2> QED BY <2>2 DEF ParentsOk, IsQueue
  <1>2. ASSUME NEW message, Send(message), ParentOk(message, notarized),
               UNCHANGED notarized
        PROVE  ParentsOk(mailbox, notarized)'
    <2>1. ParentsOk(mailbox', notarized)
      BY <1>2, ParentsAsked DEF Send
    <2> QED BY <1>2, <2>1 DEF ParentsOk, IsQueue
  <1>3. CASE UNCHANGED mailbox /\ notarized \subseteq notarized'
    BY <1>3 DEF ParentsOk, ParentOk, IsQueue
  <1>4. CASE Engine
    <2>1. CASE AskVerify
      <3>1. PICK parent \in Parents, block \in wire :
               Send([type |-> "Verify", parent |-> parent, digest |-> BlockHash(block)])
        BY <2>1 DEF AskVerify
      <3> DEFINE message ==
            [type |-> "Verify", parent |-> parent, digest |-> BlockHash(block)]
      <3>2. ParentOk(message, notarized)
        BY DEF ParentOk, Parents
      <3>3. Send(message)
        BY <3>1
      <3>4. UNCHANGED notarized
        BY <2>1 DEF AskVerify, engine_vars
      <3> HIDE DEF message
      <3> QED BY <1>2, <3>2, <3>3, <3>4
    <2>2. CASE Notarize
      BY <1>3, <2>2 DEF Notarize
    <2>3. CASE Decide
      BY <1>2, <1>3, <2>3 DEF Decide, ParentOk
    <2>4. CASE AskGenesis \/ AskPropose \/ AskBroadcast \/ ReportAgain
      BY <1>2, <2>4 DEF AskGenesis, AskPropose, AskBroadcast, ReportAgain, ParentOk,
                        engine_vars
    <2> QED BY <1>4, <2>1, <2>2, <2>3, <2>4 DEF Engine
  <1>5. CASE Network
    <2>1. CASE DeliverBlock \/ DeliverGarbage
      BY <1>2, <2>1 DEF DeliverBlock, DeliverGarbage, ParentOk, engine_vars
    <2>2. CASE PeerProposes \/ SendBlock
      BY <1>3, <2>2 DEF PeerProposes, SendBlock, engine_vars
    <2> QED BY <1>5, <2>1, <2>2 DEF Network
  <1>6. CASE ReplayJournal
    BY <1>2, <1>6 DEF ReplayJournal, ParentOk, engine_vars
  <1>7. CASE Restart
    <2>1. mailbox' = <<>>
      BY <1>7 DEF Restart
    <2> QED BY <2>1, EmptyQueue DEF ParentsOk
  <1>8. CASE UNCHANGED vars
    BY <1>3, <1>8 DEF vars
  <1> QED BY <1>1, <1>4, <1>5, <1>6, <1>7, <1>8 DEF Next

LEMMA OutcomesChange ==
    ASSUME [Next]_vars PROVE settled' = settled \/ HandleFinalize \/ Restart
  BY DEF vars, Next, ReplayJournal, Actor, HandleGenesis, HandlePropose, ProposeFails,
         HandleVerify, HandleBroadcast, HandleStoreBlock, Engine, AskGenesis,
         AskPropose, AskVerify, AskBroadcast, Notarize, Decide, ReportAgain, Network,
         PeerProposes, DeliverBlock, DeliverGarbage, SendBlock

(* The store keeps what it has, and what is committed is put into it.      *)
LEMMA OutcomesKept ==
    ASSUME ShapeInv, VoteInv, [Next]_vars
    PROVE  /\ OutcomesOk(settled, app.blocks.blocks)'
           /\ (GenesisHash \in DOMAIN app.blocks.blocks)'
  <1>1. CASE HandleFinalize
    <2> DEFINE digest == Head(mailbox).digest
               outcome == FinalizeOutcome(app, digest)
               block == app.pending[digest]
    <2>1. /\ app' = AfterFinalize(app, digest)
          /\ settled' = Settle(digest, outcome)
      BY <1>1 DEF HandleFinalize
    <2>2. outcome \in {"missing", "rejected", "committed"}
      BY DEF FinalizeOutcome
    <2>3. /\ outcome # "committed" => app'.blocks = app.blocks
          /\ outcome = "committed" =>
                /\ BlockHash(block) = digest
                /\ app'.blocks = StoreInsert(app.blocks, block)
      BY <2>1, FinalizeOk DEF ShapeInv
    <2> HIDE DEF digest, outcome, block
    <2>4. /\ \A d \in DOMAIN app.blocks.blocks : d \in DOMAIN app'.blocks.blocks
          /\ outcome = "committed" => digest \in DOMAIN app'.blocks.blocks
      <3>1. CASE outcome = "committed"
        <4>1. app'.blocks.blocks = Bind(app.blocks.blocks, digest, block)
          BY <2>3, <3>1 DEF StoreInsert
        <4> QED BY <4>1, BindFacts
      <3> QED BY <2>3, <3>1
    <2>5. \A d \in DOMAIN settled' :
             \/ d \in DOMAIN settled /\ settled'[d] = settled[d]
             \/ d = digest /\ settled'[d] = outcome
      <3>1. CASE settled' = settled
        BY <3>1
      <3>2. CASE settled' = Bind(settled, digest, outcome)
        BY <3>2, BindFacts
      <3> QED BY <2>1, <3>1, <3>2 DEF Settle
    <2> QED BY <2>2, <2>4, <2>5 DEF VoteInv, OutcomesOk
  <1>2. CASE Restart
    <2>1. app' = NewApp(Allocations, SeedTxs) /\ settled' = EmptyMap
      BY <1>2 DEF Restart, Rebooted
    <2> QED BY <2>1, BootFacts, EmptyMapFacts DEF OutcomesOk
  <1>3. CASE LedgerSame /\ settled' = settled
    BY <1>3 DEF LedgerSame, VoteInv, OutcomesOk
  <1> QED BY <1>1, <1>2, <1>3, LedgerChanges, OutcomesChange

THEOREM VoteInvariance == Spec => []VoteInv
  <1>1. Init => VoteInv
    <2> SUFFICES ASSUME Init PROVE VoteInv
      OBVIOUS
    <2>1. mailbox = <<>> /\ settled = EmptyMap /\ app = NewApp(Allocations, SeedTxs)
      BY DEF Init
    <2>2. ParentsOk(mailbox, notarized)
      BY <2>1, EmptyQueue DEF ParentsOk
    <2> QED BY <2>1, <2>2, BootFacts, EmptyMapFacts DEF VoteInv, OutcomesOk
  <1>2. ShapeInv /\ VoteInv /\ [Next]_vars => VoteInv'
    BY ParentsKept, OutcomesKept DEF VoteInv
  <1> QED BY <1>1, <1>2, ShapeInvariance, PTL DEF Spec

-----------------------------------------------------------------------------

(* What the actor knows carries the header that its digest was made of.    *)
LEMMA KnownHeader ==
    ASSUME ShapeInv, NEW d, Knows(app, d)
    PROVE  BlockHash(BlockByDigest(app, d)) = d /\ BlockByDigest(app, d).header = Header(d)
  <1>1. BlockHash(BlockByDigest(app, d)) = d
    BY DEF ShapeInv, ActorOk, Keyed, Knows, Stores, BlockByDigest
  <1> QED BY <1>1, HeaderOfHash

LEMMA ProposalIsNext ==
    ASSUME ShapeInv, NEW parent, NEW timestamp, NEW signer,
           NEW block \in Proposals(app, parent, timestamp, signer),
           NEW d, d = BlockHash(block)
    PROVE  /\ Header(d).parent_hash = parent /\ Knows(app, parent)
           /\ Header(d).height = Header(parent).height + 1
  <1> DEFINE p == BlockByDigest(app, parent)
  <1>1. /\ Knows(app, parent)
        /\ block \in BuildBlock(p, timestamp, signer, app.mempool, app.state, MaxTxsPerBlock)
    BY DEF Proposals
  <1>2. BlockHash(p) = parent /\ p.header = Header(parent)
    BY <1>1, KnownHeader
  <1> HIDE DEF p
  <1>3. PICK body : block = NewBlock(p.header.height + 1, parent, timestamp, signer, body)
    BY <1>1, <1>2 DEF BuildBlock
  <1>4. block.header.height = p.header.height + 1 /\ block.header.parent_hash = parent
    BY <1>3 DEF NewBlock
  <1>5. Header(d) = block.header
    BY HeaderOfHash
  <1> QED BY <1>1, <1>2, <1>4, <1>5

(* A notarized parent is known, or was refused.                            *)
LEMMA ParentKnownOrRefused ==
    ASSUME IInv, VoteInv, OwnVoteNeeded, NEW parent \in notarized, ~Knows(app, parent)
    PROVE  parent \in DOMAIN settled /\ settled[parent] = "rejected"
  <1>1. parent # GenesisHash
    BY DEF VoteInv, Knows, Stores
  <1>2. parent \in voted
    BY <1>1 DEF IInv, NotarizedVoted
  <1>3. parent \in DOMAIN settled
    BY <1>2 DEF IInv, VotedBlockHeld, Knows
  <1>4. settled[parent] # "missing" /\ parent \notin DOMAIN app.blocks.blocks
    BY <1>3 DEF IInv, NeverMissing, Knows, Stores
  <1> QED BY <1>3, <1>4 DEF VoteInv, OutcomesOk

VoteOk(d) ==
    IF Knows(app, Header(d).parent_hash)
    THEN Header(d).height = Header(Header(d).parent_hash).height + 1
    ELSE /\ Header(d).parent_hash \in DOMAIN settled
         /\ settled[Header(d).parent_hash] = "rejected"

LEMMA VotesAreOk ==
    ASSUME OwnVoteNeeded, ShapeInv, IInv, VoteInv, [Next]_vars, NEW d \in voted' \ voted
    PROVE  VoteOk(d)
  <1>1. HandlePropose \/ HandleVerify
    BY DEF vars, Next, ReplayJournal, Restart, Actor, HandleGenesis, ProposeFails,
           HandleFinalize, HandleBroadcast, HandleStoreBlock, Engine, AskGenesis,
           AskPropose, AskVerify, AskBroadcast, Notarize, Decide, ReportAgain, Network,
           PeerProposes, DeliverBlock, DeliverGarbage, SendBlock, engine_vars
  <1>2. CASE HandlePropose
    <2>1. PICK timestamp \in Timestamps, listening \in BOOLEAN :
             \E block \in Proposals(app, Head(mailbox).parent, timestamp, Self) :
                 voted' = IF listening THEN voted \cup {BlockHash(block)} ELSE voted
      BY <1>2 DEF HandlePropose
    <2>2. PICK block \in Proposals(app, Head(mailbox).parent, timestamp, Self) :
                 voted' = IF listening THEN voted \cup {BlockHash(block)} ELSE voted
      BY <2>1
    <2>3. d = BlockHash(block)
      BY <2>2
    <2> QED BY <2>3, ProposalIsNext DEF VoteOk
  <1>3. CASE HandleVerify
    <2> DEFINE digest == Head(mailbox).digest
               parent == Head(mailbox).parent
               block == app.pending[digest]
    <2>1. /\ d = digest /\ digest \in DOMAIN app.pending
          /\ block.header.parent_hash = parent
          /\ Sequential(app, block, parent)
      BY <1>3 DEF HandleVerify, VerifyAnswer
    <2>2. parent \in notarized
      <3>1. /\ IsQueue(mailbox) /\ mailbox # <<>> /\ Head(mailbox).type = "Verify"
            /\ \A i \in DOMAIN mailbox : ParentOk(mailbox[i], notarized)
        BY <1>3 DEF HandleVerify, Received, VoteInv, ParentsOk
      <3>2. PICK j \in DOMAIN mailbox : Head(mailbox) = mailbox[j]
        BY <3>1, HeadFacts
      <3>3. ParentOk(Head(mailbox), notarized)
        BY <3>1, <3>2
      <3> QED BY <3>1, <3>3 DEF ParentOk
    <2>3. block.header = Header(d)
      <3>1. BlockHash(block) = digest
        BY <2>1 DEF ShapeInv, ActorOk, Keyed
      <3> QED BY <2>1, <3>1, HeaderOfHash
    <2> HIDE DEF digest, parent, block
    <2>4. Header(d).parent_hash = parent
      BY <2>1, <2>3
    <2>5. CASE Knows(app, parent)
      <3>1. Header(d).height = Header(parent).height + 1
        BY <2>1, <2>3, <2>5, KnownHeader DEF Sequential
      <3> QED BY <2>4, <2>5, <3>1 DEF VoteOk
    <2>6. CASE ~Knows(app, parent)
      BY <2>2, <2>4, <2>6, ParentKnownOrRefused DEF VoteOk
    <2> QED BY <2>5, <2>6
  <1> QED BY <1>1, <1>2, <1>3

(* Every vote of a validator whose vote is needed is for a block one above *)
(* a parent it knows, however peers number their blocks; only the parent's *)
(* refusal lets it vote without having compared anything.                  *)
THEOREM VotesAreSequential ==
    ASSUME OwnVoteNeeded, MaxRestarts = 0 PROVE Spec => VotesSequential
  <1>1. ShapeInv /\ IInv /\ VoteInv /\ [Next]_vars =>
            [\A d \in voted' \ voted :
                LET parent == Header(d).parent_hash
                IN  IF Knows(app, parent)
                    THEN Header(d).height = Header(parent).height + 1
                    ELSE parent \in DOMAIN settled /\ settled[parent] = "rejected"]_vars
    BY VotesAreOk DEF VoteOk
  <1> QED BY <1>1, ShapeInvariance, Invariance, VoteInvariance, PTL DEF Spec, VotesSequential
===============================================================================
