----------------------------- MODULE MempoolProofs ----------------------------
(***************************************************************************)
(* The two indexes of the mempool, for every set of transactions, every    *)
(* capacity and every sequence of calls.  Lockstep is inductive only       *)
(* together with TypeOK: remove has to find, under a hash, a transaction   *)
(* of the right sender and nonce.                                          *)
(***************************************************************************)
EXTENDS Mempool, ExecutionTheorems

IInv == TypeOK /\ Lockstep

(* The lockstep of the two indexes, as ExecutionTheorems has it of every pool.  *)
LEMMA LockstepIsIndexed == Lockstep <=> Indexed(pool)
  BY DEF Lockstep, HashIndexed, NonceIndexed, NoDanglingNonce, Indexed

(* With the indexes in lockstep the nonces and hashes of the second are    *)
(* those of transactions of the first.                                     *)
LEMMA IndexedIsTyped ==
    ASSUME Indexed(pool'), Bounded(pool'),
           \A h \in DOMAIN pool'.txs : h \in Hashes /\ pool'.txs[h] \in Txs,
           \A a \in DOMAIN pool'.by_sender : a \in Addresses
    PROVE  IInv'
  <1>1. \A a \in DOMAIN pool'.by_sender : \A n \in DOMAIN pool'.by_sender[a] :
           n \in Nat /\ pool'.by_sender[a][n] \in Hashes
    BY TxsAssumption DEF Indexed
  <1>2. TypeOK'
    BY <1>1 DEF TypeOK, Bounded
  <1>3. Lockstep'
    BY DEF Lockstep, HashIndexed, NonceIndexed, NoDanglingNonce, Indexed
  <1> QED BY <1>2, <1>3 DEF IInv

LEMMA UntouchedPreserves == ASSUME IInv, pool' = pool PROVE IInv'
  <1>1. TypeOK'
    BY DEF IInv, TypeOK
  <1>2. HashIndexed'
    BY DEF IInv, Lockstep, HashIndexed
  <1>3. NonceIndexed'
    BY DEF IInv, Lockstep, NonceIndexed, NonceTaken
  <1>4. NoDanglingNonce'
    BY DEF IInv, Lockstep, NoDanglingNonce
  <1> QED BY <1>1, <1>2, <1>3, <1>4 DEF IInv, Lockstep

LEMMA InsertPreserves ==
    ASSUME IInv, NEW tx \in Txs, Insert(tx) PROVE IInv'
  <1>1. CASE InsertResult(pool, tx) # "Ok"
    <2>1. pool' = pool
      BY <1>1 DEF Insert, PoolInsert
    <2> QED BY <2>1, UntouchedPreserves
  <1>2. CASE InsertResult(pool, tx) = "Ok"
    <2> DEFINE hash == TxHash(tx)
    <2>1. pool' = AddTx(pool, tx) /\ Indexed(pool)
      BY <1>2, LockstepIsIndexed DEF Insert, PoolInsert, IInv
    <2>2. Indexed(pool')
      BY <1>2, <2>1, AddKeepsIndexed
    <2>3. Bounded(pool')
      BY <1>2, <2>1, AddKeepsBounded DEF Bounded, IInv, TypeOK
    <2>4. tx.from \in Addresses /\ tx.nonce \in Nat /\ hash \in Hashes
      BY TxsAssumption DEF Hashes
    <2>5. /\ \A h : h \in DOMAIN pool'.txs <=> h \in DOMAIN pool.txs \/ h = hash
          /\ pool'.txs[hash] = tx
          /\ \A h \in DOMAIN pool.txs : h # hash => pool'.txs[h] = pool.txs[h]
          /\ \A a : a \in DOMAIN pool'.by_sender
                       <=> a \in DOMAIN pool.by_sender \/ a = tx.from
      BY <2>1, AddTxMaps
    <2> HIDE DEF hash
    <2>6. \A h \in DOMAIN pool'.txs : h \in Hashes /\ pool'.txs[h] \in Txs
      BY <2>4, <2>5 DEF IInv, TypeOK
    <2>7. \A a \in DOMAIN pool'.by_sender : a \in Addresses
      BY <2>4, <2>5 DEF IInv, TypeOK
    <2> QED BY <2>2, <2>3, <2>6, <2>7, IndexedIsTyped
  <1> QED BY <1>1, <1>2

LEMMA RemovePreserves ==
    ASSUME IInv, NEW tx \in Txs, Remove(tx) PROVE IInv'
  <1> DEFINE hash == TxHash(tx)
  <1>1. CASE hash \notin DOMAIN pool.txs
    <2>1. pool' = pool
      BY <1>1 DEF Remove, PoolRemove
    <2> QED BY <2>1, UntouchedPreserves
  <1>2. CASE hash \in DOMAIN pool.txs
    <2>1. pool' = PoolRemove(pool, hash) /\ Indexed(pool)
      BY LockstepIsIndexed DEF Remove, IInv
    <2> HIDE DEF hash
    <2>2. Indexed(pool')
      BY <1>2, <2>1, RemoveKeepsIndexed
    <2>3. /\ \A h : h \in DOMAIN pool'.txs <=> h \in DOMAIN pool.txs /\ h # hash
          /\ \A h \in DOMAIN pool'.txs : pool'.txs[h] = pool.txs[h]
          /\ \A a \in DOMAIN pool'.by_sender : a \in DOMAIN pool.by_sender
      BY <1>2, <2>1, RemovedTxs, RemovedSenders
    <2>4. Bounded(pool')
      BY <2>3, FewerIsBounded DEF Bounded, IInv, TypeOK
    <2>5. \A h \in DOMAIN pool'.txs : h \in Hashes /\ pool'.txs[h] \in Txs
      BY <2>3 DEF IInv, TypeOK
    <2>6. \A a \in DOMAIN pool'.by_sender : a \in Addresses
      BY <2>3 DEF IInv, TypeOK
    <2> QED BY <2>2, <2>4, <2>5, <2>6, IndexedIsTyped
  <1> QED BY <1>1, <1>2

-----------------------------------------------------------------------------

LEMMA InitEstablishes == Init => IInv
  <1> SUFFICES ASSUME Init PROVE IInv
    OBVIOUS
  <1>1. /\ \A h : h \notin DOMAIN pool.txs
        /\ \A a : a \notin DOMAIN pool.by_sender
    BY EmptyMapFacts DEF Init, EmptyPool
  <1>2. DOMAIN pool.txs = {}
    BY <1>1
  <1>3. IsFiniteSet(DOMAIN pool.txs) /\ Cardinality(DOMAIN pool.txs) <= Capacity
    BY <1>2, FS_EmptySet, CapacityAssumption
  <1> QED BY <1>1, <1>3 DEF IInv, TypeOK, Lockstep, HashIndexed, NonceIndexed,
             NoDanglingNonce

LEMMA StepPreserves == IInv /\ [Next]_vars => IInv'
  <1> SUFFICES ASSUME IInv, [Next]_vars PROVE IInv'
    OBVIOUS
  <1>1. ASSUME NEW tx \in Txs, Insert(tx) PROVE IInv'
    BY <1>1, InsertPreserves
  <1>2. ASSUME NEW tx \in Txs, Remove(tx) PROVE IInv'
    BY <1>2, RemovePreserves
  <1>3. CASE UNCHANGED vars
    BY <1>3, UntouchedPreserves DEF vars
  <1> QED BY <1>1, <1>2, <1>3 DEF Next

(* The inductive invariant holds in every reachable state.                 *)
THEOREM Invariance == Spec => []IInv
  BY InitEstablishes, StepPreserves, PTL DEF Spec

(* The pool is never over its capacity, and holds only transactions that   *)
(* callers handed in, under hashes of such transactions.                   *)
THEOREM TypeCorrect == Spec => []TypeOK
  <1>1. IInv => TypeOK
    BY DEF IInv
  <1> QED BY <1>1, Invariance, PTL

(* pool.rs:7-9: insert and remove keep the two indexes in lockstep.        *)
THEOREM IndexesInLockstep == Spec => []Lockstep
  <1>1. IInv => Lockstep
    BY DEF IInv
  <1> QED BY <1>1, Invariance, PTL

-----------------------------------------------------------------------------
(* What the block builder reads.                                           *)

LEMMA LowestFacts ==
    ASSUME IInv, NEW a \in Senders(pool), NEW m \in DOMAIN pool.by_sender[a],
           \A n \in DOMAIN pool.by_sender[a] : m <= n
    PROVE  LowestNonce(pool, a) = m
  <1> DEFINE N == DOMAIN pool.by_sender[a]
             l == LowestNonce(pool, a)
  <1>1. N \subseteq Nat
    BY DEF IInv, TypeOK, Senders
  <1>2. l \in N /\ \A n \in N : l <= n
    BY DEF LowestNonce
  <1> HIDE DEF l, N
  <1>3. l <= m /\ m <= l /\ l \in Nat /\ m \in Nat
    BY <1>1, <1>2 DEF N
  <1> QED BY <1>3 DEF l

LEMMA QueriesFollow == IInv => QueriesFollowHeld
  <1> SUFFICES ASSUME IInv PROVE QueriesFollowHeld
    OBVIOUS
  <1>1. Indexed(pool) /\ IsFiniteSet(DOMAIN pool.txs) /\ NaturalNonces(pool)
    BY LockstepIsIndexed, TxsAssumption DEF IInv, TypeOK, NaturalNonces
  <1>2. \A t : t \in Held <=> \E h \in DOMAIN pool.txs : t = pool.txs[h]
    BY DEF Held
  <1>3. Senders(pool) = {tx.from : tx \in Held}
    <2>1. ASSUME NEW a \in Senders(pool) PROVE \E tx \in Held : a = tx.from
      <3>1. PICK n \in DOMAIN pool.by_sender[a] : TRUE
        BY <1>1 DEF Indexed, Senders
      <3> DEFINE h == pool.by_sender[a][n]
      <3>2. h \in DOMAIN pool.txs /\ pool.txs[h].from = a
        BY <1>1 DEF Indexed, Senders
      <3> QED BY <1>2, <3>2
    <2>2. ASSUME NEW tx \in Held PROVE tx.from \in Senders(pool)
      BY <1>1, <1>2 DEF Indexed, NonceTaken, Senders
    <2> QED BY <2>1, <2>2
  <1>4. ASSUME NEW a \in Addresses, NEW listed, listed = PendingFrom(pool, a)
        PROVE  /\ {listed[i] : i \in DOMAIN listed} = {tx \in Held : tx.from = a}
               /\ \A i, j \in DOMAIN listed : i < j => listed[i].nonce < listed[j].nonce
               /\ a \in Senders(pool) => LowestNonce(pool, a) = listed[1].nonce
    <2>1. /\ Len(listed) \in Nat /\ DOMAIN listed = 1 .. Len(listed)
          /\ \A i \in DOMAIN listed :
                /\ listed[i].from = a
                /\ TxHash(listed[i]) \in DOMAIN pool.txs
                /\ pool.txs[TxHash(listed[i])] = listed[i]
          /\ \A h \in DOMAIN pool.txs : pool.txs[h].from = a =>
                \E i \in DOMAIN listed : listed[i] = pool.txs[h]
          /\ \A i, j \in DOMAIN listed : i < j => listed[i].nonce < listed[j].nonce
          /\ a \in Senders(pool) => 1 \in DOMAIN listed
      BY <1>1, <1>4, PendingFacts
    <2>2. {listed[i] : i \in DOMAIN listed} = {tx \in Held : tx.from = a}
      <3>1. \A i \in DOMAIN listed : listed[i] \in Held /\ listed[i].from = a
        BY <1>2, <2>1
      <3>2. \A tx \in Held : tx.from = a => \E i \in DOMAIN listed : listed[i] = tx
        BY <1>2, <2>1
      <3> QED BY <3>1, <3>2
    <2>3. ASSUME a \in Senders(pool) PROVE LowestNonce(pool, a) = listed[1].nonce
      <3> DEFINE m == listed[1].nonce
      <3>1. 1 \in DOMAIN listed
        BY <2>1, <2>3
      <3>2. m \in DOMAIN pool.by_sender[a] /\ m \in Nat
        BY <1>1, <2>1, <3>1 DEF Indexed, NonceTaken, NaturalNonces
      <3>3. ASSUME NEW n \in DOMAIN pool.by_sender[a] PROVE m <= n
        <4> DEFINE h == pool.by_sender[a][n]
        <4>1. h \in DOMAIN pool.txs /\ pool.txs[h].from = a /\ pool.txs[h].nonce = n
          BY <1>1, <2>3 DEF Indexed, Senders
        <4> HIDE DEF h
        <4>2. PICK i \in DOMAIN listed : listed[i] = pool.txs[h]
          BY <2>1, <4>1
        <4>3. n \in Nat /\ i \in Nat /\ (i = 1 \/ 1 < i)
          BY <1>1, <2>1, <4>1 DEF NaturalNonces
        <4>4. 1 < i => m < n
          BY <2>1, <3>1, <4>1, <4>2
        <4> QED BY <3>2, <4>1, <4>2, <4>3, <4>4
      <3> HIDE DEF m
      <3> QED BY <2>3, <3>2, <3>3, LowestFacts DEF m
    <2> QED BY <2>1, <2>2, <2>3
  <1> QED BY <1>3, <1>4 DEF QueriesFollowHeld

(* The builder sees every held transaction of every sender, in the order   *)
(* of the nonces, and nothing else.                                        *)
THEOREM QueriesAreFaithful == Spec => []QueriesFollowHeld
  BY QueriesFollow, Invariance, PTL

-----------------------------------------------------------------------------
(* Refinement: the transactions under the hashes are the abstract set.     *)

LEMMA HeldFacts ==
    ASSUME IInv
    PROVE  /\ \A t : t \in Held <=> TxHash(t) \in DOMAIN pool.txs /\ pool.txs[TxHash(t)] = t
           /\ IsFiniteSet(Held)
           /\ Cardinality(Held) = Cardinality(DOMAIN pool.txs)
           /\ Cardinality(Held) \in Nat
  <1> DEFINE S == DOMAIN pool.txs
             look == [h \in S |-> pool.txs[h]]
  <1>1. \A h \in S : h = TxHash(pool.txs[h])
    BY DEF IInv, Lockstep, HashIndexed
  <1>2. \A t : t \in Held <=> TxHash(t) \in S /\ pool.txs[TxHash(t)] = t
    BY <1>1 DEF Held
  <1>3. look \in Bijection(S, Held)
    <2>1. look \in [S -> Held]
      BY DEF Held
    <2>2. \A g, h \in S : look[g] = look[h] => g = h
      BY <1>1
    <2>3. \A t \in Held : \E h \in S : look[h] = t
      BY DEF Held
    <2> QED BY <2>1, <2>2, <2>3 DEF Bijection, Injection, Surjection, IsInjective
  <1>4. ExistsBijection(S, Held)
    BY <1>3 DEF ExistsBijection
  <1>5. IsFiniteSet(S)
    BY DEF IInv, TypeOK
  <1>6. IsFiniteSet(Held) /\ Cardinality(Held) = Cardinality(S)
    BY <1>4, <1>5, FS_Bijection
  <1>7. Cardinality(Held) \in Nat
    BY <1>6, FS_CardinalityType
  <1> QED BY <1>2, <1>6, <1>7

LEMMA SameVerdict == \A tx : Abstract!VerifySignature(tx) <=> VerifySignature(tx)
  BY DEF Abstract!VerifySignature, VerifySignature, Abstract!PurePayload, PurePayload

LEMMA SameCardinality == Abstract!Cardinality(Held) = Cardinality(Held)
  BY DEF Abstract!Cardinality, Cardinality

(* The nonce index knows a slot exactly when a held transaction has it.    *)
LEMMA SlotFacts ==
    ASSUME IInv, NEW tx
    PROVE  /\ NonceTaken(pool, tx) => \E t \in Held : Abstract!SameSlot(t, tx)
           /\ \A t \in Held : Abstract!SameSlot(t, tx) => NonceTaken(pool, tx)
  <1>1. ASSUME NonceTaken(pool, tx)
        PROVE  \E t \in Held : Abstract!SameSlot(t, tx)
    <2> DEFINE h == pool.by_sender[tx.from][tx.nonce]
    <2>1. h \in DOMAIN pool.txs /\ pool.txs[h].from = tx.from /\ pool.txs[h].nonce = tx.nonce
      BY <1>1 DEF NonceTaken, IInv, Lockstep, NoDanglingNonce
    <2>2. pool.txs[h] \in Held
      BY <2>1 DEF Held
    <2> QED BY <2>1, <2>2 DEF Abstract!SameSlot
  <1>2. ASSUME NEW t \in Held, Abstract!SameSlot(t, tx)
        PROVE  NonceTaken(pool, tx)
    <2>1. PICK h \in DOMAIN pool.txs : t = pool.txs[h]
      BY DEF Held
    <2>2. NonceTaken(pool, t)
      BY <2>1 DEF IInv, Lockstep, NonceIndexed
    <2> QED BY <1>2, <2>2 DEF NonceTaken, Abstract!SameSlot
  <1> QED BY <1>1, <1>2

LEMMA InsertRefines ==
    ASSUME IInv, NEW tx \in Txs, Insert(tx)
    PROVE  Abstract!Accept(tx) \/ Abstract!Refuse(tx)
  <1> DEFINE result == InsertResult(pool, tx)
  <1>1. answer' = [call |-> "insert", tx |-> tx, result |-> result]
    BY DEF Insert
  <1>2. CASE result = "Ok"
    <2>1. pool' = AddTx(pool, tx)
      BY <1>2 DEF Insert, PoolInsert
    <2>2. /\ TxHash(tx) \notin DOMAIN pool.txs
          /\ ~NonceTaken(pool, tx)
          /\ ~(Cardinality(DOMAIN pool.txs) >= Capacity)
          /\ VerifySignature(tx)
          /\ tx.amount # 0
      BY <1>2, InsertOk
    <2>3. Cardinality(Held) < Capacity
      BY <2>2, HeldFacts, CapacityAssumption
    <2>4. \A t \in Held : ~Abstract!SameSlot(t, tx)
      BY <2>2, SlotFacts
    <2>5. Abstract!Admissible(tx)
      BY <2>2, <2>3, <2>4, SameCardinality, SameVerdict
         DEF Abstract!Admissible, Abstract!Welcome
    <2>6. Held' = Held \cup {tx}
      <3>1. /\ \A h : h \in DOMAIN pool'.txs <=> h \in DOMAIN pool.txs \/ h = TxHash(tx)
            /\ pool'.txs[TxHash(tx)] = tx
            /\ \A h \in DOMAIN pool.txs : h # TxHash(tx) => pool'.txs[h] = pool.txs[h]
        BY <2>1, AddTxMaps
      <3>2. \A t : t \in Held' <=> \E h \in DOMAIN pool'.txs : t = pool'.txs[h]
        BY DEF Held
      <3>3. \A t : t \in Held <=> \E h \in DOMAIN pool.txs : t = pool.txs[h]
        BY DEF Held
      <3> QED BY <2>2, <3>1, <3>2, <3>3
    <2> QED BY <1>1, <1>2, <2>5, <2>6 DEF Abstract!Accept
  <1>3. CASE result # "Ok"
    <2>1. Held' = Held
      <3>1. pool' = pool
        BY <1>3 DEF Insert, PoolInsert
      <3> QED BY <3>1 DEF Held
    <2>2. \/ result = "InvalidSignature" /\ ~VerifySignature(tx)
          \/ result = "ZeroAmount" /\ tx.amount = 0
          \/ result = "Duplicate" /\ TxHash(tx) \in DOMAIN pool.txs
          \/ /\ result = "NonceConflict" /\ NonceTaken(pool, tx)
             /\ TxHash(tx) \notin DOMAIN pool.txs
          \/ /\ result = "Full" /\ Cardinality(DOMAIN pool.txs) >= Capacity
             /\ VerifySignature(tx) /\ tx.amount # 0 /\ ~NonceTaken(pool, tx)
             /\ TxHash(tx) \notin DOMAIN pool.txs
      BY <1>3 DEF InsertResult
    <2> HIDE DEF result
    <2>3. Abstract!Justifies(result, tx)
      <3>1. TxHash(tx) \in DOMAIN pool.txs => tx \in Held
        <4> SUFFICES ASSUME TxHash(tx) \in DOMAIN pool.txs PROVE tx \in Held
          OBVIOUS
        <4>1. TxHash(pool.txs[TxHash(tx)]) = TxHash(tx)
          BY DEF IInv, Lockstep, HashIndexed
        <4>2. pool.txs[TxHash(tx)] = tx
          BY <4>1, TxHashInjective
        <4> QED BY <4>2, HeldFacts
      <3>2. ASSUME TxHash(tx) \notin DOMAIN pool.txs, NonceTaken(pool, tx)
            PROVE  \E t \in Held : t # tx /\ Abstract!SameSlot(t, tx)
        BY <3>2, SlotFacts, HeldFacts
      <3>3. ASSUME TxHash(tx) \notin DOMAIN pool.txs, ~NonceTaken(pool, tx)
            PROVE  \A t \in Held : ~Abstract!SameSlot(t, tx)
        BY <3>3, SlotFacts
      <3> QED BY <2>2, <3>1, <3>2, <3>3, HeldFacts, SameCardinality,
                 SameVerdict DEF Abstract!Justifies, Abstract!Welcome
    <2>4. result \in {"InvalidSignature", "ZeroAmount", "Duplicate",
                      "NonceConflict", "Full"}
      BY <2>2
    <2> QED BY <1>1, <2>1, <2>3, <2>4 DEF Abstract!Refuse
  <1> QED BY <1>2, <1>3

LEMMA RemoveRefines ==
    ASSUME IInv, NEW tx \in Txs, Remove(tx)
    PROVE  Abstract!TakeOut(tx)
  <1> DEFINE hash == TxHash(tx)
  <1>1. hash \in DOMAIN pool.txs <=> tx \in Held
    <2>1. ASSUME hash \in DOMAIN pool.txs PROVE tx \in Held
      <3>1. TxHash(pool.txs[hash]) = TxHash(tx)
        BY <2>1 DEF IInv, Lockstep, HashIndexed
      <3>2. pool.txs[hash] = tx
        BY <3>1, TxHashInjective
      <3> QED BY <2>1, <3>2 DEF Held
    <2> QED BY <2>1, HeldFacts
  <1>2. Held' = Held \ {tx}
    <2>1. CASE hash \notin DOMAIN pool.txs
      <3>1. pool' = pool
        BY <2>1 DEF Remove, PoolRemove
      <3>2. Held' = Held
        BY <3>1 DEF Held
      <3> QED BY <1>1, <2>1, <3>2
    <2>2. CASE hash \in DOMAIN pool.txs
      <3>1. pool'.txs = Unbind(pool.txs, hash)
        BY <2>2 DEF Remove, PoolRemove
      <3>2. /\ \A h : h \in DOMAIN pool'.txs <=> h \in DOMAIN pool.txs /\ h # hash
            /\ \A h \in DOMAIN pool.txs : h # hash => pool'.txs[h] = pool.txs[h]
        BY <3>1, UnbindFacts
      <3>3. \A t : t \in Held' <=> \E h \in DOMAIN pool'.txs : t = pool'.txs[h]
        BY DEF Held
      <3>4. \A t : t \in Held <=> TxHash(t) \in DOMAIN pool.txs /\ pool.txs[TxHash(t)] = t
        BY HeldFacts
      <3>5. \A h \in DOMAIN pool.txs : h = TxHash(pool.txs[h])
        BY DEF IInv, Lockstep, HashIndexed
      <3>6. \A t : TxHash(t) = hash => t = tx
        BY TxHashInjective
      <3> HIDE DEF hash
      <3>7. \A t : t \in Held' <=> t \in Held /\ TxHash(t) # hash
        BY <3>2, <3>3, <3>4, <3>5
      <3>8. TxHash(tx) = hash
        BY DEF hash
      <3> QED BY <3>6, <3>7, <3>8
    <2> QED BY <2>1, <2>2
  <1>3. answer' = [call |-> "remove", tx |-> tx, found |-> tx \in Held]
    <2>1. (hash \in DOMAIN pool.txs) = (tx \in Held)
      BY <1>1
    <2> QED BY <2>1 DEF Remove
  <1> QED BY <1>2, <1>3 DEF Abstract!TakeOut

(* The two indexes implement the bounded set of transactions, one per      *)
(* sender and nonce, with a true reason for every refusal.                 *)
THEOREM Refinement == Spec => ImplementsMempoolSpec
  <1>1. Init => Abstract!Init
    <2> SUFFICES ASSUME Init PROVE Abstract!Init
      OBVIOUS
    <2>1. \A h : h \notin DOMAIN pool.txs
      BY EmptyMapFacts DEF Init, EmptyPool
    <2>2. Held = {}
      BY <2>1 DEF Held
    <2> QED BY <2>2 DEF Init, Abstract!Init
  <1>2. IInv /\ [Next]_vars => [Abstract!Next]_<<Held, answer>>
    <2> SUFFICES ASSUME IInv, [Next]_vars
                 PROVE  [Abstract!Next]_<<Held, answer>>
      OBVIOUS
    <2>1. ASSUME NEW tx \in Txs, Insert(tx) PROVE Abstract!Next
      BY <2>1, InsertRefines DEF Abstract!Next
    <2>2. ASSUME NEW tx \in Txs, Remove(tx) PROVE Abstract!Next
      BY <2>2, RemoveRefines DEF Abstract!Next
    <2>3. CASE UNCHANGED vars
      BY <2>3 DEF vars, Held
    <2> QED BY <2>1, <2>2, <2>3 DEF Next
  <1> QED BY <1>1, <1>2, Invariance, PTL DEF Spec, ImplementsMempoolSpec, Abstract!Spec
===============================================================================
