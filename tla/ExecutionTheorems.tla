--------------------------- MODULE ExecutionTheorems --------------------------
(***************************************************************************)
(* What the operators make of the data they are given: the facts about     *)
(* HashMaps, Pool, StateStore, Builder and the Merkle root that the proofs *)
(* about the machines cite.  A loop of the code is an instance of module   *)
(* Loops.                                                                  *)
(***************************************************************************)
EXTENDS Builder, FiniteSetTheorems, SequenceTheorems, TLAPS

-----------------------------------------------------------------------------
(* The maps and the two indexes of the mempool.                            *)

(* Insertion binds its key, keeps every other key and adds none.           *)
LEMMA BindFacts ==
    ASSUME NEW f, NEW k, NEW v
    PROVE  /\ \A x : x \in DOMAIN Bind(f, k, v) <=> x \in DOMAIN f \/ x = k
           /\ Bind(f, k, v)[k] = v
           /\ \A x \in DOMAIN f : x # k => Bind(f, k, v)[x] = f[x]
  BY DEF Bind

(* Removal drops its key and keeps the rest.                               *)
LEMMA UnbindFacts ==
    ASSUME NEW f, NEW k
    PROVE  /\ \A x : x \in DOMAIN Unbind(f, k) <=> x \in DOMAIN f /\ x # k
           /\ \A x \in DOMAIN f : x # k => Unbind(f, k)[x] = f[x]
  BY DEF Unbind

(* The new map is empty.                                                   *)
LEMMA EmptyMapFacts == \A x : x \notin DOMAIN EmptyMap
  BY DEF EmptyMap
-----------------------------------------------------------------------------
(* An ideal hash: different transactions have different hashes.            *)
LEMMA TxHashInjective ==
    ASSUME NEW s, NEW t, TxHash(s) = TxHash(t) PROVE s = t
  BY DEF TxHash

(* What a successful insert has checked.                                   *)
LEMMA InsertOk ==
    ASSUME NEW p, NEW tx, InsertResult(p, tx) = "Ok"
    PROVE  /\ TxHash(tx) \notin DOMAIN p.txs
           /\ ~NonceTaken(p, tx)
           /\ ~(Cardinality(DOMAIN p.txs) >= Capacity)
           /\ VerifySignature(tx)
           /\ tx.amount # 0
  BY Zenon DEF InsertResult

-----------------------------------------------------------------------------
(* The two indexes after AddTx.                                            *)

LEMMA AddTxMaps ==
    ASSUME NEW p, NEW tx, NEW q, q = AddTx(p, tx)
    PROVE  /\ \A h : h \in DOMAIN q.txs <=> h \in DOMAIN p.txs \/ h = TxHash(tx)
           /\ q.txs[TxHash(tx)] = tx
           /\ \A h \in DOMAIN p.txs : h # TxHash(tx) => q.txs[h] = p.txs[h]
           /\ \A a : a \in DOMAIN q.by_sender <=> a \in DOMAIN p.by_sender \/ a = tx.from
           /\ \A a \in DOMAIN p.by_sender : a # tx.from =>
                 q.by_sender[a] = p.by_sender[a]
           /\ q.by_sender[tx.from] = Bind(NonceMap(p, tx.from), tx.nonce, TxHash(tx))
  <1>1. /\ q.txs = Bind(p.txs, TxHash(tx), tx)
        /\ q.by_sender = Bind(p.by_sender, tx.from,
                              Bind(NonceMap(p, tx.from), tx.nonce, TxHash(tx)))
    BY DEF AddTx
  <1> QED BY <1>1, BindFacts

(* The nonce map of the sender keeps its entries and gains one.            *)
LEMMA AddTxNonces ==
    ASSUME NEW p, NEW tx, NEW q, q = AddTx(p, tx), ~NonceTaken(p, tx)
    PROVE  /\ tx.nonce \in DOMAIN q.by_sender[tx.from]
           /\ q.by_sender[tx.from][tx.nonce] = TxHash(tx)
           /\ \A n \in DOMAIN q.by_sender[tx.from] : n # tx.nonce =>
                 /\ tx.from \in DOMAIN p.by_sender
                 /\ n \in DOMAIN p.by_sender[tx.from]
                 /\ q.by_sender[tx.from][n] = p.by_sender[tx.from][n]
           /\ tx.from \in DOMAIN p.by_sender =>
                 \A n \in DOMAIN p.by_sender[tx.from] :
                    /\ n # tx.nonce
                    /\ n \in DOMAIN q.by_sender[tx.from]
                    /\ q.by_sender[tx.from][n] = p.by_sender[tx.from][n]
  <1> DEFINE old == NonceMap(p, tx.from)
             new == q.by_sender[tx.from]
  <1>1. new = Bind(old, tx.nonce, TxHash(tx))
    BY AddTxMaps
  <1>2. /\ \A n : n \in DOMAIN new <=> n \in DOMAIN old \/ n = tx.nonce
        /\ new[tx.nonce] = TxHash(tx)
        /\ \A n \in DOMAIN old : n # tx.nonce => new[n] = old[n]
    BY <1>1, BindFacts
  <1>3. CASE tx.from \in DOMAIN p.by_sender
    <2>1. old = p.by_sender[tx.from]
      BY <1>3 DEF NonceMap
    <2>2. tx.nonce \notin DOMAIN p.by_sender[tx.from]
      BY <1>3 DEF NonceTaken
    <2> QED BY <1>2, <1>3, <2>1, <2>2
  <1>4. CASE tx.from \notin DOMAIN p.by_sender
    <2>1. \A n : n \notin DOMAIN old
      BY <1>4, EmptyMapFacts DEF NonceMap
    <2> QED BY <1>2, <1>4, <2>1
  <1> QED BY <1>3, <1>4

-----------------------------------------------------------------------------
(* The two indexes after the removal of a transaction that is there.       *)

(* The maps before a removal, p, and after it, q, when t stood under h.    *)
MapsWithout(p, h, q, t) ==
    /\ \A x : x \in DOMAIN q.txs <=> x \in DOMAIN p.txs /\ x # h
    /\ \A x \in DOMAIN p.txs : x # h => q.txs[x] = p.txs[x]
    /\ \A a : a \in DOMAIN q.by_sender =>
          /\ a \in DOMAIN p.by_sender
          /\ a = t.from => \E n \in DOMAIN p.by_sender[a] : n # t.nonce
    /\ \A a \in DOMAIN p.by_sender : a # t.from =>
          a \in DOMAIN q.by_sender /\ q.by_sender[a] = p.by_sender[a]
    /\ \A n \in DOMAIN p.by_sender[t.from] : n # t.nonce =>
          /\ t.from \in DOMAIN q.by_sender
          /\ n \in DOMAIN q.by_sender[t.from]
    /\ t.from \in DOMAIN q.by_sender =>
          \A n \in DOMAIN q.by_sender[t.from] :
             /\ n # t.nonce
             /\ n \in DOMAIN p.by_sender[t.from]
             /\ q.by_sender[t.from][n] = p.by_sender[t.from][n]

LEMMA PoolRemoveMaps ==
    ASSUME NEW p, NEW h, NEW q, NEW t, q = PoolRemove(p, h), t = p.txs[h],
           h \in DOMAIN p.txs, t.from \in DOMAIN p.by_sender
    PROVE  MapsWithout(p, h, q, t)
  <1> DEFINE old == p.by_sender[t.from]
  <1>1. /\ q.txs = Unbind(p.txs, h)
        /\ q.by_sender = DropNonce(p.by_sender, t.from, t.nonce)
    BY DEF PoolRemove
  <1>2. /\ \A x : x \in DOMAIN q.txs <=> x \in DOMAIN p.txs /\ x # h
        /\ \A x \in DOMAIN p.txs : x # h => q.txs[x] = p.txs[x]
    BY <1>1, UnbindFacts
  <1>3. CASE DOMAIN old \subseteq {t.nonce}
    <2>1. q.by_sender = Unbind(p.by_sender, t.from)
      BY <1>1, <1>3 DEF DropNonce
    <2>2. \A n \in DOMAIN old : n = t.nonce
      BY <1>3
    <2>3. /\ \A a : a \in DOMAIN q.by_sender <=> a \in DOMAIN p.by_sender /\ a # t.from
          /\ \A a \in DOMAIN p.by_sender : a # t.from => q.by_sender[a] = p.by_sender[a]
      BY <2>1, UnbindFacts
    <2> HIDE DEF old
    <2>4. /\ \A a : a \in DOMAIN q.by_sender => a \in DOMAIN p.by_sender /\ a # t.from
          /\ t.from \notin DOMAIN q.by_sender
      BY <2>3
    <2>5. \A n \in DOMAIN p.by_sender[t.from] : n = t.nonce
      BY <2>2 DEF old
    <2> QED BY <1>2, <2>3, <2>4, <2>5, Zenon DEF MapsWithout
  <1>4. CASE ~(DOMAIN old \subseteq {t.nonce})
    <2> DEFINE new == q.by_sender[t.from]
           less == Unbind(old, t.nonce)
    <2>1. q.by_sender = Bind(p.by_sender, t.from, less)
      BY <1>1, <1>4 DEF DropNonce
    <2>2. \E n \in DOMAIN old : n # t.nonce
      BY <1>4
    <2> HIDE DEF old
    <2>3. /\ \A n : n \in DOMAIN less <=> n \in DOMAIN old /\ n # t.nonce
          /\ \A n \in DOMAIN old : n # t.nonce => less[n] = old[n]
      BY UnbindFacts
    <2> HIDE DEF less
    <2>4. /\ \A a : a \in DOMAIN q.by_sender <=> a \in DOMAIN p.by_sender \/ a = t.from
          /\ \A a \in DOMAIN p.by_sender : a # t.from => q.by_sender[a] = p.by_sender[a]
          /\ new = less
      BY <2>1, BindFacts
    <2>5. /\ \A n : n \in DOMAIN new <=> n \in DOMAIN old /\ n # t.nonce
          /\ \A n \in DOMAIN old : n # t.nonce => new[n] = old[n]
      BY <2>4, <2>3
    <2>6. t.from \in DOMAIN q.by_sender
      BY <2>4
    <2> HIDE DEF new
    <2>7. /\ \A a : a \in DOMAIN q.by_sender => a \in DOMAIN p.by_sender
          /\ \A a \in DOMAIN p.by_sender : a # t.from =>
                a \in DOMAIN q.by_sender /\ q.by_sender[a] = p.by_sender[a]
      BY <2>4
    <2>8. \A a : a \in DOMAIN q.by_sender /\ a = t.from =>
             \E n \in DOMAIN p.by_sender[a] : n # t.nonce
      BY <2>2 DEF old
    <2>9. /\ \A n \in DOMAIN p.by_sender[t.from] : n # t.nonce =>
                n \in DOMAIN q.by_sender[t.from]
          /\ \A n \in DOMAIN q.by_sender[t.from] :
                /\ n # t.nonce
                /\ n \in DOMAIN p.by_sender[t.from]
                /\ q.by_sender[t.from][n] = p.by_sender[t.from][n]
      BY <2>5 DEF new, old
    <2> QED BY <1>2, <2>6, <2>7, <2>8, <2>9, Zenon DEF MapsWithout
  <1> QED BY <1>3, <1>4

-----------------------------------------------------------------------------
(* The two indexes of a pool, in lockstep.                                 *)

Indexed(p) ==
    /\ \A h \in DOMAIN p.txs :
          /\ h = TxHash(p.txs[h])
          /\ NonceTaken(p, p.txs[h])
          /\ p.by_sender[p.txs[h].from][p.txs[h].nonce] = h
    /\ \A a \in DOMAIN p.by_sender :
          /\ DOMAIN p.by_sender[a] # {}
          /\ \A n \in DOMAIN p.by_sender[a] :
                /\ p.by_sender[a][n] \in DOMAIN p.txs
                /\ p.txs[p.by_sender[a][n]].from = a
                /\ p.txs[p.by_sender[a][n]].nonce = n

(* No more transactions than the capacity allows.                          *)
Bounded(p) == IsFiniteSet(DOMAIN p.txs) /\ Cardinality(DOMAIN p.txs) <= Capacity

LEMMA EmptyPoolFacts ==
    /\ \A h : h \notin DOMAIN EmptyPool.txs
    /\ \A a : a \notin DOMAIN EmptyPool.by_sender
    /\ Indexed(EmptyPool)
    /\ Bounded(EmptyPool)
  <1>1. /\ \A h : h \notin DOMAIN EmptyPool.txs
        /\ \A a : a \notin DOMAIN EmptyPool.by_sender
    BY EmptyMapFacts DEF EmptyPool
  <1>2. DOMAIN EmptyPool.txs = {}
    BY <1>1
  <1>3. Bounded(EmptyPool)
    BY <1>2, FS_EmptySet, CapacityAssumption DEF Bounded
  <1> QED BY <1>1, <1>3 DEF Indexed

LEMMA AddKeepsIndexed ==
    ASSUME NEW p, Indexed(p), NEW tx, InsertResult(p, tx) = "Ok", NEW q, q = AddTx(p, tx)
    PROVE  Indexed(q)
  <1> DEFINE hash == TxHash(tx)
  <1>1. hash \notin DOMAIN p.txs /\ ~NonceTaken(p, tx)
    BY InsertOk
  <1>2. /\ \A h : h \in DOMAIN q.txs <=> h \in DOMAIN p.txs \/ h = hash
        /\ q.txs[hash] = tx
        /\ \A h \in DOMAIN p.txs : h # hash => q.txs[h] = p.txs[h]
        /\ \A a : a \in DOMAIN q.by_sender <=> a \in DOMAIN p.by_sender \/ a = tx.from
        /\ \A a \in DOMAIN p.by_sender : a # tx.from => q.by_sender[a] = p.by_sender[a]
    BY AddTxMaps
  <1>3. /\ tx.nonce \in DOMAIN q.by_sender[tx.from]
        /\ q.by_sender[tx.from][tx.nonce] = hash
        /\ \A n \in DOMAIN q.by_sender[tx.from] : n # tx.nonce =>
              /\ tx.from \in DOMAIN p.by_sender
              /\ n \in DOMAIN p.by_sender[tx.from]
              /\ q.by_sender[tx.from][n] = p.by_sender[tx.from][n]
        /\ tx.from \in DOMAIN p.by_sender =>
              \A n \in DOMAIN p.by_sender[tx.from] :
                 /\ n # tx.nonce
                 /\ n \in DOMAIN q.by_sender[tx.from]
                 /\ q.by_sender[tx.from][n] = p.by_sender[tx.from][n]
    BY <1>1, AddTxNonces
  <1>4. hash = TxHash(tx)
    OBVIOUS
  <1> HIDE DEF hash
  <1>5. \A h \in DOMAIN q.txs :
           /\ h = TxHash(q.txs[h])
           /\ NonceTaken(q, q.txs[h])
           /\ q.by_sender[q.txs[h].from][q.txs[h].nonce] = h
    <2> SUFFICES ASSUME NEW h \in DOMAIN q.txs
                 PROVE  /\ h = TxHash(q.txs[h])
                        /\ NonceTaken(q, q.txs[h])
                        /\ q.by_sender[q.txs[h].from][q.txs[h].nonce] = h
      OBVIOUS
    <2>1. CASE h = hash
      <3>1. q.txs[h] = tx /\ tx.from \in DOMAIN q.by_sender
        BY <1>2, <2>1
      <3> QED BY <1>3, <1>4, <2>1, <3>1 DEF NonceTaken
    <2>2. CASE h # hash
      <3> DEFINE u == p.txs[h]
      <3>1. h \in DOMAIN p.txs /\ q.txs[h] = u
        BY <1>2, <2>2
      <3>2. /\ h = TxHash(u) /\ u.from \in DOMAIN p.by_sender
            /\ u.nonce \in DOMAIN p.by_sender[u.from]
            /\ p.by_sender[u.from][u.nonce] = h
        BY <3>1 DEF Indexed, NonceTaken
      <3> HIDE DEF u
      <3>3. /\ u.from \in DOMAIN q.by_sender
            /\ u.nonce \in DOMAIN q.by_sender[u.from]
            /\ q.by_sender[u.from][u.nonce] = h
        <4>1. CASE u.from = tx.from
          BY <1>2, <1>3, <3>2, <4>1
        <4>2. CASE u.from # tx.from
          BY <1>2, <3>2, <4>2
        <4> QED BY <4>1, <4>2
      <3> QED BY <3>1, <3>2, <3>3 DEF NonceTaken
    <2> QED BY <2>1, <2>2
  <1>6. ASSUME NEW a \in DOMAIN q.by_sender
        PROVE  /\ DOMAIN q.by_sender[a] # {}
               /\ \A n \in DOMAIN q.by_sender[a] :
                     /\ q.by_sender[a][n] \in DOMAIN q.txs
                     /\ q.txs[q.by_sender[a][n]].from = a
                     /\ q.txs[q.by_sender[a][n]].nonce = n
    <2>1. ASSUME a \in DOMAIN p.by_sender
          PROVE  /\ DOMAIN p.by_sender[a] # {}
                 /\ \A n \in DOMAIN p.by_sender[a] :
                       /\ p.by_sender[a][n] \in DOMAIN q.txs
                       /\ q.txs[p.by_sender[a][n]].from = a
                       /\ q.txs[p.by_sender[a][n]].nonce = n
      <3>1. /\ DOMAIN p.by_sender[a] # {}
            /\ \A n \in DOMAIN p.by_sender[a] :
                  /\ p.by_sender[a][n] \in DOMAIN p.txs
                  /\ p.txs[p.by_sender[a][n]].from = a
                  /\ p.txs[p.by_sender[a][n]].nonce = n
        BY <2>1 DEF Indexed
      <3>2. \A h \in DOMAIN p.txs : h \in DOMAIN q.txs /\ q.txs[h] = p.txs[h]
        BY <1>1, <1>2
      <3> QED BY <3>1, <3>2
    <2>2. CASE a # tx.from
      BY <1>2, <2>1, <2>2
    <2>3. CASE a = tx.from
      <3>1. DOMAIN q.by_sender[a] # {}
        BY <1>3, <2>3
      <3>2. ASSUME NEW n \in DOMAIN q.by_sender[a]
            PROVE  /\ q.by_sender[a][n] \in DOMAIN q.txs
                   /\ q.txs[q.by_sender[a][n]].from = a
                   /\ q.txs[q.by_sender[a][n]].nonce = n
        <4>1. CASE n = tx.nonce
          BY <1>2, <1>3, <2>3, <4>1
        <4>2. CASE n # tx.nonce
          <5>1. /\ a \in DOMAIN p.by_sender /\ n \in DOMAIN p.by_sender[a]
                /\ q.by_sender[a][n] = p.by_sender[a][n]
            BY <1>3, <2>3, <4>2
          <5> QED BY <2>1, <5>1
        <4> QED BY <4>1, <4>2
      <3> QED BY <3>1, <3>2
    <2> QED BY <2>2, <2>3
  <1> QED BY <1>5, <1>6 DEF Indexed

LEMMA AddKeepsBounded ==
    ASSUME NEW p, Bounded(p), NEW tx, InsertResult(p, tx) = "Ok", NEW q, q = AddTx(p, tx)
    PROVE  Bounded(q)
  <1>1. TxHash(tx) \notin DOMAIN p.txs /\ ~(Cardinality(DOMAIN p.txs) >= Capacity)
    BY InsertOk
  <1>2. DOMAIN q.txs = DOMAIN p.txs \cup {TxHash(tx)}
    BY AddTxMaps
  <1>3. /\ IsFiniteSet(DOMAIN p.txs \cup {TxHash(tx)})
        /\ Cardinality(DOMAIN p.txs \cup {TxHash(tx)}) = Cardinality(DOMAIN p.txs) + 1
    BY <1>1, FS_AddElement DEF Bounded
  <1>4. Cardinality(DOMAIN p.txs) \in Nat
    BY FS_CardinalityType DEF Bounded
  <1> QED BY <1>1, <1>2, <1>3, <1>4, CapacityAssumption DEF Bounded

LEMMA RemoveKeepsIndexed ==
    ASSUME NEW p, Indexed(p), NEW hash, hash \in DOMAIN p.txs,
           NEW q, q = PoolRemove(p, hash)
    PROVE  Indexed(q)
  <1> DEFINE t == p.txs[hash]
  <1>1. /\ t.from \in DOMAIN p.by_sender
        /\ t.nonce \in DOMAIN p.by_sender[t.from]
        /\ p.by_sender[t.from][t.nonce] = hash
    BY DEF Indexed, NonceTaken
  <1> HIDE DEF t
  <1>2. /\ \A x : x \in DOMAIN q.txs <=> x \in DOMAIN p.txs /\ x # hash
        /\ \A x \in DOMAIN p.txs : x # hash => q.txs[x] = p.txs[x]
        /\ \A a : a \in DOMAIN q.by_sender =>
              /\ a \in DOMAIN p.by_sender
              /\ a = t.from => \E n \in DOMAIN p.by_sender[a] : n # t.nonce
        /\ \A a \in DOMAIN p.by_sender : a # t.from =>
              a \in DOMAIN q.by_sender /\ q.by_sender[a] = p.by_sender[a]
        /\ \A n \in DOMAIN p.by_sender[t.from] : n # t.nonce =>
              /\ t.from \in DOMAIN q.by_sender
              /\ n \in DOMAIN q.by_sender[t.from]
        /\ t.from \in DOMAIN q.by_sender =>
              \A n \in DOMAIN q.by_sender[t.from] :
                 /\ n # t.nonce
                 /\ n \in DOMAIN p.by_sender[t.from]
                 /\ q.by_sender[t.from][n] = p.by_sender[t.from][n]
    <2>1. t = p.txs[hash]
      BY DEF t
    <2>2. MapsWithout(p, hash, q, t)
      BY <1>1, <2>1, PoolRemoveMaps
    <2> QED BY <2>2, Zenon DEF MapsWithout
  <1>3. \A h \in DOMAIN q.txs :
           /\ h = TxHash(q.txs[h])
           /\ NonceTaken(q, q.txs[h])
           /\ q.by_sender[q.txs[h].from][q.txs[h].nonce] = h
    <2> SUFFICES ASSUME NEW h \in DOMAIN q.txs
                 PROVE  /\ h = TxHash(q.txs[h])
                        /\ NonceTaken(q, q.txs[h])
                        /\ q.by_sender[q.txs[h].from][q.txs[h].nonce] = h
      OBVIOUS
    <2>1. h \in DOMAIN p.txs /\ h # hash /\ q.txs[h] = p.txs[h]
      BY <1>2
    <2> DEFINE u == p.txs[h]
    <2>2. /\ h = TxHash(u)
          /\ u.from \in DOMAIN p.by_sender
          /\ u.nonce \in DOMAIN p.by_sender[u.from]
          /\ p.by_sender[u.from][u.nonce] = h
      BY <2>1 DEF Indexed, NonceTaken
    <2> HIDE DEF u
    <2>3. /\ u.from \in DOMAIN q.by_sender
          /\ u.nonce \in DOMAIN q.by_sender[u.from]
          /\ q.by_sender[u.from][u.nonce] = h
      <3>1. CASE u.from = t.from
        <4>1. u.nonce # t.nonce
          BY <1>1, <2>1, <2>2, <3>1
        <4> QED BY <1>2, <2>2, <3>1, <4>1
      <3>2. CASE u.from # t.from
        BY <1>2, <2>2, <3>2
      <3> QED BY <3>1, <3>2
    <2> QED BY <2>1, <2>2, <2>3 DEF NonceTaken, u
  <1>4. ASSUME NEW a \in DOMAIN q.by_sender
        PROVE  /\ DOMAIN q.by_sender[a] # {}
               /\ \A n \in DOMAIN q.by_sender[a] :
                     /\ q.by_sender[a][n] \in DOMAIN q.txs
                     /\ q.txs[q.by_sender[a][n]].from = a
                     /\ q.txs[q.by_sender[a][n]].nonce = n
    <2>1. a \in DOMAIN p.by_sender
      BY <1>2
    <2>2. /\ DOMAIN p.by_sender[a] # {}
          /\ \A n \in DOMAIN p.by_sender[a] :
                /\ p.by_sender[a][n] \in DOMAIN p.txs
                /\ p.txs[p.by_sender[a][n]].from = a
                /\ p.txs[p.by_sender[a][n]].nonce = n
      BY <2>1 DEF Indexed
    <2>3. DOMAIN q.by_sender[a] # {}
      <3>1. CASE a = t.from
        <4>1. PICK n \in DOMAIN p.by_sender[a] : n # t.nonce
          BY <1>2, <3>1
        <4>2. n \in DOMAIN q.by_sender[a]
          BY <1>2, <3>1, <4>1
        <4> QED BY <4>2
      <3>2. CASE a # t.from
        BY <1>2, <2>1, <2>2, <3>2
      <3> QED BY <3>1, <3>2
    <2>4. ASSUME NEW n \in DOMAIN q.by_sender[a]
          PROVE  /\ n \in DOMAIN p.by_sender[a] /\ q.by_sender[a][n] = p.by_sender[a][n]
                 /\ a # t.from \/ n # t.nonce
      <3>1. CASE a = t.from
        BY <1>2, <3>1
      <3>2. CASE a # t.from
        BY <1>2, <2>1, <3>2
      <3> QED BY <3>1, <3>2
    <2>5. ASSUME NEW n \in DOMAIN q.by_sender[a]
          PROVE  /\ q.by_sender[a][n] \in DOMAIN q.txs
                 /\ q.txs[q.by_sender[a][n]].from = a
                 /\ q.txs[q.by_sender[a][n]].nonce = n
      <3> DEFINE h == p.by_sender[a][n]
      <3>1. h \in DOMAIN p.txs /\ p.txs[h].from = a /\ p.txs[h].nonce = n
        BY <2>2, <2>4
      <3>2. q.by_sender[a][n] = h
        BY <2>4
      <3> HIDE DEF h
      <3>3. h # hash
        BY <2>4, <3>1 DEF t
      <3>4. h \in DOMAIN q.txs /\ q.txs[h] = p.txs[h]
        BY <1>2, <3>1, <3>3
      <3> QED BY <3>1, <3>2, <3>4
    <2> QED BY <2>3, <2>5
  <1> QED BY <1>3, <1>4 DEF Indexed

(* Removal takes one hash from the first index, if it is there.            *)
LEMMA RemovedTxs ==
    ASSUME NEW p, NEW hash, NEW q, q = PoolRemove(p, hash)
    PROVE  /\ \A h : h \in DOMAIN q.txs <=> h \in DOMAIN p.txs /\ h # hash
           /\ \A h \in DOMAIN q.txs : q.txs[h] = p.txs[h]
  <1>1. CASE hash \notin DOMAIN p.txs
    BY <1>1 DEF PoolRemove
  <1>2. CASE hash \in DOMAIN p.txs
    <2>1. q.txs = Unbind(p.txs, hash)
      BY <1>2 DEF PoolRemove
    <2> QED BY <2>1, UnbindFacts
  <1> QED BY <1>1, <1>2

LEMMA RemovedSenders ==
    ASSUME NEW p, Indexed(p), NEW hash \in DOMAIN p.txs, NEW q, q = PoolRemove(p, hash)
    PROVE  \A a \in DOMAIN q.by_sender : a \in DOMAIN p.by_sender
  <1> DEFINE t == p.txs[hash]
  <1>1. t.from \in DOMAIN p.by_sender
    BY DEF Indexed, NonceTaken
  <1> QED BY <1>1, PoolRemoveMaps DEF MapsWithout

LEMMA FewerIsBounded ==
    ASSUME NEW p, Bounded(p), NEW q, DOMAIN q.txs \subseteq DOMAIN p.txs
    PROVE  Bounded(q)
  <1>1. /\ IsFiniteSet(DOMAIN q.txs)
        /\ Cardinality(DOMAIN q.txs) <= Cardinality(DOMAIN p.txs)
    BY FS_Subset DEF Bounded
  <1>2. Cardinality(DOMAIN p.txs) \in Nat /\ Cardinality(DOMAIN q.txs) \in Nat
    BY <1>1, FS_CardinalityType DEF Bounded
  <1> QED BY <1>1, <1>2, CapacityAssumption DEF Bounded
-----------------------------------------------------------------------------
(* Counting.  The rank of a number in a finite set of numbers is how many  *)
(* of the set it is not below; every rank has its number, and higher ranks *)
(* have larger numbers.                                                    *)

Rank(N, n) == Cardinality({m \in N : m <= n})

Ranked(N, i) == CHOOSE n \in N : Rank(N, n) = i

LEMMA RankRange ==
    ASSUME NEW N, N \subseteq Nat, IsFiniteSet(N), NEW n \in N
    PROVE  Rank(N, n) \in 1 .. Cardinality(N)
  <1> DEFINE below == {m \in N : m <= n}
  <1>1. below \in SUBSET N /\ n \in below
    OBVIOUS
  <1>2. /\ IsFiniteSet(below) /\ Cardinality(below) <= Cardinality(N)
        /\ Cardinality(below) \in Nat /\ Cardinality(N) \in Nat
    BY <1>1, FS_Subset, FS_CardinalityType
  <1>3. Cardinality(below) # 0
    BY <1>1, <1>2, FS_EmptySet
  <1> QED BY <1>2, <1>3 DEF Rank

LEMMA RankGrows ==
    ASSUME NEW N, N \subseteq Nat, IsFiniteSet(N), NEW m \in N, NEW n \in N, m < n
    PROVE  Rank(N, m) < Rank(N, n)
  <1> DEFINE S == {k \in N : k <= m}
             T == {k \in N : k <= n}
  <1>1. S \in SUBSET T /\ T \in SUBSET N /\ n \in T /\ n \notin S
    <2>1. m \in Nat /\ n \in Nat /\ \A k \in N : k \in Nat
      OBVIOUS
    <2>2. \A k \in N : k <= m => k <= n
      BY <2>1
    <2>3. n <= n /\ ~(n <= m)
      BY <2>1
    <2> QED BY <2>2, <2>3
  <1>2. IsFiniteSet(T) /\ IsFiniteSet(S)
    BY <1>1, FS_Subset
  <1>3. Cardinality(S) <= Cardinality(T) /\ Cardinality(T) # Cardinality(S)
    BY <1>1, <1>2, FS_Subset
  <1>4. Cardinality(S) \in Nat /\ Cardinality(T) \in Nat
    BY <1>2, FS_CardinalityType
  <1> QED BY <1>3, <1>4 DEF Rank

LEMMA RankedFacts ==
    ASSUME NEW N, N \subseteq Nat, IsFiniteSet(N)
    PROVE  /\ \A i \in 1 .. Cardinality(N) : Ranked(N, i) \in N /\ Rank(N, Ranked(N, i)) = i
           /\ \A n \in N : Rank(N, n) \in 1 .. Cardinality(N) /\ Ranked(N, Rank(N, n)) = n
           /\ \A i, j \in 1 .. Cardinality(N) : i < j => Ranked(N, i) < Ranked(N, j)
  <1> DEFINE c == Cardinality(N)
             rank == [n \in N |-> Rank(N, n)]
  <1>1. c \in Nat /\ IsFiniteSet(1 .. c) /\ Cardinality(1 .. c) = c
    BY FS_CardinalityType, FS_Interval
  <1>2. \A n \in N : Rank(N, n) \in 1 .. c
    BY RankRange
  <1>3. \A m, n \in N : Rank(N, m) = Rank(N, n) => m = n
    <2> SUFFICES ASSUME NEW m \in N, NEW n \in N, Rank(N, m) = Rank(N, n), m # n
                 PROVE  FALSE
      OBVIOUS
    <2>1. m \in Nat /\ n \in Nat /\ Rank(N, m) \in Nat
      BY <1>1, <1>2
    <2>2. ~(m < n) /\ ~(n < m)
      <3>1. m < n => Rank(N, m) < Rank(N, n)
        BY RankGrows
      <3>2. n < m => Rank(N, n) < Rank(N, m)
        BY RankGrows
      <3> QED BY <2>1, <3>1, <3>2
    <2> QED BY <2>1, <2>2
  <1>4. rank \in Injection(N, 1 .. c)
    BY <1>2, <1>3 DEF Injection, IsInjective
  <1>5. rank \in Surjection(N, 1 .. c)
    BY <1>1, <1>4, FS_Injection
  <1>6. \A i \in 1 .. c : \E n \in N : Rank(N, n) = i
    BY <1>5 DEF Surjection
  <1>7. \A i \in 1 .. c : Ranked(N, i) \in N /\ Rank(N, Ranked(N, i)) = i
    BY <1>6 DEF Ranked
  <1>8. \A n \in N : Ranked(N, Rank(N, n)) = n
    BY <1>2, <1>3, <1>7
  <1>9. ASSUME NEW i \in 1 .. c, NEW j \in 1 .. c, i < j
        PROVE  Ranked(N, i) < Ranked(N, j)
    <2> DEFINE m == Ranked(N, i)
               n == Ranked(N, j)
    <2>1. m \in N /\ n \in N /\ Rank(N, m) = i /\ Rank(N, n) = j
      BY <1>7
    <2> HIDE DEF m, n
    <2>2. n < m => Rank(N, n) < Rank(N, m)
      BY <2>1, RankGrows
    <2>3. m \in Nat /\ n \in Nat /\ i \in Nat /\ j \in Nat /\ m # n /\ ~(n < m)
      BY <1>1, <1>9, <2>1, <2>2
    <2> QED BY <2>3 DEF m, n
  <1> QED BY <1>2, <1>7, <1>8, <1>9

-----------------------------------------------------------------------------
(* The pending transactions of a sender.                                   *)

NaturalNonces(p) == \A h \in DOMAIN p.txs : p.txs[h].nonce \in Nat

LEMMA NoncesFinite ==
    ASSUME NEW p, Indexed(p), IsFiniteSet(DOMAIN p.txs), NaturalNonces(p),
           NEW a \in DOMAIN p.by_sender, NEW N, N = DOMAIN p.by_sender[a]
    PROVE  N \subseteq Nat /\ IsFiniteSet(N) /\ N # {}
  <1> DEFINE f == [n \in N |-> p.by_sender[a][n]]
  <1>1. \A n \in N :
           /\ p.by_sender[a][n] \in DOMAIN p.txs
           /\ p.txs[p.by_sender[a][n]].nonce = n
    BY DEF Indexed
  <1>2. f \in Injection(N, DOMAIN p.txs)
    BY <1>1 DEF Injection, IsInjective
  <1>3. IsFiniteSet(N)
    BY <1>2, FS_Injection
  <1> QED BY <1>1, <1>3 DEF Indexed, NaturalNonces

LEMMA PendingIsRanked ==
    ASSUME NEW p, NEW a
    PROVE  LET index == NonceMap(p, a)
               N == {n \in DOMAIN index : index[n] \in DOMAIN p.txs}
           IN  PendingFrom(p, a) = [i \in 1 .. Cardinality(N) |-> p.txs[index[Ranked(N, i)]]]
  BY DEF PendingFrom, Ranked, Rank

(* pending_from lists the held transactions of the sender, all of them and *)
(* nothing else, by ascending nonce.                                       *)
LEMMA PendingFacts ==
    ASSUME NEW p, Indexed(p), IsFiniteSet(DOMAIN p.txs), NaturalNonces(p),
           NEW a, NEW listed, listed = PendingFrom(p, a)
    PROVE  /\ Len(listed) \in Nat /\ DOMAIN listed = 1 .. Len(listed)
           /\ \A i \in DOMAIN listed :
                 /\ listed[i].from = a
                 /\ TxHash(listed[i]) \in DOMAIN p.txs
                 /\ p.txs[TxHash(listed[i])] = listed[i]
           /\ \A h \in DOMAIN p.txs : p.txs[h].from = a =>
                 \E i \in DOMAIN listed : listed[i] = p.txs[h]
           /\ \A i, j \in DOMAIN listed : i < j => listed[i].nonce < listed[j].nonce
           /\ a \in Senders(p) => 1 \in DOMAIN listed
  <1> DEFINE index == NonceMap(p, a)
             N == DOMAIN index
             c == Cardinality(N)
  <1>1. \A n \in N :
           /\ a \in DOMAIN p.by_sender /\ n \in DOMAIN p.by_sender[a]
           /\ index[n] \in DOMAIN p.txs
           /\ p.txs[index[n]].from = a /\ p.txs[index[n]].nonce = n
           /\ index[n] = TxHash(p.txs[index[n]])
    BY EmptyMapFacts DEF NonceMap, Indexed
  <1>2. N \subseteq Nat /\ IsFiniteSet(N) /\ (a \in DOMAIN p.by_sender => N # {})
    <2>1. CASE a \in DOMAIN p.by_sender
      BY <2>1, NoncesFinite DEF NonceMap
    <2>2. CASE a \notin DOMAIN p.by_sender
      <3>1. N = {}
        BY <1>1, <2>2
      <3> QED BY <2>2, <3>1, FS_EmptySet
    <2> QED BY <2>1, <2>2
  <1>3. listed = [i \in 1 .. c |-> p.txs[index[Ranked(N, i)]]]
    <2>1. {n \in N : index[n] \in DOMAIN p.txs} = N
      BY <1>1
    <2> QED BY <2>1, PendingIsRanked
  <1>4. /\ \A i \in 1 .. c : Ranked(N, i) \in N
        /\ \A n \in N : Rank(N, n) \in 1 .. c /\ Ranked(N, Rank(N, n)) = n
        /\ \A i, j \in 1 .. c : i < j => Ranked(N, i) < Ranked(N, j)
    BY <1>2, RankedFacts
  <1>5. c \in Nat
    BY <1>2, FS_CardinalityType
  <1>6. a \in DOMAIN p.by_sender => c # 0
    BY <1>2, FS_EmptySet
  <1>7. \A h \in DOMAIN p.txs : p.txs[h].from = a =>
           p.txs[h].nonce \in N /\ index[p.txs[h].nonce] = h
    BY DEF Indexed, NonceTaken, NonceMap
  <1> HIDE DEF index, N, c
  <1>8. /\ DOMAIN listed = 1 .. c /\ Len(listed) = c
        /\ \A i \in 1 .. c : listed[i] = p.txs[index[Ranked(N, i)]]
    BY <1>3, <1>5
  <1>9. \A i \in DOMAIN listed :
           /\ listed[i].from = a /\ listed[i].nonce = Ranked(N, i)
           /\ TxHash(listed[i]) \in DOMAIN p.txs
           /\ p.txs[TxHash(listed[i])] = listed[i]
    BY <1>1, <1>4, <1>8
  <1>10. \A h \in DOMAIN p.txs : p.txs[h].from = a =>
            \E i \in DOMAIN listed : listed[i] = p.txs[h]
    <2> SUFFICES ASSUME NEW h \in DOMAIN p.txs, p.txs[h].from = a
                 PROVE  \E i \in DOMAIN listed : listed[i] = p.txs[h]
      OBVIOUS
    <2> DEFINE n == p.txs[h].nonce
    <2>1. n \in N /\ index[n] = h
      BY <1>7
    <2> HIDE DEF n
    <2>2. Rank(N, n) \in 1 .. c /\ Ranked(N, Rank(N, n)) = n
      BY <1>4, <2>1
    <2> QED BY <1>8, <2>1, <2>2
  <1>11. a \in Senders(p) => 1 \in 1 .. c
    BY <1>5, <1>6 DEF Senders
  <1> QED BY <1>4, <1>5, <1>8, <1>9, <1>10, <1>11

-----------------------------------------------------------------------------
(* Accounts.                                                               *)

Account == [balance : 0 .. MaxU64, nonce : Nat]

AccountsOk(accounts) == \A a \in DOMAIN accounts : accounts[a] \in Account

TxOk(tx) == tx.amount \in Nat /\ tx.nonce \in Nat

IsList(s) == Len(s) \in Nat /\ DOMAIN s = 1 .. Len(s)

TxsOk(txs) == IsList(txs) /\ \A i \in 1 .. Len(txs) : TxOk(txs[i])

LEMMA AccountFacts ==
    ASSUME NEW balance \in 0 .. MaxU64, NEW nonce \in Nat, NEW account,
           account = [balance |-> balance, nonce |-> nonce]
    PROVE  account \in Account /\ account.balance = balance /\ account.nonce = nonce
  BY DEF Account

(* Whoever has no entry reads as an account too.                           *)
LEMMA GetFacts ==
    ASSUME NEW accounts, AccountsOk(accounts), NEW a
    PROVE  GetBalance(accounts, a) \in 0 .. MaxU64 /\ GetNonce(accounts, a) \in Nat
  <1>1. CASE a \in DOMAIN accounts
    <2>1. accounts[a] \in Account /\ GetAccount(accounts, a) = accounts[a]
      BY <1>1 DEF AccountsOk, GetAccount
    <2> QED BY <2>1 DEF GetBalance, GetNonce, Account
  <1>2. CASE a \notin DOMAIN accounts
    <2>1. GetAccount(accounts, a) = [balance |-> 0, nonce |-> 0]
      BY <1>2 DEF GetAccount, DefaultAccount
    <2> QED BY <2>1, MaxU64Assumption DEF GetBalance, GetNonce
  <1> QED BY <1>1, <1>2

LEMMA BindAccount ==
    ASSUME NEW accounts, AccountsOk(accounts), NEW a, NEW account \in Account,
           NEW later, later = Bind(accounts, a, account)
    PROVE  /\ AccountsOk(later)
           /\ \A x : GetBalance(later, x)
                        = IF x = a THEN account.balance ELSE GetBalance(accounts, x)
           /\ \A x : GetNonce(later, x)
                        = IF x = a THEN account.nonce ELSE GetNonce(accounts, x)
  <1>1. /\ \A x : x \in DOMAIN later <=> x \in DOMAIN accounts \/ x = a
        /\ later[a] = account
        /\ \A x \in DOMAIN accounts : x # a => later[x] = accounts[x]
    BY BindFacts
  <1>2. \A x : GetAccount(later, x) = IF x = a THEN account ELSE GetAccount(accounts, x)
    BY <1>1 DEF GetAccount
  <1>3. AccountsOk(later)
    BY <1>1 DEF AccountsOk
  <1> QED BY <1>2, <1>3 DEF GetBalance, GetNonce

OneNonceSpent(accounts, tx, later) ==
    /\ GetNonce(later, tx.from) = GetNonce(accounts, tx.from) + 1
    /\ \A x : x # tx.from => GetNonce(later, x) = GetNonce(accounts, x)

(* What a transaction that applies does to the accounts: the amount moves, *)
(* the sender's nonce goes up, no one else's, and no balance leaves u64.   *)
LEMMA ApplyFacts ==
    ASSUME NEW accounts, AccountsOk(accounts), NEW tx, TxOk(tx), TxApplies(accounts, tx),
           NEW later, later = ApplyTransaction(accounts, tx)
    PROVE  /\ AccountsOk(later)
           /\ DOMAIN later = DOMAIN accounts \cup {tx.from, tx.to}
           /\ tx.from = tx.to => \A x : GetBalance(later, x) = GetBalance(accounts, x)
           /\ tx.from # tx.to =>
                 /\ GetBalance(later, tx.from) = GetBalance(accounts, tx.from) - tx.amount
                 /\ GetBalance(later, tx.to) = GetBalance(accounts, tx.to) + tx.amount
                 /\ \A x : x # tx.from /\ x # tx.to =>
                       GetBalance(later, x) = GetBalance(accounts, x)
           /\ OneNonceSpent(accounts, tx, later)
  <1> DEFINE b == GetBalance(accounts, tx.from) - tx.amount
             n == GetNonce(accounts, tx.from) + 1
             debited == Debit(accounts, tx)
             B == GetBalance(debited, tx.to) + tx.amount
             N == GetNonce(debited, tx.to)
  <1>1. /\ GetBalance(accounts, tx.from) \in 0 .. MaxU64
        /\ GetBalance(accounts, tx.to) \in 0 .. MaxU64
        /\ GetNonce(accounts, tx.from) \in Nat
        /\ GetNonce(accounts, tx.to) \in Nat
    BY GetFacts
  <1>2. /\ GetBalance(accounts, tx.from) >= tx.amount /\ tx.amount \in Nat
        /\ tx.from # tx.to => GetBalance(accounts, tx.to) + tx.amount <= MaxU64
    BY DEF TxApplies, TxOk
  <1>3. b \in 0 .. MaxU64 /\ n \in Nat
    BY <1>1, <1>2, MaxU64Assumption
  <1>4. debited = Bind(accounts, tx.from, [balance |-> b, nonce |-> n])
    BY DEF Debit
  <1>5. later = Bind(debited, tx.to, [balance |-> B, nonce |-> N])
    BY DEF ApplyTransaction
  <1> HIDE DEF b, n, debited
  <1>6. [balance |-> b, nonce |-> n] \in Account
    BY <1>3 DEF Account
  <1>7. /\ AccountsOk(debited)
        /\ \A x : GetBalance(debited, x)
                     = IF x = tx.from THEN b ELSE GetBalance(accounts, x)
        /\ \A x : GetNonce(debited, x)
                     = IF x = tx.from THEN n ELSE GetNonce(accounts, x)
    BY <1>4, <1>6, BindAccount
  <1>8. B \in 0 .. MaxU64 /\ N \in Nat
    <2>1. CASE tx.from = tx.to
      BY <1>1, <1>2, <1>3, <1>7, <2>1 DEF b
    <2>2. CASE tx.from # tx.to
      BY <1>1, <1>2, <1>7, <2>2, MaxU64Assumption
    <2> QED BY <2>1, <2>2
  <1>9. B = GetBalance(debited, tx.to) + tx.amount /\ N = GetNonce(debited, tx.to)
    OBVIOUS
  <1> HIDE DEF B, N
  <1>10. [balance |-> B, nonce |-> N] \in Account
    BY <1>8 DEF Account
  <1>11. /\ AccountsOk(later)
         /\ \A x : GetBalance(later, x) = IF x = tx.to THEN B ELSE GetBalance(debited, x)
         /\ \A x : GetNonce(later, x) = IF x = tx.to THEN N ELSE GetNonce(debited, x)
    BY <1>5, <1>7, <1>10, BindAccount
  <1>12. DOMAIN later = DOMAIN accounts \cup {tx.from, tx.to}
    BY <1>4, <1>5 DEF Bind
  <1>13. tx.from = tx.to => B = GetBalance(accounts, tx.from)
    BY <1>1, <1>2, <1>7, <1>9 DEF b
  <1>14. OneNonceSpent(accounts, tx, later)
    BY <1>7, <1>9, <1>11 DEF OneNonceSpent, n
  <1> QED BY <1>7, <1>9, <1>11, <1>12, <1>13, <1>14 DEF b, n

-----------------------------------------------------------------------------
(* Genesis.                                                                *)

Credits == INSTANCE Loops WITH Round <- LAMBDA env, x, e : Credit(x, e[1], e[2])

AllocationsOk(allocations) ==
    IsList(allocations) /\ \A i \in 1 .. Len(allocations) : allocations[i][2] \in Nat

LEMMA CreditFacts ==
    ASSUME NEW accounts, AccountsOk(accounts), IsFiniteSet(DOMAIN accounts),
           NEW a, NEW amount \in Nat, NEW later, later = Credit(accounts, a, amount)
    PROVE  AccountsOk(later) /\ IsFiniteSet(DOMAIN later)
  <1> DEFINE b == (GetBalance(accounts, a) + amount) % (MaxU64 + 1)
             n == GetNonce(accounts, a)
  <1>1. GetBalance(accounts, a) \in Nat /\ n \in Nat
    BY GetFacts, MaxU64Assumption
  <1>2. b \in 0 .. MaxU64
    BY <1>1, MaxU64Assumption
  <1>3. later = Bind(accounts, a, [balance |-> b, nonce |-> n])
    BY DEF Credit
  <1> HIDE DEF b, n
  <1>4. [balance |-> b, nonce |-> n] \in Account
    BY <1>1, <1>2 DEF Account
  <1>5. DOMAIN later = DOMAIN accounts \cup {a}
    BY <1>3 DEF Bind
  <1> QED BY <1>3, <1>4, <1>5, BindAccount, FS_AddElement

LEMMA GenesisAccountsOk ==
    ASSUME NEW allocations, AllocationsOk(allocations)
    PROVE  /\ AccountsOk(GenesisAccounts(allocations))
           /\ IsFiniteSet(DOMAIN GenesisAccounts(allocations))
  <1> DEFINE n == Len(allocations)
             at(i) == Credits!After(0, allocations, EmptyMap, i)
             S == {i \in 0 .. n : AccountsOk(at(i)) /\ IsFiniteSet(DOMAIN at(i))}
  <1>1. GenesisAccounts(allocations) = at(n)
    BY DEF GenesisAccounts, Credits!After, Credits!IsLoop
  <1>2. n \in Nat
    BY DEF AllocationsOk, IsList
  <1>3. 0 \in S
    <2>1. at(0) = EmptyMap
      BY Credits!AfterNone
    <2>2. DOMAIN EmptyMap = {}
      BY DEF EmptyMap
    <2> HIDE DEF at
    <2>3. AccountsOk(at(0)) /\ IsFiniteSet(DOMAIN at(0))
      BY <2>1, <2>2, FS_EmptySet DEF AccountsOk
    <2> QED BY <1>2, <2>3
  <1>4. ASSUME NEW i \in 1 .. n, i - 1 \in S PROVE i \in S
    <2>1. i - 1 \in Nat /\ (i - 1) + 1 = i
      OBVIOUS
    <2>2. at(i) = Credit(at(i - 1), allocations[i][1], allocations[i][2])
      BY <2>1, Credits!AfterNext
    <2> HIDE DEF at
    <2>3. AccountsOk(at(i)) /\ IsFiniteSet(DOMAIN at(i))
      BY <1>4, <2>2, CreditFacts DEF AllocationsOk
    <2> QED BY <2>3
  <1> HIDE DEF S
  <1>5. \A i \in 0 .. n : i \in S
    BY <1>2, <1>3, <1>4, Credits!BoundedInduction
  <1>6. n \in S
    BY <1>2, <1>5
  <1> QED BY <1>1, <1>6 DEF S

-----------------------------------------------------------------------------
(* Running the transactions of a body.                                     *)

RunRound(accounts, run, tx) ==
    IF run.ok /\ TxApplies(run.accounts, tx)
    THEN [ok |-> TRUE, accounts |-> ApplyTransaction(run.accounts, tx)]
    ELSE [ok |-> FALSE, accounts |-> accounts]

Runs == INSTANCE Loops WITH Round <- RunRound

Untouched(accounts) == [ok |-> TRUE, accounts |-> accounts]

RunOf(accounts, txs, i) == Runs!After(accounts, txs, Untouched(accounts), i)

LEMMA RunTxsIsRun ==
    ASSUME NEW accounts, NEW txs
    PROVE  RunTxs(accounts, txs) = RunOf(accounts, txs, Len(txs))
  BY DEF RunTxs, RunOf, Runs!After, Runs!IsLoop, RunRound, Untouched

(* An empty body changes nothing; a body with one more transaction runs as *)
(* the shorter one and then that transaction.                              *)
LEMMA RunNone ==
    ASSUME NEW accounts
    PROVE  BlockApplies(accounts, <<>>) /\ ApplyBlock(accounts, <<>>) = accounts
  <1>1. RunTxs(accounts, <<>>) = Untouched(accounts)
    BY RunTxsIsRun, Runs!AfterNone DEF RunOf
  <1> QED BY <1>1 DEF BlockApplies, ApplyBlock, Untouched

LEMMA RunMore ==
    ASSUME NEW accounts, NEW txs, IsList(txs), NEW tx, NEW longer, IsList(longer),
           Len(longer) = Len(txs) + 1, \A i \in 1 .. Len(txs) : longer[i] = txs[i],
           longer[Len(txs) + 1] = tx
    PROVE  /\ BlockApplies(accounts, longer)
                 <=> /\ BlockApplies(accounts, txs)
                     /\ TxApplies(ApplyBlock(accounts, txs), tx)
           /\ BlockApplies(accounts, longer) =>
                 ApplyBlock(accounts, longer)
                    = ApplyTransaction(ApplyBlock(accounts, txs), tx)
  <1> DEFINE n == Len(txs)
             run == RunTxs(accounts, txs)
             more == RunTxs(accounts, longer)
  <1>1. n \in Nat
    BY DEF IsList
  <1>2. run = RunOf(accounts, longer, n)
    BY <1>1, RunTxsIsRun, Runs!AfterPrefix DEF RunOf
  <1>3. more = RunOf(accounts, longer, n + 1)
    BY RunTxsIsRun
  <1>4. more = RunRound(accounts, run, tx)
    BY <1>1, <1>2, <1>3, Runs!AfterNext DEF RunOf
  <1> HIDE DEF run, more
  <1>5. /\ more.ok <=> run.ok /\ TxApplies(run.accounts, tx)
        /\ more.ok => more.accounts = ApplyTransaction(run.accounts, tx)
    BY <1>4 DEF RunRound
  <1> QED BY <1>5 DEF run, more, BlockApplies, ApplyBlock

(* Whatever a body is, proper accounts are left; by one that does not apply*)
(* they are left as they were.                                             *)
RunOk(accounts, run) ==
    /\ AccountsOk(run.accounts)
    /\ IsFiniteSet(DOMAIN run.accounts)
    /\ run.ok \/ run.accounts = accounts

LEMMA RunStepOk ==
    ASSUME NEW accounts, NEW old, AccountsOk(old.accounts), IsFiniteSet(DOMAIN old.accounts),
           NEW tx, TxOk(tx), TxApplies(old.accounts, tx),
           NEW new, new.ok, new.accounts = ApplyTransaction(old.accounts, tx)
    PROVE  RunOk(accounts, new)
  <1>1. /\ AccountsOk(new.accounts)
        /\ DOMAIN new.accounts = DOMAIN old.accounts \cup {tx.from, tx.to}
    BY ApplyFacts
  <1>2. IsFiniteSet((DOMAIN old.accounts \cup {tx.from}) \cup {tx.to})
    BY FS_AddElement
  <1>3. DOMAIN new.accounts = (DOMAIN old.accounts \cup {tx.from}) \cup {tx.to}
    BY <1>1
  <1>4. IsFiniteSet(DOMAIN new.accounts)
    BY <1>2, <1>3
  <1> QED BY <1>1, <1>4 DEF RunOk

LEMMA RunKeepsAccounts ==
    ASSUME NEW accounts, AccountsOk(accounts), IsFiniteSet(DOMAIN accounts),
           NEW txs, TxsOk(txs)
    PROVE  /\ AccountsOk(ApplyBlock(accounts, txs))
           /\ IsFiniteSet(DOMAIN ApplyBlock(accounts, txs))
           /\ ~BlockApplies(accounts, txs) => ApplyBlock(accounts, txs) = accounts
  <1> DEFINE n == Len(txs)
             at(i) == RunOf(accounts, txs, i)
             S == {i \in 0 .. n : RunOk(accounts, at(i))}
  <1>1. n \in Nat
    BY DEF TxsOk, IsList
  <1>2. 0 \in S
    <2>1. at(0) = Untouched(accounts)
      BY Runs!AfterNone DEF RunOf
    <2> HIDE DEF at
    <2>2. at(0).ok /\ at(0).accounts = accounts
      BY <2>1 DEF Untouched
    <2>3. RunOk(accounts, at(0))
      BY <2>2 DEF RunOk
    <2> QED BY <1>1, <2>3
  <1>3. ASSUME NEW i \in 1 .. n, i - 1 \in S PROVE i \in S
    <2> DEFINE old == at(i - 1)
               new == at(i)
    <2>1. i - 1 \in Nat /\ (i - 1) + 1 = i
      OBVIOUS
    <2>2. new = RunRound(accounts, old, txs[i])
      BY <2>1, Runs!AfterNext DEF RunOf
    <2>3. AccountsOk(old.accounts) /\ IsFiniteSet(DOMAIN old.accounts)
      BY <1>3 DEF RunOk
    <2> HIDE DEF at, old
    <2>4. CASE old.ok /\ TxApplies(old.accounts, txs[i])
      <3>1. new.ok /\ new.accounts = ApplyTransaction(old.accounts, txs[i])
        BY <2>2, <2>4 DEF RunRound
      <3>2. RunOk(accounts, new)
        BY <2>3, <2>4, <3>1, RunStepOk DEF TxsOk
      <3> QED BY <3>2
    <2>5. CASE ~(old.ok /\ TxApplies(old.accounts, txs[i]))
      <3>1. new.accounts = accounts
        BY <2>2, <2>5 DEF RunRound
      <3>2. RunOk(accounts, new)
        BY <3>1 DEF RunOk
      <3> QED BY <3>2
    <2> QED BY <2>4, <2>5
  <1> HIDE DEF S
  <1>4. \A i \in 0 .. n : i \in S
    BY <1>1, <1>2, <1>3, Runs!BoundedInduction
  <1>5. n \in S /\ RunTxs(accounts, txs) = at(n)
    BY <1>1, <1>4, RunTxsIsRun
  <1>6. RunOk(accounts, RunTxs(accounts, txs))
    BY <1>5 DEF S
  <1> QED BY <1>6 DEF RunOk, BlockApplies, ApplyBlock

-----------------------------------------------------------------------------
(* Building a block.                                                       *)

(* What the walk has picked up so far: a body within the cap that applies, *)
(* of held transactions, each sender's by ascending nonce and without a    *)
(* gap; and the shadow is the state after it.                              *)
IsAcc(acc) ==
    acc = [shadow |-> acc.shadow, selected |-> acc.selected, stuck |-> acc.stuck]

IsSeqOf(s, S) == s \in Seq(S)

Grown(t, s, e) == t = Append(s, e)

BodyOk(pool, accounts, max_txs, body) ==
    /\ IsSeqOf(body, Range(pool.txs))
    /\ Len(body) <= max_txs
    /\ BlockApplies(accounts, body)
    /\ \A i, j \in 1 .. Len(body) :
          i < j /\ body[i].from = body[j].from => body[i].nonce < body[j].nonce
    /\ \A i \in 1 .. Len(body) : \A tx \in Range(pool.txs) :
          tx.from = body[i].from /\ tx.nonce < body[i].nonce =>
             \E j \in 1 .. Len(body) : body[j] = tx

Picked(pool, accounts, max_txs, acc) ==
    /\ IsAcc(acc)
    /\ BodyOk(pool, accounts, max_txs, acc.selected)
    /\ acc.shadow = ApplyBlock(accounts, acc.selected)

(* One transaction is passed over, or it is appended and runs.             *)
LEMMA ConsiderCases ==
    ASSUME NEW acc, IsAcc(acc), NEW tx, NEW max_txs, NEW new,
           new = Consider(acc, tx, max_txs)
    PROVE  /\ IsAcc(new)
           /\ \/ /\ new.selected = acc.selected /\ new.shadow = acc.shadow
                 /\ new.stuck \/ Len(new.selected) >= max_txs
                 /\ acc.stuck \/ Len(acc.selected) >= max_txs
                       \/ ~TxApplies(acc.shadow, tx)
              \/ /\ ~acc.stuck /\ ~new.stuck
                 /\ ~(Len(acc.selected) >= max_txs)
                 /\ TxApplies(acc.shadow, tx)
                 /\ Grown(new.selected, acc.selected, tx)
                 /\ new.shadow = ApplyTransaction(acc.shadow, tx)
  <1>1. CASE acc.stuck \/ Len(acc.selected) >= max_txs
    <2>1. new = acc
      BY <1>1 DEF Consider
    <2> QED BY <1>1, <2>1
  <1>2. CASE ~(acc.stuck \/ Len(acc.selected) >= max_txs) /\ ~TxApplies(acc.shadow, tx)
    <2>1. new = [acc EXCEPT !.stuck = TRUE]
      BY <1>2 DEF Consider
    <2>2. acc = [shadow |-> acc.shadow, selected |-> acc.selected, stuck |-> acc.stuck]
      BY DEF IsAcc
    <2>3. new = [shadow |-> acc.shadow, selected |-> acc.selected, stuck |-> TRUE]
      BY <2>1, <2>2
    <2> QED BY <1>2, <2>3 DEF IsAcc
  <1>3. CASE ~(acc.stuck \/ Len(acc.selected) >= max_txs) /\ TxApplies(acc.shadow, tx)
    <2>1. new = [shadow   |-> ApplyTransaction(acc.shadow, tx),
                 selected |-> Append(acc.selected, tx),
                 stuck    |-> FALSE]
      BY <1>3 DEF Consider
    <2> QED BY <1>3, <2>1 DEF IsAcc, Grown
  <1> QED BY <1>1, <1>2, <1>3

(* A list that has grown by one element at its end.                        *)
LEMMA AppendFacts ==
    ASSUME NEW S, NEW s, IsSeqOf(s, S), NEW e \in S, NEW t, Grown(t, s, e)
    PROVE  /\ IsSeqOf(t, S) /\ IsList(s) /\ IsList(t) /\ Len(t) = Len(s) + 1
           /\ \A i \in 1 .. Len(s) : t[i] = s[i]
           /\ t[Len(s) + 1] = e
  <1>0. s \in Seq(S) /\ t = Append(s, e)
    BY DEF IsSeqOf, Grown
  <1>1. t \in Seq(S) /\ Len(t) = Len(s) + 1
    BY <1>0
  <1>2. \A i \in 1 .. Len(s) : t[i] = s[i]
    BY <1>0
  <1>3. t[Len(s) + 1] = e
    BY <1>0
  <1>4. IsList(s) /\ IsList(t)
    BY <1>0, <1>1 DEF IsList
  <1>5. IsSeqOf(t, S)
    BY <1>1 DEF IsSeqOf
  <1> QED BY <1>1, <1>2, <1>3, <1>4, <1>5

(* What a body may grow by: the next held transaction of its sender, one   *)
(* that applies after it.                                                  *)
Due(pool, body, tx) ==
    /\ \A i \in 1 .. Len(body) : body[i].from = tx.from => body[i].nonce < tx.nonce
    /\ \A t \in Range(pool.txs) : t.from = tx.from /\ t.nonce < tx.nonce =>
          \E j \in 1 .. Len(body) : body[j] = t

LEMMA BodyGrows ==
    ASSUME NEW pool, NEW accounts, NEW max_txs \in Nat, NEW body,
           BodyOk(pool, accounts, max_txs, body), ~(Len(body) >= max_txs),
           NEW tx \in Range(pool.txs), TxApplies(ApplyBlock(accounts, body), tx),
           Due(pool, body, tx), NEW longer, Grown(longer, body, tx)
    PROVE  /\ BodyOk(pool, accounts, max_txs, longer)
           /\ ApplyBlock(accounts, longer)
                 = ApplyTransaction(ApplyBlock(accounts, body), tx)
  <1> DEFINE n == Len(body)
  <1>0. IsSeqOf(body, Range(pool.txs))
    BY DEF BodyOk
  <1>1. /\ IsSeqOf(longer, Range(pool.txs)) /\ IsList(body) /\ IsList(longer)
        /\ Len(longer) = n + 1
        /\ \A i \in 1 .. n : longer[i] = body[i]
        /\ longer[n + 1] = tx
    BY <1>0, AppendFacts
  <1>2. n \in Nat
    BY <1>1 DEF IsList
  <1> HIDE DEF n
  <1>3. n + 1 <= max_txs
    BY <1>2 DEF n
  <1>4. /\ BlockApplies(accounts, longer)
        /\ ApplyBlock(accounts, longer)
              = ApplyTransaction(ApplyBlock(accounts, body), tx)
    BY <1>1, RunMore DEF BodyOk, n
  <1>5. ASSUME NEW i \in 1 .. Len(longer), NEW j \in 1 .. Len(longer),
               i < j, longer[i].from = longer[j].from
        PROVE  longer[i].nonce < longer[j].nonce
    <2>1. i \in 1 .. n
      BY <1>1, <1>2, <1>5
    <2>2. CASE j \in 1 .. n
      BY <1>1, <1>5, <2>1, <2>2 DEF BodyOk, n
    <2>3. CASE j = n + 1
      BY <1>1, <1>5, <2>1, <2>3 DEF Due, n
    <2> QED BY <1>1, <1>2, <2>2, <2>3
  <1>6. ASSUME NEW i \in 1 .. Len(longer), NEW t \in Range(pool.txs),
               t.from = longer[i].from, t.nonce < longer[i].nonce
        PROVE  \E j \in 1 .. Len(longer) : longer[j] = t
    <2>1. \E j \in 1 .. n : body[j] = t
      <3>1. CASE i \in 1 .. n
        BY <1>1, <1>6, <3>1 DEF BodyOk, n
      <3>2. CASE i = n + 1
        BY <1>1, <1>6, <3>2 DEF Due, n
      <3> QED BY <1>1, <1>2, <3>1, <3>2
    <2>2. PICK j \in 1 .. n : body[j] = t
      BY <2>1
    <2>3. j \in 1 .. Len(longer) /\ longer[j] = t
      BY <1>1, <1>2, <2>2
    <2> QED BY <2>3
  <1> QED BY <1>1, <1>3, <1>4, <1>5, <1>6 DEF BodyOk

(* How far the walk of one sender is: whose transactions it has taken, and *)
(* that it takes them in the order they are listed in, from the first on.  *)
Walked(accounts, max_txs, owners, before, a, listed, r, acc) ==
    /\ Len(acc.selected) >= before
    /\ \A i \in 1 .. Len(acc.selected) :
          /\ acc.selected[i].from \in owners \cup {a}
          /\ acc.selected[i].from = a =>
                \E k \in 1 .. r : acc.selected[i] = listed[k]
    /\ ~acc.stuck /\ ~(Len(acc.selected) >= max_txs) =>
          \A k \in 1 .. r : \E i \in 1 .. Len(acc.selected) : acc.selected[i] = listed[k]
    /\ r >= 1 /\ Len(acc.selected) = 0 => ~TxApplies(accounts, listed[1])

LEMMA ConsiderKeepsWalk ==
    ASSUME NEW pool, Indexed(pool), IsFiniteSet(DOMAIN pool.txs), NaturalNonces(pool),
           NEW accounts, NEW max_txs \in Nat \ {0}, NEW owners, NEW before \in Nat,
           NEW a, NEW listed, listed = PendingFrom(pool, a),
           NEW r \in 1 .. Len(listed), NEW acc, Picked(pool, accounts, max_txs, acc),
           Walked(accounts, max_txs, owners, before, a, listed, r - 1, acc),
           r = 1 => ~acc.stuck,
           NEW new, new = Consider(acc, listed[r], max_txs)
    PROVE  /\ Picked(pool, accounts, max_txs, new)
           /\ Walked(accounts, max_txs, owners, before, a, listed, r, new)
  <1> DEFINE tx == listed[r]
             body == acc.selected
  <1>1. /\ Len(listed) \in Nat /\ DOMAIN listed = 1 .. Len(listed)
        /\ \A i \in DOMAIN listed :
              /\ listed[i].from = a
              /\ TxHash(listed[i]) \in DOMAIN pool.txs
              /\ pool.txs[TxHash(listed[i])] = listed[i]
        /\ \A h \in DOMAIN pool.txs : pool.txs[h].from = a =>
              \E i \in DOMAIN listed : listed[i] = pool.txs[h]
        /\ \A i, j \in DOMAIN listed : i < j => listed[i].nonce < listed[j].nonce
    BY PendingFacts
  <1>2. IsSeqOf(body, Range(pool.txs)) /\ body \in Seq(Range(pool.txs)) /\ Len(body) \in Nat
    BY DEF Picked, BodyOk, IsSeqOf
  <1>3. \A i \in 1 .. Len(listed) : listed[i].nonce \in Nat
    BY <1>1 DEF NaturalNonces
  <1>4. /\ tx \in Range(pool.txs) /\ tx.from = a
    BY <1>1 DEF Range
  <1>5. /\ IsAcc(new)
        /\ \/ /\ new.selected = acc.selected /\ new.shadow = acc.shadow
              /\ new.stuck \/ Len(new.selected) >= max_txs
              /\ acc.stuck \/ Len(acc.selected) >= max_txs
                    \/ ~TxApplies(acc.shadow, tx)
           \/ /\ ~acc.stuck /\ ~new.stuck
              /\ ~(Len(acc.selected) >= max_txs)
              /\ TxApplies(acc.shadow, tx)
              /\ Grown(new.selected, acc.selected, tx)
              /\ new.shadow = ApplyTransaction(acc.shadow, tx)
    BY ConsiderCases DEF Picked
  <1>6. 1 .. r - 1 \subseteq 1 .. r /\ \A k \in 1 .. r : k = r \/ k \in 1 .. r - 1
    OBVIOUS
  <1> HIDE DEF tx
  <1>7. CASE /\ new.selected = acc.selected /\ new.shadow = acc.shadow
             /\ new.stuck \/ Len(new.selected) >= max_txs
             /\ acc.stuck \/ Len(acc.selected) >= max_txs
                   \/ ~TxApplies(acc.shadow, tx)
    <2>1. Picked(pool, accounts, max_txs, new)
      BY <1>5, <1>7 DEF Picked
    <2>2. Len(new.selected) = 0 => ~TxApplies(accounts, listed[1])
      <3>1. CASE r = 1
        <4> SUFFICES ASSUME Len(body) = 0 PROVE ~TxApplies(accounts, listed[1])
          BY <1>7
        <4>1. body = <<>>
          BY <1>2
        <4>2. acc.shadow = accounts
          BY <4>1, RunNone DEF Picked
        <4>3. ~acc.stuck /\ ~(Len(acc.selected) >= max_txs)
          BY <3>1
        <4>4. ~TxApplies(acc.shadow, tx)
          BY <1>7, <4>3
        <4> QED BY <3>1, <4>2, <4>4 DEF tx
      <3>2. CASE r # 1
        <4>1. r - 1 >= 1
          BY <3>2
        <4> QED BY <1>7, <4>1 DEF Walked
      <3> QED BY <3>1, <3>2
    <2>3. Walked(accounts, max_txs, owners, before, a, listed, r, new)
      BY <1>6, <1>7, <2>2 DEF Walked
    <2> QED BY <2>1, <2>3
  <1>8. CASE /\ ~acc.stuck /\ ~new.stuck
             /\ ~(Len(acc.selected) >= max_txs)
             /\ TxApplies(acc.shadow, tx)
             /\ Grown(new.selected, acc.selected, tx)
             /\ new.shadow = ApplyTransaction(acc.shadow, tx)
    <2>1. \A i \in 1 .. Len(body) : body[i].from = tx.from => body[i].nonce < tx.nonce
      <3> SUFFICES ASSUME NEW i \in 1 .. Len(body), body[i].from = tx.from
                   PROVE  body[i].nonce < tx.nonce
        OBVIOUS
      <3>1. PICK k \in 1 .. r - 1 : body[i] = listed[k]
        BY <1>4 DEF Walked
      <3>2. k \in DOMAIN listed /\ r \in DOMAIN listed /\ k < r
        BY <1>1, <3>1
      <3> QED BY <1>1, <3>1, <3>2 DEF tx
    <2>2. ASSUME NEW t \in Range(pool.txs), t.from = tx.from, t.nonce < tx.nonce
          PROVE  \E j \in 1 .. Len(body) : body[j] = t
      <3>1. PICK h \in DOMAIN pool.txs : t = pool.txs[h]
        BY DEF Range
      <3>2. PICK k \in DOMAIN listed : listed[k] = t
        BY <1>1, <1>4, <2>2, <3>1
      <3>3. k \in 1 .. Len(listed) /\ r \in DOMAIN listed
        BY <1>1
      <3>4. ~(k = r) /\ ~(r < k)
        <4>1. listed[k].nonce \in Nat /\ listed[r].nonce \in Nat
          BY <1>3, <3>3
        <4>2. listed[k].nonce < listed[r].nonce
          BY <2>2, <3>2 DEF tx
        <4>3. r < k => listed[r].nonce < listed[k].nonce
          BY <1>1, <3>3
        <4> QED BY <4>1, <4>2, <4>3
      <3>5. k \in 1 .. r - 1
        BY <3>3, <3>4
      <3> QED BY <1>8, <3>2, <3>5 DEF Walked
    <2>3. /\ BodyOk(pool, accounts, max_txs, new.selected)
          /\ ApplyBlock(accounts, new.selected)
                = ApplyTransaction(ApplyBlock(accounts, body), tx)
      <3>1. /\ BodyOk(pool, accounts, max_txs, body) /\ max_txs \in Nat
            /\ acc.shadow = ApplyBlock(accounts, body)
        BY DEF Picked
      <3>2. /\ ~(Len(body) >= max_txs) /\ TxApplies(ApplyBlock(accounts, body), tx)
            /\ Grown(new.selected, body, tx)
        BY <1>8, <3>1
      <3>3. Due(pool, body, tx)
        BY <2>1, <2>2 DEF Due
      <3>4. tx \in Range(pool.txs)
        BY <1>4
      <3> HIDE DEF body
      <3> QED BY <3>1, <3>2, <3>3, <3>4, BodyGrows
    <2>4. Picked(pool, accounts, max_txs, new)
      BY <1>5, <1>8, <2>3 DEF Picked
    <2>5. /\ Len(new.selected) = Len(body) + 1
          /\ \A i \in 1 .. Len(body) : new.selected[i] = body[i]
          /\ new.selected[Len(body) + 1] = tx
      BY <1>2, <1>4, <1>8, AppendFacts
    <2>6. ASSUME NEW i \in 1 .. Len(new.selected)
          PROVE  /\ new.selected[i].from \in owners \cup {a}
                 /\ new.selected[i].from = a =>
                       \E k \in 1 .. r : new.selected[i] = listed[k]
      <3>1. CASE i \in 1 .. Len(body)
        <4>1. new.selected[i] = body[i]
          BY <2>5, <3>1
        <4>2. /\ body[i].from \in owners \cup {a}
              /\ body[i].from = a => \E k \in 1 .. r - 1 : body[i] = listed[k]
          BY <3>1 DEF Walked
        <4> HIDE DEF body
        <4> QED BY <1>6, <4>1, <4>2
      <3>2. CASE i = Len(body) + 1
        BY <1>4, <2>5, <3>2 DEF tx
      <3> QED BY <1>2, <2>5, <3>1, <3>2
    <2>7. ASSUME NEW k \in 1 .. r
          PROVE  \E i \in 1 .. Len(new.selected) : new.selected[i] = listed[k]
      <3>1. CASE k = r
        <4>1. Len(body) + 1 \in 1 .. Len(new.selected)
          BY <1>2, <2>5
        <4> QED BY <2>5, <3>1, <4>1 DEF tx
      <3>2. CASE k \in 1 .. r - 1
        <4>1. PICK i \in 1 .. Len(body) : body[i] = listed[k]
          BY <1>8, <3>2 DEF Walked
        <4>2. i \in 1 .. Len(new.selected)
          BY <1>2, <2>5
        <4> QED BY <2>5, <4>1, <4>2
      <3> QED BY <1>6, <3>1, <3>2
    <2>8. Len(new.selected) >= before /\ Len(new.selected) # 0
      BY <1>2, <2>5 DEF Walked
    <2>9. Walked(accounts, max_txs, owners, before, a, listed, r, new)
      BY <2>6, <2>7, <2>8 DEF Walked
    <2> QED BY <2>4, <2>9
  <1> QED BY <1>5, <1>7, <1>8 DEF tx

(* The loops of the builder, over the transactions of one sender and over  *)
(* the senders.                                                            *)
Steps == INSTANCE Loops WITH Round <- LAMBDA max_txs, acc, tx : Consider(acc, tx, max_txs)

Unstuck(acc) == [acc EXCEPT !.stuck = FALSE]

LEMMA UnstuckFacts ==
    ASSUME NEW acc, IsAcc(acc), NEW start, start = Unstuck(acc)
    PROVE  /\ IsAcc(start) /\ ~start.stuck
           /\ start.shadow = acc.shadow /\ start.selected = acc.selected
  <1>1. acc = [shadow |-> acc.shadow, selected |-> acc.selected, stuck |-> acc.stuck]
    BY DEF IsAcc
  <1>2. start = [shadow |-> acc.shadow, selected |-> acc.selected, stuck |-> FALSE]
    BY <1>1 DEF Unstuck
  <1> QED BY <1>2 DEF IsAcc

LEMMA PackSenderIsLoop ==
    ASSUME NEW acc, NEW txs, NEW max_txs
    PROVE  PackSender(acc, txs, max_txs) = Steps!After(max_txs, txs, Unstuck(acc), Len(txs))
  BY DEF PackSender, Steps!After, Steps!IsLoop, Unstuck

FromOnly(body, owners) == \A i \in 1 .. Len(body) : body[i].from \in owners

WalkOk(pool, accounts, max_txs, owners, before, a, listed, r, acc) ==
    /\ Picked(pool, accounts, max_txs, acc)
    /\ Walked(accounts, max_txs, owners, before, a, listed, r, acc)
    /\ r = 0 => ~acc.stuck

LEMMA PackSenderPicks ==
    ASSUME NEW pool, Indexed(pool), IsFiniteSet(DOMAIN pool.txs), NaturalNonces(pool),
           NEW accounts, NEW max_txs \in Nat \ {0}, NEW owners, NEW a, a \notin owners,
           NEW listed, listed = PendingFrom(pool, a),
           NEW acc, Picked(pool, accounts, max_txs, acc),
           FromOnly(acc.selected, owners),
           NEW new, new = PackSender(acc, listed, max_txs)
    PROVE  /\ Picked(pool, accounts, max_txs, new)
           /\ Len(new.selected) >= Len(acc.selected)
           /\ FromOnly(new.selected, owners \cup {a})
           /\ a \in Senders(pool) /\ Len(new.selected) = 0 =>
                 ~TxApplies(accounts, listed[1])
  <1> DEFINE n == Len(listed)
             before == Len(acc.selected)
             at(r) == Steps!After(max_txs, listed, Unstuck(acc), r)
             S == {r \in 0 .. n :
                     WalkOk(pool, accounts, max_txs, owners, before, a, listed, r, at(r))}
  <1>1. n \in Nat /\ DOMAIN listed = 1 .. n /\ (a \in Senders(pool) => 1 \in DOMAIN listed)
    BY PendingFacts
  <1>2. before \in Nat
    BY DEF Picked, BodyOk, IsSeqOf
  <1>3. 0 \in S
    <2> DEFINE start == Unstuck(acc)
    <2>1. at(0) = start
      BY Steps!AfterNone
    <2>4. IsAcc(start) /\ start.shadow = acc.shadow /\ start.selected = acc.selected
             /\ ~start.stuck
      BY UnstuckFacts DEF Picked
    <2> HIDE DEF start
    <2>5. Picked(pool, accounts, max_txs, start)
      BY <2>4 DEF Picked
    <2>6. Walked(accounts, max_txs, owners, before, a, listed, 0, start)
      BY <1>2, <2>4 DEF Walked, FromOnly
    <2>7. WalkOk(pool, accounts, max_txs, owners, before, a, listed, 0, start)
      BY <2>4, <2>5, <2>6 DEF WalkOk
    <2> HIDE DEF at
    <2> QED BY <1>1, <2>1, <2>7
  <1>4. ASSUME NEW r \in 1 .. n, r - 1 \in S PROVE r \in S
    <2> DEFINE old == at(r - 1)
               next == at(r)
    <2>1. r - 1 \in Nat /\ (r - 1) + 1 = r
      OBVIOUS
    <2>2. next = Consider(old, listed[r], max_txs)
      BY <2>1, Steps!AfterNext
    <2> HIDE DEF at, before
    <2>3. WalkOk(pool, accounts, max_txs, owners, before, a, listed, r - 1, old)
      BY <1>4
    <2> HIDE DEF old, next
    <2>4. /\ Picked(pool, accounts, max_txs, old)
          /\ Walked(accounts, max_txs, owners, before, a, listed, r - 1, old)
          /\ r = 1 => ~old.stuck
      BY <2>3 DEF WalkOk
    <2>5. /\ Picked(pool, accounts, max_txs, next)
          /\ Walked(accounts, max_txs, owners, before, a, listed, r, next)
      BY <1>2, <2>2, <2>4, ConsiderKeepsWalk
    <2>6. WalkOk(pool, accounts, max_txs, owners, before, a, listed, r, next)
      BY <2>5 DEF WalkOk
    <2> QED BY <2>6 DEF next
  <1> HIDE DEF S
  <1>5. \A r \in 0 .. n : r \in S
    BY <1>1, <1>3, <1>4, Steps!BoundedInduction
  <1>6. new = at(n)
    BY PackSenderIsLoop
  <1>7. WalkOk(pool, accounts, max_txs, owners, before, a, listed, n, new)
    BY <1>1, <1>5, <1>6 DEF S
  <1>8. /\ Picked(pool, accounts, max_txs, new)
        /\ Walked(accounts, max_txs, owners, before, a, listed, n, new)
    BY <1>7 DEF WalkOk
  <1> QED BY <1>1, <1>8 DEF Walked, FromOnly

Sweep == INSTANCE Loops WITH
    Round <- LAMBDA env, acc, a : PackSender(acc, PendingFrom(env[1], a), env[2])

FreshAcc(accounts) == [shadow |-> accounts, selected |-> <<>>, stuck |-> FALSE]

LEMMA PackIsLoop ==
    ASSUME NEW pool, NEW accounts, NEW senders, NEW max_txs
    PROVE  Pack(pool, accounts, senders, max_txs)
              = Sweep!After(<<pool, max_txs>>, senders, FreshAcc(accounts), Len(senders)).selected
  BY DEF Pack, Sweep!After, Sweep!IsLoop, FreshAcc

Swept(pool, accounts, max_txs, senders, s, acc) ==
    /\ Picked(pool, accounts, max_txs, acc)
    /\ \A i \in 1 .. Len(acc.selected) : \E k \in 1 .. s : acc.selected[i].from = senders[k]
    /\ Len(acc.selected) = 0 =>
          \A k \in 1 .. s : ~TxApplies(accounts, PendingFrom(pool, senders[k])[1])

(* Whatever order the senders come in.                                     *)
LEMMA PackPicks ==
    ASSUME NEW pool, Indexed(pool), IsFiniteSet(DOMAIN pool.txs), NaturalNonces(pool),
           NEW accounts, NEW max_txs \in Nat \ {0}, NEW n \in Nat,
           NEW senders \in [1 .. n -> Senders(pool)],
           \A i, j \in 1 .. n : i # j => senders[i] # senders[j],
           NEW body, body = Pack(pool, accounts, senders, max_txs)
    PROVE  /\ BodyOk(pool, accounts, max_txs, body)
           /\ Len(body) = 0 =>
                 \A k \in 1 .. n : ~TxApplies(accounts, PendingFrom(pool, senders[k])[1])
  <1> DEFINE at(s) == Sweep!After(<<pool, max_txs>>, senders, FreshAcc(accounts), s)
             S == {s \in 0 .. n : Swept(pool, accounts, max_txs, senders, s, at(s))}
  <1>1. 0 \in S
    <2> DEFINE start == FreshAcc(accounts)
    <2>1. at(0) = start
      BY Sweep!AfterNone
    <2>2. /\ IsAcc(start) /\ start.selected = <<>> /\ start.shadow = accounts
      BY DEF FreshAcc, IsAcc
    <2> HIDE DEF start
    <2>3. BodyOk(pool, accounts, max_txs, <<>>)
      <3>1. IsSeqOf(<<>>, Range(pool.txs)) /\ Len(<<>>) = 0
        BY DEF IsSeqOf
      <3> QED BY <3>1, RunNone DEF BodyOk
    <2>4. Picked(pool, accounts, max_txs, start)
      BY <2>2, <2>3, RunNone DEF Picked
    <2>5. Len(start.selected) = 0
      BY <2>2
    <2>6. Swept(pool, accounts, max_txs, senders, 0, start)
      BY <2>4, <2>5 DEF Swept
    <2> HIDE DEF at
    <2> QED BY <2>1, <2>6
  <1>2. ASSUME NEW s \in 1 .. n, s - 1 \in S PROVE s \in S
    <2> DEFINE old == at(s - 1)
               next == at(s)
               a == senders[s]
               owners == {senders[k] : k \in 1 .. s - 1}
               listed == PendingFrom(pool, a)
    <2>1. s - 1 \in Nat /\ (s - 1) + 1 = s
      OBVIOUS
    <2>2. next = PackSender(old, listed, max_txs)
      BY <2>1, Sweep!AfterNext
    <2> HIDE DEF at
    <2>3. Swept(pool, accounts, max_txs, senders, s - 1, old)
      BY <1>2
    <2> HIDE DEF old, next
    <2>4. FromOnly(old.selected, owners)
      BY <2>3 DEF Swept, FromOnly
    <2>5. a \notin owners /\ a \in Senders(pool)
      OBVIOUS
    <2>6. Picked(pool, accounts, max_txs, old)
      BY <2>3 DEF Swept
    <2>7. listed = PendingFrom(pool, a)
      OBVIOUS
    <2>8. \A x \in owners \cup {a} : \E k \in 1 .. s : x = senders[k]
      <3>1. 1 .. s - 1 \subseteq 1 .. s /\ s \in 1 .. s
        OBVIOUS
      <3> QED BY <3>1
    <2> HIDE DEF owners, a, listed
    <2>9. /\ Picked(pool, accounts, max_txs, next)
          /\ Len(next.selected) >= Len(old.selected)
          /\ FromOnly(next.selected, owners \cup {a})
          /\ a \in Senders(pool) /\ Len(next.selected) = 0 =>
                ~TxApplies(accounts, listed[1])
      BY <2>2, <2>4, <2>5, <2>6, <2>7, PackSenderPicks
    <2>10. ASSUME Len(next.selected) = 0, NEW k \in 1 .. s
           PROVE  ~TxApplies(accounts, PendingFrom(pool, senders[k])[1])
      <3>1. CASE k = s
        BY <2>5, <2>9, <2>10, <3>1 DEF a, listed
      <3>2. CASE k # s
        <4>1. k \in 1 .. s - 1
          BY <3>2
        <4>2. Len(old.selected) \in Nat
          BY <2>6 DEF Picked, BodyOk, IsSeqOf
        <4>3. Len(old.selected) = 0
          BY <2>9, <2>10, <4>2
        <4> QED BY <2>3, <4>1, <4>3 DEF Swept
      <3> QED BY <3>1, <3>2
    <2>11. Swept(pool, accounts, max_txs, senders, s, next)
      BY <2>8, <2>9, <2>10 DEF Swept, FromOnly
    <2> QED BY <2>11 DEF next
  <1> HIDE DEF S
  <1>3. n \in S
    <2>1. \A s \in 0 .. n : s \in S
      BY <1>1, <1>2, Sweep!BoundedInduction
    <2>2. n \in 0 .. n
      OBVIOUS
    <2> QED BY <2>1, <2>2
  <1>4. Len(senders) = n
    OBVIOUS
  <1>5. body = at(n).selected
    BY <1>4, PackIsLoop
  <1>6. Swept(pool, accounts, max_txs, senders, n, at(n))
    BY <1>3 DEF S
  <1> QED BY <1>5, <1>6 DEF Swept, Picked

LEMMA SendersFinite ==
    ASSUME NEW pool, Indexed(pool), IsFiniteSet(DOMAIN pool.txs)
    PROVE  IsFiniteSet(Senders(pool))
  <1> DEFINE some(a) == CHOOSE n \in DOMAIN pool.by_sender[a] : TRUE
             f == [a \in Senders(pool) |-> pool.by_sender[a][some(a)]]
  <1>1. \A a \in Senders(pool) : f[a] \in DOMAIN pool.txs /\ pool.txs[f[a]].from = a
    BY DEF Indexed, Senders
  <1>2. f \in [Senders(pool) -> DOMAIN pool.txs]
    BY <1>1
  <1>3. DOMAIN f = Senders(pool)
    OBVIOUS
  <1> HIDE DEF f
  <1>4. f \in Injection(Senders(pool), DOMAIN pool.txs)
    BY <1>1, <1>2, <1>3 DEF Injection, IsInjective
  <1> QED BY <1>4, FS_Injection

(* What build_block may select: a body that applies to the state, within   *)
(* the cap, of held transactions, of each sender the next ones in order;   *)
(* and an empty one only when no sender's next transaction applies.        *)
LEMMA SelectionFacts ==
    ASSUME NEW pool, Indexed(pool), IsFiniteSet(DOMAIN pool.txs), NaturalNonces(pool),
           NEW accounts, NEW max_txs \in Nat \ {0},
           NEW body \in Selections(pool, accounts, max_txs)
    PROVE  /\ BodyOk(pool, accounts, max_txs, body)
           /\ Len(body) = 0 =>
                 \A a \in Senders(pool) : ~TxApplies(accounts, PendingFrom(pool, a)[1])
  <1> DEFINE n == Cardinality(Senders(pool))
  <1>1. PICK senders \in [1 .. n -> Senders(pool)] :
              /\ \A i, j \in 1 .. n : i # j => senders[i] # senders[j]
              /\ \A a \in Senders(pool) : \E i \in 1 .. n : senders[i] = a
              /\ body = Pack(pool, accounts, senders, max_txs)
    BY DEF Selections, Bijection, Injection, Surjection, IsInjective
  <1>2. n \in Nat
    BY SendersFinite, FS_CardinalityType
  <1> HIDE DEF n
  <1>3. /\ BodyOk(pool, accounts, max_txs, body)
        /\ Len(body) = 0 =>
              \A k \in 1 .. n : ~TxApplies(accounts, PendingFrom(pool, senders[k])[1])
    BY <1>1, <1>2, PackPicks
  <1> QED BY <1>1, <1>3


(* Held transactions are of the right type.                                *)
HeldOk(pool) == \A h \in DOMAIN pool.txs : TxOk(pool.txs[h])

LEMMA HeldIsNatural ==
    ASSUME NEW pool, HeldOk(pool) PROVE NaturalNonces(pool)
  BY DEF HeldOk, NaturalNonces, TxOk

LEMMA SelectedOk ==
    ASSUME NEW pool, HeldOk(pool), NEW accounts, NEW max_txs, NEW body,
           BodyOk(pool, accounts, max_txs, body)
    PROVE  TxsOk(body) /\ (Len(body) = 0 => body = <<>>)
  <1>1. body \in Seq(Range(pool.txs))
    BY DEF BodyOk, IsSeqOf
  <1>2. \A t \in Range(pool.txs) : TxOk(t)
    BY DEF HeldOk, Range
  <1>3. IsList(body)
    BY <1>1 DEF IsList
  <1>4. \A i \in 1 .. Len(body) : body[i] \in Range(pool.txs)
    BY <1>1
  <1>5. Len(body) = 0 => body = <<>>
    BY <1>1, EmptySeq
  <1> QED BY <1>2, <1>3, <1>4, <1>5 DEF TxsOk

-----------------------------------------------------------------------------
(* Cleaning the pool up and seeding it.                                    *)

PoolOk(pool) == Indexed(pool) /\ Bounded(pool) /\ HeldOk(pool)

LEMMA AddKeepsPool ==
    ASSUME NEW pool, PoolOk(pool), NEW tx, TxOk(tx), NEW new, new = PoolInsert(pool, tx)
    PROVE  PoolOk(new)
  <1>1. CASE InsertResult(pool, tx) = "Ok"
    <2>1. new = AddTx(pool, tx)
      BY <1>1 DEF PoolInsert
    <2>2. Indexed(new) /\ Bounded(new)
      BY <1>1, <2>1, AddKeepsIndexed, AddKeepsBounded DEF PoolOk
    <2>3. HeldOk(new)
      <3>1. /\ \A h : h \in DOMAIN new.txs <=> h \in DOMAIN pool.txs \/ h = TxHash(tx)
            /\ new.txs[TxHash(tx)] = tx
            /\ \A h \in DOMAIN pool.txs : h # TxHash(tx) => new.txs[h] = pool.txs[h]
        BY <2>1, AddTxMaps
      <3> QED BY <3>1 DEF HeldOk, PoolOk
    <2> QED BY <2>2, <2>3 DEF PoolOk
  <1>2. CASE InsertResult(pool, tx) # "Ok"
    BY <1>2 DEF PoolInsert
  <1> QED BY <1>1, <1>2

LEMMA RemoveKeepsPool ==
    ASSUME NEW pool, PoolOk(pool), NEW hash, NEW new, new = PoolRemove(pool, hash)
    PROVE  PoolOk(new)
  <1>1. /\ \A h : h \in DOMAIN new.txs <=> h \in DOMAIN pool.txs /\ h # hash
        /\ \A h \in DOMAIN new.txs : new.txs[h] = pool.txs[h]
    BY RemovedTxs
  <1>2. Bounded(new) /\ HeldOk(new)
    BY <1>1, FewerIsBounded DEF PoolOk, HeldOk
  <1>3. Indexed(new)
    <2>1. CASE hash \in DOMAIN pool.txs
      BY <2>1, RemoveKeepsIndexed DEF PoolOk
    <2>2. CASE hash \notin DOMAIN pool.txs
      BY <2>2 DEF PoolRemove, PoolOk
    <2> QED BY <2>1, <2>2
  <1> QED BY <1>2, <1>3 DEF PoolOk

Removals == INSTANCE Loops WITH Round <- LAMBDA env, p, tx : PoolRemove(p, TxHash(tx))

(* After the clean-up no transaction of the body is held, nothing else has *)
(* left the pool, and nothing has come in.                                 *)
Cleaned(pool, txs, i, new) ==
    /\ PoolOk(pool) => PoolOk(new)
    /\ \A h : h \in DOMAIN new.txs <=>
                 h \in DOMAIN pool.txs /\ \A k \in 1 .. i : h # TxHash(txs[k])
    /\ \A h \in DOMAIN new.txs : new.txs[h] = pool.txs[h]

LEMMA RemoveAllFacts ==
    ASSUME NEW pool, NEW txs, IsList(txs), NEW new, new = PoolRemoveAll(pool, txs)
    PROVE  Cleaned(pool, txs, Len(txs), new)
  <1> DEFINE n == Len(txs)
             at(i) == Removals!After(0, txs, pool, i)
             S == {i \in 0 .. n : Cleaned(pool, txs, i, at(i))}
  <1>1. n \in Nat
    BY DEF IsList
  <1>2. new = at(n)
    BY DEF PoolRemoveAll, Removals!After, Removals!IsLoop
  <1>3. 0 \in S
    <2>1. at(0) = pool
      BY Removals!AfterNone
    <2>2. Cleaned(pool, txs, 0, pool)
      BY DEF Cleaned
    <2> HIDE DEF at
    <2> QED BY <1>1, <2>1, <2>2
  <1>4. ASSUME NEW i \in 1 .. n, i - 1 \in S PROVE i \in S
    <2> DEFINE old == at(i - 1)
               next == at(i)
               hash == TxHash(txs[i])
    <2>1. i - 1 \in Nat /\ (i - 1) + 1 = i
      OBVIOUS
    <2>2. next = PoolRemove(old, hash)
      BY <2>1, Removals!AfterNext
    <2> HIDE DEF at
    <2>3. Cleaned(pool, txs, i - 1, old)
      BY <1>4
    <2>4. \A k : k \in 1 .. i <=> k \in 1 .. i - 1 \/ k = i
      OBVIOUS
    <2> HIDE DEF old, next, hash
    <2>5. /\ \A h : h \in DOMAIN next.txs <=> h \in DOMAIN old.txs /\ h # hash
          /\ \A h \in DOMAIN next.txs : next.txs[h] = old.txs[h]
      BY <2>2, RemovedTxs
    <2>6. PoolOk(pool) => PoolOk(next)
      BY <2>2, <2>3, RemoveKeepsPool DEF Cleaned
    <2>7. \A h : h \in DOMAIN next.txs <=>
                    h \in DOMAIN pool.txs /\ \A k \in 1 .. i : h # TxHash(txs[k])
      BY <2>3, <2>4, <2>5 DEF Cleaned, hash
    <2>8. \A h \in DOMAIN next.txs : next.txs[h] = pool.txs[h]
      BY <2>3, <2>5 DEF Cleaned
    <2>9. Cleaned(pool, txs, i, next)
      BY <2>6, <2>7, <2>8 DEF Cleaned
    <2> QED BY <2>9 DEF next
  <1> HIDE DEF S
  <1>5. \A i \in 0 .. n : i \in S
    BY <1>1, <1>3, <1>4, Removals!BoundedInduction
  <1>6. n \in S
    BY <1>1, <1>5
  <1> QED BY <1>2, <1>6 DEF S

Seedings == INSTANCE Loops WITH Round <- LAMBDA env, p, tx : PoolInsert(p, tx)

LEMMA EmptyPoolOk == PoolOk(EmptyPool)
  BY EmptyPoolFacts DEF PoolOk, HeldOk

LEMMA SeededPoolOk ==
    ASSUME NEW txs, TxsOk(txs)
    PROVE  PoolOk(SeededPool(txs))
  <1> DEFINE n == Len(txs)
             at(i) == Seedings!After(0, txs, EmptyPool, i)
             S == {i \in 0 .. n : PoolOk(at(i))}
  <1>1. n \in Nat
    BY DEF TxsOk, IsList
  <1>2. SeededPool(txs) = at(n)
    BY DEF SeededPool, Seedings!After, Seedings!IsLoop
  <1>3. 0 \in S
    <2>1. at(0) = EmptyPool
      BY Seedings!AfterNone
    <2> HIDE DEF at
    <2> QED BY <1>1, <2>1, EmptyPoolOk
  <1>4. ASSUME NEW i \in 1 .. n, i - 1 \in S PROVE i \in S
    <2> DEFINE old == at(i - 1)
               next == at(i)
    <2>1. i - 1 \in Nat /\ (i - 1) + 1 = i
      OBVIOUS
    <2>2. next = PoolInsert(old, txs[i])
      BY <2>1, Seedings!AfterNext
    <2> HIDE DEF at
    <2>3. PoolOk(old) /\ TxOk(txs[i])
      BY <1>4 DEF TxsOk
    <2> HIDE DEF old
    <2>4. PoolOk(next)
      BY <2>2, <2>3, AddKeepsPool
    <2> QED BY <2>4
  <1> HIDE DEF S
  <1>5. \A i \in 0 .. n : i \in S
    BY <1>1, <1>3, <1>4, Seedings!BoundedInduction
  <1>6. n \in S
    BY <1>1, <1>5
  <1> QED BY <1>2, <1>6 DEF S


-----------------------------------------------------------------------------
(* Nonces.  No nonce ever goes down; a body that was applied has spent the *)
(* nonces of all its transactions, so none of them applies again.          *)

(* The nonces of the first i transactions are behind their senders.        *)
SpentBy(accounts, txs, i) ==
    \A k \in 1 .. i : GetNonce(accounts, txs[k].from) > txs[k].nonce

NoNonceDrops(old, new) == \A a : GetNonce(new, a) >= GetNonce(old, a)

RunSpends(accounts, txs, i, run) ==
    run.ok =>
        /\ NoNonceDrops(accounts, run.accounts)
        /\ SpentBy(run.accounts, txs, i)
        /\ i >= 1 => TxApplies(accounts, txs[1])

LEMMA SpentLater ==
    ASSUME NEW old, AccountsOk(old), NEW new, AccountsOk(new), NoNonceDrops(old, new),
           NEW i \in Nat, NEW txs, \A k \in 1 .. i : TxOk(txs[k]), SpentBy(old, txs, i)
    PROVE  SpentBy(new, txs, i)
  <1> SUFFICES ASSUME NEW k \in 1 .. i PROVE GetNonce(new, txs[k].from) > txs[k].nonce
    BY DEF SpentBy
  <1>1. /\ GetNonce(old, txs[k].from) \in Nat /\ GetNonce(new, txs[k].from) \in Nat
        /\ txs[k].nonce \in Nat
    BY GetFacts DEF TxOk
  <1>2. /\ GetNonce(old, txs[k].from) > txs[k].nonce
        /\ GetNonce(new, txs[k].from) >= GetNonce(old, txs[k].from)
    BY DEF SpentBy, NoNonceDrops
  <1> QED BY <1>1, <1>2

LEMMA DropsCompose ==
    ASSUME NEW x, AccountsOk(x), NEW y, AccountsOk(y), NEW z, AccountsOk(z),
           NoNonceDrops(x, y), NoNonceDrops(y, z)
    PROVE  NoNonceDrops(x, z)
  <1> SUFFICES ASSUME NEW a PROVE GetNonce(z, a) >= GetNonce(x, a)
    BY DEF NoNonceDrops
  <1>1. GetNonce(x, a) \in Nat /\ GetNonce(y, a) \in Nat /\ GetNonce(z, a) \in Nat
    BY GetFacts
  <1>2. GetNonce(y, a) >= GetNonce(x, a) /\ GetNonce(z, a) >= GetNonce(y, a)
    BY DEF NoNonceDrops
  <1> QED BY <1>1, <1>2

LEMMA ApplySpends ==
    ASSUME NEW accounts, AccountsOk(accounts), NEW tx, TxOk(tx), TxApplies(accounts, tx),
           NEW later, later = ApplyTransaction(accounts, tx)
    PROVE  NoNonceDrops(accounts, later) /\ GetNonce(later, tx.from) > tx.nonce
  <1>1. OneNonceSpent(accounts, tx, later)
    BY ApplyFacts
  <1>2. \A x : GetNonce(accounts, x) \in Nat
    BY GetFacts
  <1>3. tx.nonce = GetNonce(accounts, tx.from)
    BY DEF TxApplies
  <1> QED BY <1>1, <1>2, <1>3 DEF NoNonceDrops, OneNonceSpent

LEMMA RunSpendsNonces ==
    ASSUME NEW accounts, AccountsOk(accounts), IsFiniteSet(DOMAIN accounts),
           NEW txs, TxsOk(txs), BlockApplies(accounts, txs)
    PROVE  /\ NoNonceDrops(accounts, ApplyBlock(accounts, txs))
           /\ SpentBy(ApplyBlock(accounts, txs), txs, Len(txs))
           /\ Len(txs) >= 1 => TxApplies(accounts, txs[1])
  <1> DEFINE n == Len(txs)
             at(i) == RunOf(accounts, txs, i)
             S == {i \in 0 .. n : RunOk(accounts, at(i)) /\ RunSpends(accounts, txs, i, at(i))}
  <1>1. n \in Nat /\ \A i \in 1 .. n : TxOk(txs[i])
    BY DEF TxsOk, IsList
  <1>2. 0 \in S
    <2>1. at(0) = Untouched(accounts)
      BY Runs!AfterNone DEF RunOf
    <2> HIDE DEF at
    <2>2. at(0).ok /\ at(0).accounts = accounts
      BY <2>1 DEF Untouched
    <2>3. \A a : GetNonce(accounts, a) >= GetNonce(accounts, a)
      BY GetFacts
    <2>4. RunOk(accounts, at(0)) /\ RunSpends(accounts, txs, 0, at(0))
      BY <2>2, <2>3 DEF RunOk, RunSpends, NoNonceDrops, SpentBy
    <2> QED BY <1>1, <2>4
  <1>3. ASSUME NEW i \in 1 .. n, i - 1 \in S PROVE i \in S
    <2> DEFINE old == at(i - 1)
               new == at(i)
    <2>1. i - 1 \in Nat /\ (i - 1) + 1 = i
      OBVIOUS
    <2>2. new = RunRound(accounts, old, txs[i])
      BY <2>1, Runs!AfterNext DEF RunOf
    <2>3. /\ AccountsOk(old.accounts) /\ IsFiniteSet(DOMAIN old.accounts)
          /\ RunSpends(accounts, txs, i - 1, old)
      BY <1>3 DEF RunOk
    <2>4. i = 1 => old = Untouched(accounts)
      BY Runs!AfterNone DEF RunOf
    <2> HIDE DEF at, old, new
    <2>5. CASE old.ok /\ TxApplies(old.accounts, txs[i])
      <3>1. new.ok /\ new.accounts = ApplyTransaction(old.accounts, txs[i])
        BY <2>2, <2>5 DEF RunRound
      <3>2. RunOk(accounts, new)
        BY <1>1, <2>3, <2>5, <3>1, RunStepOk
      <3>3. AccountsOk(new.accounts)
        BY <3>2 DEF RunOk
      <3>4. /\ NoNonceDrops(accounts, old.accounts)
            /\ SpentBy(old.accounts, txs, i - 1)
            /\ i - 1 >= 1 => TxApplies(accounts, txs[1])
        BY <2>3, <2>5 DEF RunSpends
      <3>5. /\ NoNonceDrops(old.accounts, new.accounts)
            /\ GetNonce(new.accounts, txs[i].from) > txs[i].nonce
        BY <1>1, <2>3, <2>5, <3>1, ApplySpends
      <3>6. NoNonceDrops(accounts, new.accounts)
        BY <2>3, <3>3, <3>4, <3>5, DropsCompose
      <3>7. SpentBy(new.accounts, txs, i - 1)
        <4>1. \A k \in 1 .. i - 1 : TxOk(txs[k])
          BY <1>1
        <4> QED BY <2>1, <2>3, <3>3, <3>4, <3>5, <4>1, SpentLater
      <3>8. SpentBy(new.accounts, txs, i)
        <4>1. \A k \in 1 .. i : k \in 1 .. i - 1 \/ k = i
          OBVIOUS
        <4> QED BY <3>5, <3>7, <4>1 DEF SpentBy
      <3>9. TxApplies(accounts, txs[1])
        <4>1. CASE i = 1
          <5>1. old.accounts = accounts
            BY <2>4, <4>1 DEF Untouched
          <5> QED BY <2>5, <4>1, <5>1
        <4>2. CASE i # 1
          <5>1. i - 1 >= 1
            BY <4>2
          <5> QED BY <3>4, <5>1
        <4> QED BY <4>1, <4>2
      <3>10. RunSpends(accounts, txs, i, new)
        BY <3>6, <3>8, <3>9 DEF RunSpends
      <3> QED BY <3>2, <3>10 DEF new
    <2>6. CASE ~(old.ok /\ TxApplies(old.accounts, txs[i]))
      <3>1. new.accounts = accounts /\ ~new.ok
        BY <2>2, <2>6 DEF RunRound
      <3>2. RunOk(accounts, new) /\ RunSpends(accounts, txs, i, new)
        BY <3>1 DEF RunOk, RunSpends
      <3> QED BY <3>2 DEF new
    <2> QED BY <2>5, <2>6
  <1> HIDE DEF S
  <1>4. \A i \in 0 .. n : i \in S
    BY <1>1, <1>2, <1>3, Runs!BoundedInduction
  <1>5. n \in S /\ RunTxs(accounts, txs) = at(n)
    BY <1>1, <1>4, RunTxsIsRun
  <1>6. RunSpends(accounts, txs, n, RunTxs(accounts, txs))
    BY <1>5 DEF S
  <1> QED BY <1>6 DEF RunSpends, BlockApplies, ApplyBlock


-----------------------------------------------------------------------------
(* Merkle roots.  What the first digests of the layers climb through: each *)
(* is the one below it, or a pair that begins with it.  Two climbs that    *)
(* reach the same root began at the same transaction.                      *)

Climbs(f, n) ==
    /\ \E tx : f[0] = TxHash(tx)
    /\ \A k \in 1 .. n :
          f[k] = f[k - 1] \/ \E y : f[k] = MerklePair(f[k - 1], y)

LEMMA TxIsNoPair ==
    ASSUME NEW tx, NEW x, NEW y PROVE TxHash(tx) # MerklePair(x, y)
  BY DEF TxHash, MerklePair

LEMMA PairInjective ==
    ASSUME NEW x, NEW y, NEW u, NEW v, MerklePair(x, y) = MerklePair(u, v)
    PROVE  x = u
  BY DEF MerklePair

LEMMA ClimbsAgree ==
    ASSUME NEW n \in Nat, NEW f, Climbs(f, n), NEW m \in Nat, NEW g, Climbs(g, m),
           f[n] = g[m]
    PROVE  f[0] = g[0]
  <1> DEFINE S == {i \in 0 .. n : \A j \in 0 .. m : f[i] = g[j] => f[0] = g[0]}
  <1>1. 0 \in S
    <2> DEFINE T == {j \in 0 .. m : f[0] = g[j] => f[0] = g[0]}
    <2>1. 0 \in T
      OBVIOUS
    <2>2. ASSUME NEW j \in 1 .. m, j - 1 \in T PROVE j \in T
      <3>1. \A y : f[0] # MerklePair(g[j - 1], y)
        BY TxIsNoPair DEF Climbs
      <3> QED BY <2>2, <3>1 DEF Climbs
    <2> HIDE DEF T
    <2>3. \A j \in 0 .. m : j \in T
      BY <2>1, <2>2, Runs!BoundedInduction
    <2> QED BY <2>3 DEF T
  <1>2. ASSUME NEW i \in 1 .. n, i - 1 \in S PROVE i \in S
    <2>1. \A j \in 0 .. m : f[i - 1] = g[j] => f[0] = g[0]
      BY <1>2
    <2>2. CASE f[i] = f[i - 1]
      BY <2>1, <2>2
    <2>3. CASE \E y : f[i] = MerklePair(f[i - 1], y)
      <3>1. PICK y : f[i] = MerklePair(f[i - 1], y)
        BY <2>3
      <3> DEFINE T == {j \in 0 .. m : f[i] = g[j] => f[0] = g[0]}
      <3>2. 0 \in T
        <4>1. f[i] # g[0]
          BY <3>1, TxIsNoPair DEF Climbs
        <4> QED BY <4>1
      <3>3. ASSUME NEW j \in 1 .. m, j - 1 \in T PROVE j \in T
        <4>1. CASE g[j] = g[j - 1]
          BY <3>3, <4>1
        <4>2. CASE \E z : g[j] = MerklePair(g[j - 1], z)
          <5>1. ASSUME f[i] = g[j] PROVE f[i - 1] = g[j - 1]
            <6>1. PICK z : g[j] = MerklePair(g[j - 1], z)
              BY <4>2
            <6>2. MerklePair(f[i - 1], y) = MerklePair(g[j - 1], z)
              BY <3>1, <5>1, <6>1
            <6> QED BY <6>2, PairInjective
          <5>2. j - 1 \in 0 .. m
            OBVIOUS
          <5> QED BY <2>1, <5>1, <5>2
        <4> QED BY <4>1, <4>2 DEF Climbs
      <3> HIDE DEF T
      <3>4. \A j \in 0 .. m : j \in T
        BY <3>2, <3>3, Runs!BoundedInduction
      <3> QED BY <3>4 DEF T
    <2> QED BY <2>2, <2>3 DEF Climbs
  <1> HIDE DEF S
  <1>3. \A i \in 0 .. n : i \in S
    BY <1>1, <1>2, Runs!BoundedInduction
  <1>4. n \in S
    BY <1>3
  <1> QED BY <1>4 DEF S

LEMMA ClimbsAboveZero ==
    ASSUME NEW n \in Nat, NEW f, Climbs(f, n) PROVE f[n] # ZeroHash
  <1> DEFINE S == {i \in 0 .. n : f[i] # ZeroHash}
  <1>1. 0 \in S
    BY DEF Climbs, TxHash, ZeroHash
  <1>2. ASSUME NEW i \in 1 .. n, i - 1 \in S PROVE i \in S
    <2>1. \A x, y : MerklePair(x, y) # ZeroHash
      BY DEF MerklePair, ZeroHash
    <2> QED BY <1>2, <2>1 DEF Climbs
  <1> HIDE DEF S
  <1>3. \A i \in 0 .. n : i \in S
    BY <1>1, <1>2, Runs!BoundedInduction
  <1>4. n \in S
    BY <1>3
  <1> QED BY <1>4 DEF S

(* The layers of a tree.                                                   *)
HashRound(layer) == IF Len(layer) > 1 THEN NextLayer(layer) ELSE layer

Layers == INSTANCE Loops WITH Round <- LAMBDA env, layer, e : HashRound(layer)

Leaves(txs) == [i \in DOMAIN txs |-> TxHash(txs[i])]

LEMMA RootIsLoop ==
    ASSUME NEW txs
    PROVE  ComputeTxRoot(txs)
              = IF txs = <<>> THEN ZeroHash
                ELSE Layers!After(0, txs, Leaves(txs), Len(txs))[1]
  BY DEF ComputeTxRoot, Leaves, HashRound, Layers!After, Layers!IsLoop

Entries(layer) == {layer[i] : i \in DOMAIN layer}

LayerOk(layer) == IsSeqOf(layer, Entries(layer)) /\ Len(layer) >= 1

LEMMA ListIsLayer ==
    ASSUME NEW n \in Nat, n >= 1, NEW layer, layer = [i \in 1 .. n |-> layer[i]]
    PROVE  LayerOk(layer) /\ Len(layer) = n
  <1>1. DOMAIN layer = 1 .. n
    OBVIOUS
  <1>2. layer \in [1 .. n -> Entries(layer)]
    BY <1>1 DEF Entries
  <1>3. layer \in Seq(Entries(layer))
    BY <1>2, SeqDef
  <1>4. Len(layer) = n
    BY <1>1, <1>3, LenProperties
  <1> QED BY <1>3, <1>4 DEF LayerOk, IsSeqOf

LEMMA RoundFacts ==
    ASSUME NEW layer, LayerOk(layer), NEW next, next = HashRound(layer)
    PROVE  /\ LayerOk(next)
           /\ next[1] = layer[1] \/ \E y : next[1] = MerklePair(layer[1], y)
  <1>1. CASE ~(Len(layer) > 1)
    BY <1>1 DEF HashRound
  <1>2. CASE Len(layer) > 1
    <2> DEFINE padded == PadOdd(layer)
               n == Len(layer)
    <2>1. n \in Nat /\ DOMAIN layer = 1 .. n
      BY LenProperties DEF LayerOk, IsSeqOf
    <2>2. Len(padded) \in {n, n + 1} /\ padded[1] = layer[1]
      <3>1. CASE padded = layer
        BY <3>1, <2>1
      <3>2. CASE padded = Append(layer, layer[n])
        <4>1. Grown(padded, layer, layer[n]) /\ layer[n] \in Entries(layer)
          BY <1>2, <2>1, <3>2 DEF Grown, Entries
        <4>2. Len(padded) = n + 1 /\ \A i \in 1 .. n : padded[i] = layer[i]
          BY <4>1, AppendFacts DEF LayerOk
        <4> QED BY <1>2, <2>1, <4>2
      <3> QED BY <3>1, <3>2 DEF PadOdd
    <2> HIDE DEF padded
    <2> DEFINE half == Len(padded) \div 2
    <2>3. half \in Nat /\ half >= 1
      BY <1>2, <2>1, <2>2
    <2>4. next = [i \in 1 .. half |-> MerklePair(padded[2 * i - 1], padded[2 * i])]
      BY <1>2 DEF HashRound, NextLayer, padded
    <2> HIDE DEF half
    <2>5. LayerOk(next)
      BY <2>3, <2>4, ListIsLayer
    <2>6. next[1] = MerklePair(padded[2 * 1 - 1], padded[2 * 1])
      BY <2>3, <2>4
    <2> QED BY <2>2, <2>5, <2>6
  <1> QED BY <1>1, <1>2

LEMMA RootClimbs ==
    ASSUME NEW txs, IsList(txs), Len(txs) >= 1
    PROVE  \E f : /\ Climbs(f, Len(txs))
                  /\ f[0] = TxHash(txs[1])
                  /\ f[Len(txs)] = ComputeTxRoot(txs)
  <1> DEFINE n == Len(txs)
             at(k) == Layers!After(0, txs, Leaves(txs), k)
             f == [k \in 0 .. n |-> at(k)[1]]
             S == {k \in 0 .. n : LayerOk(at(k))}
  <1>1. n \in Nat /\ DOMAIN txs = 1 .. n
    BY DEF IsList
  <1>2. at(0) = Leaves(txs)
    BY Layers!AfterNone
  <1>3. \A k \in 1 .. n : at(k) = HashRound(at(k - 1))
    <2> TAKE k \in 1 .. n
    <2>1. k - 1 \in Nat /\ (k - 1) + 1 = k
      OBVIOUS
    <2> QED BY <2>1, Layers!AfterNext
  <1> HIDE DEF at
  <1>4. LayerOk(Leaves(txs)) /\ Leaves(txs)[1] = TxHash(txs[1])
    <2>1. Leaves(txs) = [i \in 1 .. n |-> Leaves(txs)[i]] /\ Leaves(txs)[1] = TxHash(txs[1])
      BY <1>1 DEF Leaves
    <2> QED BY <1>1, <2>1, ListIsLayer
  <1>5. 0 \in S
    BY <1>1, <1>2, <1>4
  <1>6. ASSUME NEW k \in 1 .. n, k - 1 \in S PROVE k \in S
    BY <1>3, <1>6, RoundFacts
  <1>7. \A k \in 0 .. n : k \in S
    <2> HIDE DEF S
    <2> QED BY <1>1, <1>5, <1>6, Layers!BoundedInduction
  <1>8. \A k \in 1 .. n : f[k] = f[k - 1] \/ \E y : f[k] = MerklePair(f[k - 1], y)
    <2> TAKE k \in 1 .. n
    <2>1. k - 1 \in 0 .. n /\ k \in 0 .. n
      OBVIOUS
    <2>2. f[k] = at(k)[1] /\ f[k - 1] = at(k - 1)[1] /\ LayerOk(at(k - 1))
      BY <1>7, <2>1
    <2>3. at(k) = HashRound(at(k - 1))
      BY <1>3
    <2>4. at(k)[1] = at(k - 1)[1] \/ \E y : at(k)[1] = MerklePair(at(k - 1)[1], y)
      BY <2>2, <2>3, RoundFacts
    <2> HIDE DEF f
    <2> QED BY <2>2, <2>4
  <1>9. f[0] = TxHash(txs[1])
    BY <1>1, <1>2, <1>4
  <1>10. f[n] = ComputeTxRoot(txs)
    <2>1. txs # <<>>
      BY <1>1
    <2>2. ComputeTxRoot(txs) = at(n)[1]
      BY <2>1, RootIsLoop DEF at
    <2> QED BY <1>1, <2>2
  <1>11. Climbs(f, n)
    BY <1>8, <1>9 DEF Climbs
  <1> QED BY <1>9, <1>10, <1>11

(* Bodies with one root are both empty, or begin with one transaction.     *)
LEMMA RootFixesFirst ==
    ASSUME NEW txs, IsList(txs), NEW other, IsList(other),
           ComputeTxRoot(txs) = ComputeTxRoot(other), Len(txs) >= 1
    PROVE  Len(other) >= 1 /\ other[1] = txs[1]
  <1>1. PICK f : /\ Climbs(f, Len(txs)) /\ f[0] = TxHash(txs[1])
                 /\ f[Len(txs)] = ComputeTxRoot(txs)
    BY RootClimbs
  <1>2. Len(other) >= 1
    <2> SUFFICES ASSUME ~(Len(other) >= 1) PROVE FALSE
      OBVIOUS
    <2>1. other = <<>>
      BY DEF IsList
    <2>2. f[Len(txs)] = ZeroHash
      BY <1>1, <2>1, RootIsLoop
    <2> QED BY <1>1, <2>2, ClimbsAboveZero DEF IsList
  <1>3. PICK g : /\ Climbs(g, Len(other)) /\ g[0] = TxHash(other[1])
                 /\ g[Len(other)] = ComputeTxRoot(other)
    BY <1>2, RootClimbs
  <1>4. f[0] = g[0]
    BY <1>1, <1>3, ClimbsAgree DEF IsList
  <1> QED BY <1>1, <1>2, <1>3, <1>4, TxHashInjective


-----------------------------------------------------------------------------
(* The root commits to the whole of a body that holds no transaction twice.*)

Distinct(layer) == \A i, j \in 1 .. Len(layer) : layer[i] = layer[j] => i = j

PairAt(layer, i) ==
    MerklePair(layer[2 * i - 1], IF 2 * i <= Len(layer) THEN layer[2 * i] ELSE layer[2 * i - 1])

LEMMA PairsEqual ==
    ASSUME NEW x, NEW y, NEW u, NEW v, MerklePair(x, y) = MerklePair(u, v)
    PROVE  x = u /\ y = v
  BY DEF MerklePair

LEMMA EvenOrOdd ==
    ASSUME NEW n \in Nat PROVE \E q \in Nat : n = 2 * q \/ n = 2 * q + 1
  <1>1. n \div 2 \in Nat /\ (n = 2 * (n \div 2) \/ n = 2 * (n \div 2) + 1)
    OBVIOUS
  <1> QED BY <1>1

(* A layer of pairs, half as long; whatever has no half repeats the other. *)
LEMMA NextLayerFacts ==
    ASSUME NEW layer, LayerOk(layer), Len(layer) > 1,
           NEW next, next = HashRound(layer)
    PROVE  /\ Len(next) \in Nat /\ Len(next) = (Len(layer) + 1) \div 2
           /\ LayerOk(next)
           /\ \A i \in 1 .. Len(next) : next[i] = PairAt(layer, i)
  <1> DEFINE padded == PadOdd(layer)
             n == Len(layer)
             half == Len(padded) \div 2
  <1>1. n \in Nat /\ DOMAIN layer = 1 .. n
    BY LenProperties DEF LayerOk, IsSeqOf
  <1>2. /\ Len(padded) = IF n % 2 = 1 THEN n + 1 ELSE n
        /\ \A i \in 1 .. n : padded[i] = layer[i]
        /\ n % 2 = 1 => padded[n + 1] = layer[n]
    <2>1. CASE n % 2 = 1
      <3>1. Grown(padded, layer, layer[n]) /\ layer[n] \in Entries(layer)
        BY <1>1, <2>1 DEF Grown, Entries, PadOdd
      <3> HIDE DEF padded
      <3> QED BY <2>1, <3>1, AppendFacts DEF LayerOk
    <2>2. CASE n % 2 # 1
      BY <1>1, <2>2 DEF PadOdd
    <2> QED BY <2>1, <2>2
  <1>3. next = [i \in 1 .. half |-> MerklePair(padded[2 * i - 1], padded[2 * i])]
    BY DEF HashRound, NextLayer
  <1> HIDE DEF padded
  <1>4. half \in Nat /\ half >= 1 /\ half = (n + 1) \div 2
    <2>1. PICK q \in Nat : n = 2 * q \/ n = 2 * q + 1
      BY <1>1, EvenOrOdd
    <2>2. CASE n = 2 * q
      <3>1. Len(padded) = 2 * q /\ q >= 1
        BY <1>1, <1>2, <2>2
      <3> QED BY <2>2, <3>1
    <2>3. CASE n = 2 * q + 1
      <3>1. Len(padded) = 2 * (q + 1)
        BY <1>1, <1>2, <2>3
      <3> QED BY <2>3, <3>1
    <2> QED BY <2>1, <2>2, <2>3
  <1> HIDE DEF half
  <1>5. LayerOk(next) /\ Len(next) = half
    <2>1. next = [i \in 1 .. half |-> next[i]]
      BY <1>3
    <2> QED BY <1>4, <2>1, ListIsLayer
  <1>6. ASSUME NEW i \in 1 .. half PROVE next[i] = PairAt(layer, i)
    <2>1. next[i] = MerklePair(padded[2 * i - 1], padded[2 * i])
      BY <1>3
    <2>2. 2 * i - 1 \in 1 .. n /\ padded[2 * i - 1] = layer[2 * i - 1]
      BY <1>1, <1>2, <1>4
    <2>3. CASE 2 * i <= n
      <3>1. padded[2 * i] = layer[2 * i]
        BY <1>1, <1>2, <1>4, <2>3
      <3> QED BY <2>1, <2>2, <2>3, <3>1 DEF PairAt
    <2>4. CASE ~(2 * i <= n)
      <3>1. 2 * i = n + 1 /\ 2 * i - 1 = n /\ n % 2 = 1
        BY <1>1, <1>4, <2>4
      <3>2. padded[2 * i] = layer[2 * i - 1]
        BY <1>2, <3>1
      <3> QED BY <2>1, <2>2, <2>4, <3>2 DEF PairAt
    <2> QED BY <2>3, <2>4
  <1> QED BY <1>4, <1>5, <1>6

LEMMA LayersEqual ==
    ASSUME NEW s, LayerOk(s), NEW t, LayerOk(t), Len(s) = Len(t),
           \A i \in 1 .. Len(s) : s[i] = t[i]
    PROVE  s = t
  BY SeqEqual DEF LayerOk, IsSeqOf

(* Of two layers, the one that is not longer than the other.               *)
LEMMA NotLonger ==
    ASSUME NEW s, LayerOk(s), Distinct(s), Len(s) > 1,
           NEW t, LayerOk(t), Distinct(t), Len(t) > 1,
           HashRound(s) = HashRound(t)
    PROVE  Len(t) <= Len(s)
  <1> DEFINE n == Len(s)
             m == Len(t)
  <1>1. n \in Nat /\ m \in Nat
    BY LenProperties DEF LayerOk, IsSeqOf
  <1>2. (n + 1) \div 2 = (m + 1) \div 2
    BY NextLayerFacts
  <1> SUFFICES ASSUME ~(m <= n) PROVE FALSE
    OBVIOUS
  <1>3. m = n + 1 /\ n % 2 = 1
    BY <1>1, <1>2
  <1>4. PICK i \in Nat : 2 * i = n + 1 /\ i = (n + 1) \div 2 /\ i >= 1
    BY <1>1, <1>3
  <1>5. PairAt(s, i) = PairAt(t, i)
    <2>1. i \in 1 .. (n + 1) \div 2
      BY <1>1, <1>4
    <2> QED BY <1>2, <2>1, NextLayerFacts
  <1>6. ~(2 * i <= n) /\ 2 * i <= m /\ 2 * i - 1 = n /\ 2 * i = n + 1
    BY <1>1, <1>3, <1>4
  <1>7. MerklePair(s[n], s[n]) = MerklePair(t[n], t[n + 1])
    BY <1>5, <1>6 DEF PairAt
  <1>8. t[n] = t[n + 1]
    BY <1>7, PairsEqual
  <1>9. n \in 1 .. m /\ n + 1 \in 1 .. m /\ n # n + 1
    BY <1>1, <1>3
  <1> QED BY <1>8, <1>9 DEF Distinct

LEMMA LayerFixed ==
    ASSUME NEW s, LayerOk(s), Distinct(s), Len(s) > 1,
           NEW t, LayerOk(t), Distinct(t), Len(t) > 1,
           HashRound(s) = HashRound(t)
    PROVE  s = t
  <1> DEFINE n == Len(s)
  <1>1. n \in Nat /\ Len(t) \in Nat
    BY LenProperties DEF LayerOk, IsSeqOf
  <1>2. Len(t) = n
    BY <1>1, NotLonger
  <1>3. \A i \in 1 .. (n + 1) \div 2 : PairAt(s, i) = PairAt(t, i)
    BY <1>2, NextLayerFacts
  <1>4. ASSUME NEW k \in 1 .. n PROVE s[k] = t[k]
    <2>1. CASE k % 2 = 1
      <3>1. PICK i \in 1 .. (n + 1) \div 2 : k = 2 * i - 1
        <4>1. (k + 1) \div 2 \in 1 .. (n + 1) \div 2 /\ k = 2 * ((k + 1) \div 2) - 1
          BY <1>1, <2>1
        <4> QED BY <4>1
      <3>2. PairAt(s, i) = PairAt(t, i)
        BY <1>3
      <3> QED BY <3>1, <3>2, PairsEqual DEF PairAt
    <2>2. CASE k % 2 # 1
      <3>1. PICK i \in 1 .. (n + 1) \div 2 : k = 2 * i /\ 2 * i <= n
        <4>1. k \div 2 \in 1 .. (n + 1) \div 2 /\ k = 2 * (k \div 2) /\ 2 * (k \div 2) <= n
          BY <1>1, <2>2
        <4> QED BY <4>1
      <3>2. PairAt(s, i) = PairAt(t, i)
        BY <1>3
      <3> QED BY <1>2, <3>1, <3>2, PairsEqual DEF PairAt
    <2> QED BY <2>1, <2>2
  <1> QED BY <1>2, <1>4, LayersEqual

LEMMA NextDistinct ==
    ASSUME NEW layer, LayerOk(layer), Distinct(layer), Len(layer) > 1,
           NEW next, next = HashRound(layer)
    PROVE  Distinct(next)
  <1> SUFFICES ASSUME NEW i \in 1 .. Len(next), NEW j \in 1 .. Len(next), next[i] = next[j]
               PROVE  i = j
    BY DEF Distinct
  <1> DEFINE n == Len(layer)
  <1>1. n \in Nat
    BY LenProperties DEF LayerOk, IsSeqOf
  <1>2. Len(next) = (n + 1) \div 2 /\ PairAt(layer, i) = PairAt(layer, j)
    BY NextLayerFacts
  <1>3. layer[2 * i - 1] = layer[2 * j - 1]
    BY <1>2, PairsEqual DEF PairAt
  <1>4. 2 * i - 1 \in 1 .. n /\ 2 * j - 1 \in 1 .. n
    BY <1>1, <1>2
  <1>5. 2 * i - 1 = 2 * j - 1
    BY <1>3, <1>4 DEF Distinct
  <1> QED BY <1>1, <1>2, <1>5

LEMMA LayerShrinks ==
    ASSUME NEW n \in Nat, NEW k \in 1 .. n, NEW layer, LayerOk(layer), Distinct(layer),
           Len(layer) = 1 \/ Len(layer) + (k - 1) <= n,
           NEW next, next = HashRound(layer)
    PROVE  LayerOk(next) /\ Distinct(next) /\ (Len(next) = 1 \/ Len(next) + k <= n)
  <1>1. Len(layer) \in Nat /\ Len(layer) >= 1
    BY LenProperties DEF LayerOk, IsSeqOf
  <1>2. CASE Len(layer) # 1
    <2>0. Len(layer) > 1
      <3>1. \A x \in Nat : x >= 1 => x = 1 \/ x > 1
        OBVIOUS
      <3> QED BY <1>1, <1>2, <3>1
    <2>1. Len(next) = (Len(layer) + 1) \div 2 /\ LayerOk(next) /\ Distinct(next)
      BY <2>0, NextLayerFacts, NextDistinct
    <2>2. Len(next) + 1 <= Len(layer)
      BY <1>1, <2>0, <2>1
    <2>3. Len(layer) + (k - 1) <= n /\ Len(next) \in Nat
      BY <1>1, <1>2, <2>1
    <2>4. Len(next) + k <= n
      BY <1>1, <2>2, <2>3
    <2> QED BY <2>1, <2>4
  <1>3. CASE Len(layer) = 1
    <2>1. next = layer
      BY <1>3 DEF HashRound
    <2> QED BY <1>3, <2>1
  <1> QED BY <1>2, <1>3

(* The layers of one tree: lists without a repeated entry, shorter from    *)
(* one to the next until one entry is left.                                *)
LayerK(txs, k) == Layers!After(0, txs, Leaves(txs), k)

TreeLayer(txs, k) ==
    /\ LayerOk(LayerK(txs, k)) /\ Distinct(LayerK(txs, k))
    /\ Len(LayerK(txs, k)) = 1 \/ Len(LayerK(txs, k)) + k <= Len(txs)

LEMMA LayerZero ==
    ASSUME NEW txs PROVE LayerK(txs, 0) = Leaves(txs)
  BY Layers!AfterNone DEF LayerK

LEMMA LayerNext ==
    ASSUME NEW txs, NEW k \in Nat, k >= 1
    PROVE  LayerK(txs, k) = HashRound(LayerK(txs, k - 1))
  <1>1. k - 1 \in Nat /\ (k - 1) + 1 = k
    OBVIOUS
  <1> QED BY <1>1, Layers!AfterNext DEF LayerK

LEMMA LayersOk ==
    ASSUME NEW txs, IsList(txs), Len(txs) >= 1, Distinct(txs)
    PROVE  \A k \in 0 .. Len(txs) : TreeLayer(txs, k)
  <1> DEFINE n == Len(txs)
             S == {k \in 0 .. n : TreeLayer(txs, k)}
  <1>1. n \in Nat /\ DOMAIN txs = 1 .. n
    BY DEF IsList
  <1>2. 0 \in S
    <2> DEFINE leaves == Leaves(txs)
    <2>1. leaves = [i \in 1 .. n |-> TxHash(txs[i])]
      BY <1>1 DEF Leaves
    <2> HIDE DEF leaves
    <2>2. leaves = [i \in 1 .. n |-> leaves[i]] /\ \A i \in 1 .. n : leaves[i] = TxHash(txs[i])
      BY <2>1
    <2>3. LayerOk(leaves) /\ Len(leaves) = n
      BY <1>1, <2>2, ListIsLayer
    <2>4. Distinct(leaves)
      BY <2>2, <2>3, TxHashInjective DEF Distinct
    <2>5. LayerK(txs, 0) = leaves
      BY LayerZero DEF leaves
    <2> QED BY <1>1, <2>3, <2>4, <2>5 DEF TreeLayer
  <1>3. ASSUME NEW k \in 1 .. n, k - 1 \in S PROVE k \in S
    <2> DEFINE layer == LayerK(txs, k - 1)
               next == LayerK(txs, k)
    <2>1. next = HashRound(layer)
      BY LayerNext
    <2>2. /\ LayerOk(layer) /\ Distinct(layer)
          /\ Len(layer) = 1 \/ Len(layer) + (k - 1) <= n
      BY <1>3 DEF TreeLayer
    <2> HIDE DEF layer, next
    <2>4. LayerOk(next) /\ Distinct(next) /\ (Len(next) = 1 \/ Len(next) + k <= n)
      BY <1>1, <2>1, <2>2, LayerShrinks
    <2> QED BY <2>4 DEF TreeLayer, next
  <1> HIDE DEF S
  <1>4. \A k \in 0 .. n : k \in S
    BY <1>1, <1>2, <1>3, Layers!BoundedInduction
  <1> QED BY <1>4 DEF S

(* A layer of pairs is not one of transactions, and equal layers come from *)
(* equal ones below.                                                       *)
LEMMA LayersAgree ==
    ASSUME NEW txs, IsList(txs), Len(txs) >= 1, Distinct(txs),
           NEW other, IsList(other), Len(other) >= 1, Distinct(other),
           LayerK(txs, Len(txs)) = LayerK(other, Len(other))
    PROVE  Leaves(txs) = Leaves(other)
  <1> DEFINE n == Len(txs)
             m == Len(other)
             f(k) == LayerK(txs, k)
             g(k) == LayerK(other, k)
             goal == Leaves(txs) = Leaves(other)
             S == {i \in 0 .. n : \A j \in 0 .. m : f(i) = g(j) => goal}
  <1>1. n \in Nat /\ m \in Nat
    BY DEF IsList
  <1>2. /\ \A i \in 0 .. n : TreeLayer(txs, i)
        /\ \A j \in 0 .. m : TreeLayer(other, j)
    BY LayersOk
  <1>3. f(0) = Leaves(txs) /\ g(0) = Leaves(other)
    BY LayerZero
  <1>4. /\ \A i \in 1 .. n : f(i) = HashRound(f(i - 1))
        /\ \A j \in 1 .. m : g(j) = HashRound(g(j - 1))
    BY <1>1, LayerNext
  <1>5. /\ \A i \in 0 .. n : LayerOk(f(i)) /\ Distinct(f(i))
        /\ \A j \in 0 .. m : LayerOk(g(j)) /\ Distinct(g(j))
    BY <1>2 DEF TreeLayer
  <1>6. /\ f(0)[1] = TxHash(txs[1])
        /\ g(0)[1] = TxHash(other[1])
    BY <1>3 DEF Leaves, IsList
  <1> HIDE DEF f, g, goal
  <1>7. ASSUME NEW layer, LayerOk(layer), Len(layer) > 1
        PROVE  \E y : HashRound(layer)[1] = MerklePair(layer[1], y)
    <2>1. Len(layer) \in Nat
      BY <1>7, LenProperties DEF LayerOk, IsSeqOf
    <2>2. 1 \in 1 .. Len(HashRound(layer))
      BY <1>7, <2>1, NextLayerFacts
    <2>3. HashRound(layer)[1] = PairAt(layer, 1)
      BY <1>7, <2>2, NextLayerFacts
    <2> QED BY <2>3 DEF PairAt
  <1>8. 0 \in S
    <2> DEFINE T == {j \in 0 .. m : f(0) = g(j) => goal}
    <2>1. 0 \in T
      BY <1>3 DEF goal
    <2>2. ASSUME NEW j \in 1 .. m, j - 1 \in T PROVE j \in T
      <3>1. CASE Len(g(j - 1)) > 1
        <4>1. PICK y : g(j)[1] = MerklePair(g(j - 1)[1], y)
          BY <1>4, <1>5, <1>7, <3>1
        <4>2. f(0) # g(j)
          BY <1>6, <4>1, TxIsNoPair
        <4> QED BY <4>2
      <3>2. CASE ~(Len(g(j - 1)) > 1)
        <4>1. g(j) = g(j - 1)
          BY <1>4, <3>2 DEF HashRound
        <4> QED BY <2>2, <4>1
      <3> QED BY <3>1, <3>2
    <2> HIDE DEF T
    <2>3. \A j \in 0 .. m : j \in T
      BY <1>1, <2>1, <2>2, Layers!BoundedInduction
    <2> QED BY <1>1, <2>3 DEF T
  <1>9. ASSUME NEW i \in 1 .. n, i - 1 \in S PROVE i \in S
    <2>1. \A j \in 0 .. m : f(i - 1) = g(j) => goal
      BY <1>9
    <2>2. CASE ~(Len(f(i - 1)) > 1)
      <3>1. f(i) = f(i - 1)
        BY <1>4, <2>2 DEF HashRound
      <3> QED BY <2>1, <3>1
    <2>3. CASE Len(f(i - 1)) > 1
      <3> DEFINE T == {j \in 0 .. m : f(i) = g(j) => goal}
      <3>1. 0 \in T
        <4>1. PICK y : f(i)[1] = MerklePair(f(i - 1)[1], y)
          BY <1>4, <1>5, <1>7, <2>3
        <4>2. f(i) # g(0)
          BY <1>6, <4>1, TxIsNoPair
        <4> QED BY <1>1, <4>2
      <3>2. ASSUME NEW j \in 1 .. m, j - 1 \in T PROVE j \in T
        <4>1. CASE ~(Len(g(j - 1)) > 1)
          <5>1. g(j) = g(j - 1)
            BY <1>4, <4>1 DEF HashRound
          <5> QED BY <3>2, <5>1
        <4>2. CASE Len(g(j - 1)) > 1
          <5> SUFFICES ASSUME f(i) = g(j) PROVE goal
            OBVIOUS
          <5>1. f(i - 1) = g(j - 1)
            BY <1>4, <1>5, <2>3, <4>2, LayerFixed
          <5> QED BY <2>1, <5>1
        <4> QED BY <4>1, <4>2
      <3> HIDE DEF T
      <3>3. \A j \in 0 .. m : j \in T
        BY <1>1, <3>1, <3>2, Layers!BoundedInduction
      <3> QED BY <3>3 DEF T
    <2> QED BY <2>2, <2>3
  <1> HIDE DEF S
  <1>10. n \in S
    <2>1. \A i \in 0 .. n : i \in S
      BY <1>1, <1>8, <1>9, Layers!BoundedInduction
    <2> QED BY <1>1, <2>1
  <1>11. \A j \in 0 .. m : f(n) = g(j) => goal
    BY <1>10 DEF S
  <1> QED BY <1>1, <1>11 DEF f, g, goal

(* A header commits to its body, as long as no transaction is in it twice. *)
LEMMA RootFixesBody ==
    ASSUME NEW txs, IsList(txs), txs \in Seq(Range(txs)), Distinct(txs),
           NEW other, IsList(other), other \in Seq(Range(other)), Distinct(other),
           ComputeTxRoot(txs) = ComputeTxRoot(other)
    PROVE  txs = other
  <1>1. CASE ~(Len(txs) >= 1)
    <2>1. ~(Len(other) >= 1)
      BY <1>1, RootFixesFirst
    <2> QED BY <1>1, <2>1, EmptySeq DEF IsList
  <1>2. CASE Len(txs) >= 1
    <2>1. Len(other) >= 1
      BY <1>2, RootFixesFirst
    <2> DEFINE last == LayerK(txs, Len(txs))
               end == LayerK(other, Len(other))
    <2>2. last[1] = end[1]
      <3>1. txs # <<>> /\ other # <<>>
        BY <1>2, <2>1
      <3> QED BY <3>1, RootIsLoop DEF LayerK
    <2>3. /\ LayerOk(last) /\ (Len(last) = 1 \/ Len(last) + Len(txs) <= Len(txs))
          /\ LayerOk(end) /\ (Len(end) = 1 \/ Len(end) + Len(other) <= Len(other))
      <3>1. Len(txs) \in 0 .. Len(txs) /\ Len(other) \in 0 .. Len(other)
        BY DEF IsList
      <3> QED BY <1>2, <2>1, <3>1, LayersOk DEF TreeLayer
    <2> HIDE DEF last, end
    <2>4. Len(last) = 1 /\ Len(end) = 1
      <3>1. Len(last) \in Nat /\ Len(end) \in Nat /\ Len(last) >= 1 /\ Len(end) >= 1
        BY <2>3, LenProperties DEF LayerOk, IsSeqOf
      <3> QED BY <2>3, <3>1 DEF IsList
    <2>5. last = end
      <3>1. \A i \in 1 .. Len(last) : last[i] = end[i]
        BY <2>2, <2>4
      <3> QED BY <2>3, <2>4, <3>1, LayersEqual
    <2>6. Leaves(txs) = Leaves(other)
      BY <1>2, <2>1, <2>5, LayersAgree DEF last, end
    <2>7. DOMAIN txs = DOMAIN other
      <3>1. DOMAIN Leaves(txs) = DOMAIN txs /\ DOMAIN Leaves(other) = DOMAIN other
        BY DEF Leaves
      <3> QED BY <2>6, <3>1
    <2>8. Len(txs) = Len(other)
      <3>1. 1 .. Len(txs) = 1 .. Len(other) /\ Len(txs) \in Nat /\ Len(other) \in Nat
        BY <2>7 DEF IsList
      <3>2. Len(txs) \in 1 .. Len(txs) /\ Len(other) \in 1 .. Len(other)
        BY <1>2, <2>1, <3>1
      <3>3. Len(txs) \in 1 .. Len(other) /\ Len(other) \in 1 .. Len(txs)
        BY <3>1, <3>2
      <3> QED BY <3>1, <3>3
    <2>9. ASSUME NEW i \in 1 .. Len(txs) PROVE txs[i] = other[i]
      <3>1. Leaves(txs)[i] = TxHash(txs[i]) /\ Leaves(other)[i] = TxHash(other[i])
        BY <2>8 DEF Leaves, IsList
      <3> QED BY <2>6, <3>1, TxHashInjective
    <2> QED BY <2>8, <2>9, SeqEqual
  <1> QED BY <1>1, <1>2
===============================================================================
