------------------------- MODULE BlockProductionProofs ------------------------
(***************************************************************************)
(* What holds of a proposer between two blocks for every capacity, cap on  *)
(* bodies, set of transactions and genesis allocation.                     *)
(***************************************************************************)
EXTENDS BlockProduction, ExecutionTheorems

-----------------------------------------------------------------------------
(* The invariant: a pool whose indexes agree and accounts of the proper    *)
(* type.                                                                   *)

IInv ==
    /\ PoolOk(pool)
    /\ AccountsOk(accounts)
    /\ IsFiniteSet(DOMAIN accounts)

LEMMA AllocationsAreOk == AllocationsOk(Allocations)
  <1>1. IsList(Allocations)
    BY AllocationsAssumption DEF IsList
  <1>2. \A i \in 1 .. Len(Allocations) : Allocations[i][2] \in Nat
    BY <1>1, AllocationsAssumption, MaxU64Assumption DEF IsList
  <1> QED BY <1>1, <1>2 DEF AllocationsOk

LEMMA BodyIsOk ==
    ASSUME NEW body \in Bodies PROVE TxsOk(body)
  <1>1. body \in Seq(Txs)
    BY BodiesAssumption
  <1>2. IsList(body) /\ \A i \in 1 .. Len(body) : body[i] \in Txs
    BY <1>1 DEF IsList
  <1> QED BY <1>2, TxsAssumption DEF TxsOk, TxOk

LEMMA SelectionOk ==
    ASSUME IInv, NEW body \in Selections(pool, accounts, MaxTxs)
    PROVE  /\ BodyOk(pool, accounts, MaxTxs, body)
           /\ TxsOk(body)
           /\ Len(body) = 0 =>
                 \A a \in Senders(pool) : ~TxApplies(accounts, PendingFrom(pool, a)[1])
  <1>1. /\ Indexed(pool) /\ IsFiniteSet(DOMAIN pool.txs) /\ HeldOk(pool)
        /\ NaturalNonces(pool) /\ MaxTxs \in Nat \ {0}
    BY HeldIsNatural, MaxTxsAssumption DEF IInv, PoolOk, Bounded
  <1>2. /\ BodyOk(pool, accounts, MaxTxs, body)
        /\ Len(body) = 0 =>
              \A a \in Senders(pool) : ~TxApplies(accounts, PendingFrom(pool, a)[1])
    BY <1>1, SelectionFacts
  <1> QED BY <1>1, <1>2, SelectedOk

LEMMA Initially == Init => IInv
  <1> SUFFICES ASSUME Init PROVE IInv
    OBVIOUS
  <1>1. PoolOk(pool)
    BY EmptyPoolOk DEF Init
  <1>2. AccountsOk(accounts) /\ IsFiniteSet(DOMAIN accounts)
    BY AllocationsAreOk, GenesisAccountsOk DEF Init
  <1> QED BY <1>1, <1>2 DEF IInv

LEMMA QueueTxPreserves ==
    ASSUME IInv, NEW tx \in Txs, QueueTx(tx) PROVE IInv'
  <1>1. TxOk(tx)
    BY TxsAssumption DEF TxOk
  <1>2. PoolOk(pool')
    BY <1>1, AddKeepsPool DEF IInv, QueueTx
  <1> QED BY <1>2 DEF IInv, QueueTx

LEMMA CommitPreserves ==
    ASSUME IInv, NEW body, TxsOk(body), Commit(body) PROVE IInv'
  <1>1. AccountsOk(accounts') /\ IsFiniteSet(DOMAIN accounts')
    BY RunKeepsAccounts DEF IInv, Commit
  <1>2. Cleaned(pool, body, Len(body), PoolRemoveAll(pool, body))
    BY RemoveAllFacts DEF TxsOk
  <1>3. PoolOk(pool')
    BY <1>2 DEF Cleaned, IInv, Commit
  <1> QED BY <1>1, <1>3 DEF IInv

LEMMA Preserved == IInv /\ [Next]_vars => IInv'
  <1> SUFFICES ASSUME IInv, [Next]_vars PROVE IInv'
    OBVIOUS
  <1>1. CASE \E tx \in Txs : QueueTx(tx)
    BY <1>1, QueueTxPreserves
  <1>2. CASE \E body \in Bodies : Commit(body)
    BY <1>2, BodyIsOk, CommitPreserves
  <1>3. CASE \E body \in Selections(pool, accounts, MaxTxs) : Commit(body)
    BY <1>3, SelectionOk, CommitPreserves
  <1>4. CASE UNCHANGED vars
    BY <1>4 DEF vars, IInv
  <1> QED BY <1>1, <1>2, <1>3, <1>4 DEF Next

LEMMA Inductive == Spec => []IInv
  BY Initially, Preserved, PTL DEF Spec

(* Whatever is committed, balances stay within u64 and the pool within its *)
(* capacity.                                                               *)
THEOREM TypeCorrect == Spec => []TypeOK
  <1>1. IInv => TypeOK
    BY DEF IInv, TypeOK, PoolOk, Bounded, AccountsOk, Account
  <1> QED BY <1>1, Inductive, PTL

(* Whatever order the senders come in and however stale the pool is, what  *)
(* build_block selects applies to the state it was built from.             *)
THEOREM SelectionsApply == Spec => []SelectionApplies
  <1>1. IInv => SelectionApplies
    BY SelectionOk DEF SelectionApplies, BodyOk
  <1> QED BY <1>1, Inductive, PTL

(* Of each sender build_block selects the next held transactions, in order *)
(* and none of them twice, and never more than the cap.                    *)
THEOREM SelectionsTakePrefixes == Spec => []SelectionTakesPrefixes
  <1>1. ASSUME IInv, NEW body \in Selections(pool, accounts, MaxTxs)
        PROVE  /\ Len(body) <= MaxTxs
               /\ Range(body) \subseteq Range(pool.txs)
               /\ \A i, j \in DOMAIN body :
                     i < j /\ body[i].from = body[j].from => body[i].nonce < body[j].nonce
               /\ \A i \in DOMAIN body : \A tx \in Range(pool.txs) :
                     tx.from = body[i].from /\ tx.nonce < body[i].nonce => tx \in Range(body)
    <2>1. BodyOk(pool, accounts, MaxTxs, body)
      BY <1>1, SelectionOk
    <2>2. body \in Seq(Range(pool.txs)) /\ DOMAIN body = 1 .. Len(body)
      BY <2>1 DEF BodyOk, IsSeqOf
    <2>3. Range(body) \subseteq Range(pool.txs)
      <3>1. \A i \in DOMAIN body : body[i] \in Range(pool.txs)
        BY <2>2
      <3> QED BY <3>1 DEF Range
    <2>4. \A i \in DOMAIN body : \A tx \in Range(pool.txs) :
             tx.from = body[i].from /\ tx.nonce < body[i].nonce => tx \in Range(body)
      <3>1. \A i \in DOMAIN body : \A tx \in Range(pool.txs) :
               tx.from = body[i].from /\ tx.nonce < body[i].nonce =>
                  \E j \in DOMAIN body : body[j] = tx
        BY <2>1, <2>2 DEF BodyOk
      <3>2. \A j \in DOMAIN body : body[j] \in Range(body)
        BY DEF Range
      <3> QED BY <3>1, <3>2
    <2> QED BY <2>1, <2>2, <2>3, <2>4 DEF BodyOk
  <1>2. IInv => SelectionTakesPrefixes
    BY <1>1 DEF SelectionTakesPrefixes
  <1> QED BY <1>2, Inductive, PTL

(* A block is built empty only when no sender's next transaction applies.  *)
THEOREM EmptyOnlyWhenNothingApplies == Spec => []EmptyOnlyWhenNoHeadApplies
  <1>1. IInv => EmptyOnlyWhenNoHeadApplies
    BY SelectionOk DEF EmptyOnlyWhenNoHeadApplies
  <1> QED BY <1>1, Inductive, PTL


-----------------------------------------------------------------------------
(* The supply.  It is a sum over the accounts, taken in the order CHOOSE   *)
(* happens to pick them; what is needed of it is that the order does not   *)
(* matter.                                                                 *)

Some(A) == CHOOSE x \in A : TRUE

Entry(accts, t, A) ==
    IF A = {} THEN 0 ELSE accts[Some(A)].balance + t[A \ {Some(A)}]

Totals(t, accts) == \A A \in SUBSET DOMAIN accts : t[A] = Entry(accts, t, A)

Small(accts, k) == {A \in SUBSET DOMAIN accts : Cardinality(A) <= k}

LEMMA SmallFacts ==
    ASSUME NEW accts, IsFiniteSet(DOMAIN accts), NEW A, A \subseteq DOMAIN accts
    PROVE  /\ IsFiniteSet(A) /\ Cardinality(A) \in Nat
           /\ Cardinality(A) <= Cardinality(DOMAIN accts)
           /\ Cardinality(A) = 0 <=> A = {}
           /\ \A a \in A : Cardinality(A \ {a}) = Cardinality(A) - 1
  <1>1. IsFiniteSet(A) /\ Cardinality(A) <= Cardinality(DOMAIN accts)
    BY FS_Subset
  <1>2. Cardinality(A) \in Nat /\ (Cardinality(A) = 0 <=> A = {})
    BY <1>1, FS_CardinalityType, FS_EmptySet
  <1>3. \A a \in A : Cardinality(A \ {a}) = Cardinality(A) - 1
    BY <1>1, FS_RemoveElement
  <1> QED BY <1>1, <1>2, <1>3

LEMMA TotalsExist ==
    ASSUME NEW accts, IsFiniteSet(DOMAIN accts)
    PROVE  \E t : /\ t = [A \in SUBSET DOMAIN accts |-> Entry(accts, t, A)]
                  /\ Totals(t, accts)
  <1> DEFINE N == Cardinality(DOMAIN accts)
             upto(t, k) == \A A \in Small(accts, k) : t[A] = Entry(accts, t, A)
             S == {k \in 0 .. N : \E t : upto(t, k)}
  <1>1. N \in Nat
    BY FS_CardinalityType
  <1>2. 0 \in S
    <2> DEFINE t == [A \in Small(accts, 0) |-> 0]
    <2>1. ASSUME NEW A \in Small(accts, 0) PROVE t[A] = Entry(accts, t, A)
      <3>1. A = {}
        BY SmallFacts DEF Small
      <3> QED BY <3>1 DEF Entry
    <2>2. upto(t, 0)
      BY <2>1
    <2> HIDE DEF t, upto
    <2> QED BY <1>1, <2>2
  <1>3. ASSUME NEW k \in 1 .. N, k - 1 \in S PROVE k \in S
    <2>1. PICK t : upto(t, k - 1)
      BY <1>3
    <2> DEFINE more == [A \in Small(accts, k) |-> Entry(accts, t, A)]
    <2>2. ASSUME NEW A \in Small(accts, k) PROVE more[A] = Entry(accts, more, A)
      <3>1. CASE A = {}
        BY <3>1 DEF Entry
      <3>2. CASE A # {}
        <4> DEFINE B == A \ {Some(A)}
        <4>1. Some(A) \in A
          BY <3>2 DEF Some
        <4>2. A \subseteq DOMAIN accts /\ Cardinality(A) <= k
          BY DEF Small
        <4>3. Cardinality(A) \in Nat /\ Cardinality(B) = Cardinality(A) - 1
          BY <4>1, <4>2, SmallFacts
        <4>4. B \subseteq DOMAIN accts /\ Cardinality(B) <= k - 1 /\ Cardinality(B) <= k
          BY <4>2, <4>3
        <4> HIDE DEF B
        <4>5. B \in Small(accts, k - 1) /\ B \in Small(accts, k)
          BY <4>4 DEF Small
        <4>6. more[B] = t[B]
          BY <2>1, <4>5
        <4> HIDE DEF more
        <4>7. Entry(accts, more, A) = Entry(accts, t, A)
          BY <3>2, <4>6 DEF Entry, B
        <4> QED BY <4>7 DEF more
      <3> QED BY <3>1, <3>2
    <2>3. upto(more, k)
      BY <2>2
    <2> HIDE DEF more, upto
    <2> QED BY <2>3
  <1> HIDE DEF S
  <1>4. \A k \in 0 .. N : k \in S
    BY <1>1, <1>2, <1>3, Runs!BoundedInduction
  <1>5. N \in S
    BY <1>1, <1>4
  <1>6. PICK s : upto(s, N)
    BY <1>5 DEF S
  <1> DEFINE t == [A \in SUBSET DOMAIN accts |-> Entry(accts, s, A)]
  <1>7. \A A \in SUBSET DOMAIN accts : s[A] = Entry(accts, s, A)
    <2> SUFFICES ASSUME NEW A \in SUBSET DOMAIN accts PROVE s[A] = Entry(accts, s, A)
      OBVIOUS
    <2>1. A \in Small(accts, N)
      BY SmallFacts DEF Small
    <2> QED BY <1>6, <2>1
  <1>8. ASSUME NEW A \in SUBSET DOMAIN accts PROVE Entry(accts, s, A) = Entry(accts, t, A)
    <2>1. CASE A = {}
      BY <2>1 DEF Entry
    <2>2. CASE A # {}
      <3>1. A \ {Some(A)} \in SUBSET DOMAIN accts
        OBVIOUS
      <3>2. t[A \ {Some(A)}] = s[A \ {Some(A)}]
        BY <1>7, <3>1
      <3> QED BY <2>2, <3>2 DEF Entry
    <2> QED BY <2>1, <2>2
  <1>9. t = [A \in SUBSET DOMAIN accts |-> Entry(accts, t, A)]
    <2>1. [A \in SUBSET DOMAIN accts |-> Entry(accts, s, A)]
             = [A \in SUBSET DOMAIN accts |-> Entry(accts, t, A)]
      BY <1>8
    <2> QED BY <2>1
  <1>10. Totals(t, accts)
    <2>1. \A A \in SUBSET DOMAIN accts : t[A] = Entry(accts, s, A)
      OBVIOUS
    <2> HIDE DEF t
    <2> QED BY <1>8, <2>1 DEF Totals
  <1> HIDE DEF t
  <1> QED BY <1>9, <1>10

LEMMA SupplyIsTotal ==
    ASSUME NEW accts, IsFiniteSet(DOMAIN accts)
    PROVE  \E t : Totals(t, accts) /\ Supply(accts) = t[DOMAIN accts]
  <1> DEFINE t == CHOOSE t : t = [A \in SUBSET DOMAIN accts |-> Entry(accts, t, A)]
  <1>1. Supply(accts) = t[DOMAIN accts]
    BY DEF Supply, Entry, Some
  <1>2. t = [A \in SUBSET DOMAIN accts |-> Entry(accts, t, A)]
    BY TotalsExist
  <1> HIDE DEF t
  <1>3. Totals(t, accts)
    <2>1. \A A \in SUBSET DOMAIN accts :
             [B \in SUBSET DOMAIN accts |-> Entry(accts, t, B)][A] = Entry(accts, t, A)
      OBVIOUS
    <2> QED BY <1>2, <2>1 DEF Totals
  <1> QED BY <1>1, <1>3

(* Any account may be taken out of a sum first.                            *)
SumsRight(accts, t, A) ==
    /\ t[A] \in Int
    /\ \A a \in A : t[A] = accts[a].balance + t[A \ {a}]

LEMMA TotalAnyOrder ==
    ASSUME NEW accts, IsFiniteSet(DOMAIN accts), AccountsOk(accts),
           NEW t, Totals(t, accts), NEW A \in SUBSET DOMAIN accts
    PROVE  SumsRight(accts, t, A)
  <1> DEFINE N == Cardinality(DOMAIN accts)
             S == {k \in 0 .. N : \A B \in SUBSET DOMAIN accts :
                                     Cardinality(B) <= k => SumsRight(accts, t, B)}
  <1>1. N \in Nat
    BY FS_CardinalityType
  <1>2. \A a \in DOMAIN accts : accts[a].balance \in Int
    BY MaxU64Assumption DEF AccountsOk, Account
  <1>3. 0 \in S
    <2>1. ASSUME NEW B \in SUBSET DOMAIN accts, Cardinality(B) <= 0
          PROVE  SumsRight(accts, t, B)
      <3>1. B = {}
        BY <2>1, SmallFacts
      <3>2. t[B] = Entry(accts, t, B)
        BY DEF Totals
      <3>3. t[B] = 0
        BY <3>1, <3>2 DEF Entry
      <3> QED BY <3>1, <3>3 DEF SumsRight
    <2> QED BY <1>1, <2>1
  <1>4. ASSUME NEW k \in 1 .. N, k - 1 \in S PROVE k \in S
    <2>1. \A B \in SUBSET DOMAIN accts : Cardinality(B) <= k - 1 => SumsRight(accts, t, B)
      BY <1>4
    <2> SUFFICES ASSUME NEW B \in SUBSET DOMAIN accts, Cardinality(B) = k
                 PROVE  SumsRight(accts, t, B)
      <3>1. \A B \in SUBSET DOMAIN accts : Cardinality(B) \in Nat
        BY SmallFacts
      <3>2. \A B \in SUBSET DOMAIN accts :
               Cardinality(B) <= k => Cardinality(B) <= k - 1 \/ Cardinality(B) = k
        BY <3>1
      <3> QED BY <2>1, <3>2
    <2> DEFINE c == Some(B)
    <2>2. B # {} /\ \A a \in B : Cardinality(B \ {a}) = k - 1
      BY SmallFacts
    <2>3. c \in B
      BY <2>2 DEF Some
    <2>4. t[B] = accts[c].balance + t[B \ {c}]
      <3>1. t[B] = Entry(accts, t, B)
        BY DEF Totals
      <3> QED BY <2>2, <3>1 DEF Entry
    <2> HIDE DEF c, S
    <2>5. \A a \in B : SumsRight(accts, t, B \ {a})
      <3> TAKE a \in B
      <3>1. B \ {a} \in SUBSET DOMAIN accts
        OBVIOUS
      <3> QED BY <2>1, <2>2, <3>1
    <2>6. ASSUME NEW a \in B PROVE t[B] = accts[a].balance + t[B \ {a}]
      <3>1. CASE a = c
        BY <2>4, <3>1
      <3>2. CASE a # c
        <4> DEFINE rest == (B \ {a}) \ {c}
        <4>1. t[B \ {a}] = accts[c].balance + t[rest]
          <5>1. c \in B \ {a}
            BY <2>3, <3>2
          <5> QED BY <2>5, <5>1 DEF SumsRight
        <4>2. t[B \ {c}] = accts[a].balance + t[rest]
          <5>1. a \in B \ {c} /\ (B \ {c}) \ {a} = rest
            BY <3>2
          <5>2. t[B \ {c}] = accts[a].balance + t[(B \ {c}) \ {a}]
            BY <2>3, <2>5, <5>1 DEF SumsRight
          <5> QED BY <5>1, <5>2
        <4>3. t[B \ {a}] \in Int /\ t[B \ {c}] \in Int
          BY <2>3, <2>5 DEF SumsRight
        <4>4. t[rest] \in Int
          <5>1. B \ {a} \in SUBSET DOMAIN accts /\ rest \in SUBSET DOMAIN accts /\ c \in B \ {a}
            BY <2>3, <3>2
          <5>2. Cardinality(B \ {a}) = k - 1 /\ Cardinality(rest) = Cardinality(B \ {a}) - 1
            BY <2>2, <5>1, SmallFacts
          <5>3. Cardinality(rest) <= k - 1
            BY <5>2
          <5> QED BY <2>1, <5>1, <5>3 DEF SumsRight
        <4>5. accts[a].balance \in Int /\ accts[c].balance \in Int
          BY <1>2, <2>3
        <4> HIDE DEF rest
        <4> QED BY <2>4, <4>1, <4>2, <4>3, <4>4, <4>5
      <3> QED BY <3>1, <3>2
    <2>7. t[B] \in Int
      <3>1. t[B \ {c}] \in Int /\ accts[c].balance \in Int
        BY <1>2, <2>3, <2>5 DEF SumsRight
      <3> QED BY <2>4, <3>1
    <2> QED BY <2>6, <2>7 DEF SumsRight
  <1> HIDE DEF S
  <1>5. \A k \in 0 .. N : k \in S
    BY <1>1, <1>3, <1>4, Runs!BoundedInduction
  <1>6. Cardinality(A) \in 0 .. N
    BY <1>1, SmallFacts
  <1>7. Cardinality(A) \in S
    BY <1>5, <1>6
  <1> QED BY <1>6, <1>7 DEF S

(* Equal balances, equal sums.                                             *)
LEMMA TotalsAgree ==
    ASSUME NEW accts, NEW t, Totals(t, accts), IsFiniteSet(DOMAIN accts),
           NEW others, NEW u, Totals(u, others), NEW A,
           A \subseteq DOMAIN accts, A \subseteq DOMAIN others,
           \A a \in A : accts[a].balance = others[a].balance
    PROVE  t[A] = u[A]
  <1> DEFINE N == Cardinality(A)
             S == {k \in 0 .. N : \A B \in SUBSET A : Cardinality(B) = k => t[B] = u[B]}
  <1>1. N \in Nat
    BY SmallFacts
  <1>2. ASSUME NEW B \in SUBSET A
        PROVE  t[B] = Entry(accts, t, B) /\ u[B] = Entry(others, u, B)
    BY DEF Totals
  <1>3. 0 \in S
    <2>1. ASSUME NEW B \in SUBSET A, Cardinality(B) = 0 PROVE t[B] = u[B]
      <3>1. B = {}
        BY <2>1, SmallFacts
      <3> QED BY <1>2, <3>1 DEF Entry
    <2> QED BY <1>1, <2>1
  <1>4. ASSUME NEW k \in 1 .. N, k - 1 \in S PROVE k \in S
    <2>1. \A B \in SUBSET A : Cardinality(B) = k - 1 => t[B] = u[B]
      BY <1>4
    <2> SUFFICES ASSUME NEW B \in SUBSET A, Cardinality(B) = k PROVE t[B] = u[B]
      OBVIOUS
    <2> DEFINE c == Some(B)
    <2>2. B # {} /\ \A a \in B : Cardinality(B \ {a}) = k - 1
      BY SmallFacts
    <2>3. c \in B /\ c \in A
      BY <2>2 DEF Some
    <2>4. t[B] = accts[c].balance + t[B \ {c}] /\ u[B] = others[c].balance + u[B \ {c}]
      BY <1>2, <2>2 DEF Entry
    <2> HIDE DEF c
    <2>5. t[B \ {c}] = u[B \ {c}]
      <3>1. B \ {c} \in SUBSET A
        OBVIOUS
      <3> QED BY <2>1, <2>2, <2>3, <3>1
    <2>6. accts[c].balance = others[c].balance
      BY <2>3
    <2> QED BY <2>4, <2>5, <2>6
  <1> HIDE DEF S
  <1>5. \A k \in 0 .. N : k \in S
    BY <1>1, <1>3, <1>4, Runs!BoundedInduction
  <1>6. N \in S
    BY <1>1, <1>5
  <1> QED BY <1>6 DEF S

(* A new account entry changes the supply by what it changes the balance.  *)
LEMMA SupplyAfterBind ==
    ASSUME NEW accts, AccountsOk(accts), IsFiniteSet(DOMAIN accts),
           NEW a, NEW account \in Account, NEW later, later = Bind(accts, a, account)
    PROVE  /\ Supply(accts) \in Int
           /\ Supply(later) = Supply(accts) - GetBalance(accts, a) + account.balance
  <1>1. /\ \A x : x \in DOMAIN later <=> x \in DOMAIN accts \/ x = a
        /\ later[a] = account
        /\ \A x \in DOMAIN accts : x # a => later[x] = accts[x]
    BY BindFacts
  <1>2. AccountsOk(later)
    BY BindAccount
  <1>3. DOMAIN later = DOMAIN accts \cup {a}
    BY <1>1
  <1>4. IsFiniteSet(DOMAIN later)
    BY <1>3, FS_AddElement
  <1>5. PICK t : Totals(t, accts) /\ Supply(accts) = t[DOMAIN accts]
    BY SupplyIsTotal
  <1>6. PICK u : Totals(u, later) /\ Supply(later) = u[DOMAIN later]
    BY <1>4, SupplyIsTotal
  <1> DEFINE rest == DOMAIN accts \ {a}
  <1>7. /\ rest \subseteq DOMAIN accts /\ rest \subseteq DOMAIN later
        /\ \A x \in rest : accts[x].balance = later[x].balance
    BY <1>1
  <1>8. t[rest] = u[rest]
    BY <1>5, <1>6, <1>7, TotalsAgree
  <1>9. t[DOMAIN accts] \in Int /\ t[rest] \in Int
    <2>1. SumsRight(accts, t, DOMAIN accts) /\ SumsRight(accts, t, rest)
      BY <1>5, <1>7, TotalAnyOrder
    <2> QED BY <2>1 DEF SumsRight
  <1>10. u[DOMAIN later] = account.balance + u[rest]
    <2>1. SumsRight(later, u, DOMAIN later)
      BY <1>2, <1>4, <1>6, TotalAnyOrder
    <2>2. a \in DOMAIN later /\ DOMAIN later \ {a} = rest
      BY <1>3
    <2>3. u[DOMAIN later] = later[a].balance + u[DOMAIN later \ {a}]
      BY <2>1, <2>2 DEF SumsRight
    <2> QED BY <1>1, <2>2, <2>3
  <1>11. t[DOMAIN accts] = GetBalance(accts, a) + t[rest]
    <2>1. CASE a \in DOMAIN accts
      <3>1. SumsRight(accts, t, DOMAIN accts)
        BY <1>5, TotalAnyOrder
      <3> QED BY <2>1, <3>1 DEF SumsRight, GetBalance, GetAccount
    <2>2. CASE a \notin DOMAIN accts
      <3>1. rest = DOMAIN accts /\ GetBalance(accts, a) = 0
        BY <2>2 DEF GetBalance, GetAccount, DefaultAccount
      <3> QED BY <1>9, <3>1
    <2> QED BY <2>1, <2>2
  <1>12. account.balance \in Int /\ GetBalance(accts, a) \in Int
    BY GetFacts, MaxU64Assumption DEF Account
  <1> HIDE DEF rest
  <1> QED BY <1>5, <1>6, <1>8, <1>9, <1>10, <1>11, <1>12


(* A transaction moves coins, a self-transfer included.                    *)
LEMMA ApplyConserves ==
    ASSUME NEW accts, AccountsOk(accts), IsFiniteSet(DOMAIN accts),
           NEW tx, TxOk(tx), TxApplies(accts, tx)
    PROVE  Supply(ApplyTransaction(accts, tx)) = Supply(accts)
  <1> DEFINE b == GetBalance(accts, tx.from) - tx.amount
             n == GetNonce(accts, tx.from) + 1
             debited == Debit(accts, tx)
             later == ApplyTransaction(accts, tx)
  <1>1. b \in 0 .. MaxU64 /\ n \in Nat /\ tx.amount \in Nat
    BY GetFacts, MaxU64Assumption DEF TxApplies, TxOk
  <1>2. debited = Bind(accts, tx.from, [balance |-> b, nonce |-> n])
    BY DEF Debit
  <1>3. later = Bind(debited, tx.to, [balance |-> GetBalance(debited, tx.to) + tx.amount,
                                      nonce   |-> GetNonce(debited, tx.to)])
    BY DEF ApplyTransaction
  <1>4. AccountsOk(later)
    BY ApplyFacts
  <1> HIDE DEF later, debited
  <1>5. /\ Supply(accts) \in Int
        /\ Supply(debited) = Supply(accts) - GetBalance(accts, tx.from) + b
    <2> DEFINE account == [balance |-> b, nonce |-> n]
    <2>1. account \in Account /\ account.balance = b
      BY <1>1, AccountFacts
    <2> HIDE DEF account
    <2>2. debited = Bind(accts, tx.from, account)
      BY <1>2 DEF account
    <2> QED BY <2>1, <2>2, SupplyAfterBind
  <1>6. AccountsOk(debited) /\ IsFiniteSet(DOMAIN debited)
    <2>1. [balance |-> b, nonce |-> n] \in Account
      BY <1>1, AccountFacts
    <2>2. AccountsOk(debited)
      BY <1>2, <2>1, BindAccount
    <2>3. DOMAIN debited = DOMAIN accts \cup {tx.from}
      BY <1>2 DEF Bind
    <2> QED BY <2>2, <2>3, FS_AddElement
  <1> DEFINE B == GetBalance(debited, tx.to) + tx.amount
             account == [balance |-> B, nonce |-> GetNonce(debited, tx.to)]
  <1>7. account \in Account /\ account.balance = B
    <2>1. tx.to \in DOMAIN later /\ later[tx.to] = account
      BY <1>3 DEF Bind
    <2> QED BY <1>4, <2>1 DEF AccountsOk
  <1>8. later = Bind(debited, tx.to, account)
    BY <1>3
  <1>9. GetBalance(debited, tx.to) \in Int /\ GetBalance(accts, tx.from) \in Int
    BY <1>6, GetFacts, MaxU64Assumption
  <1>10. account.balance = GetBalance(debited, tx.to) + tx.amount
    BY <1>7
  <1> HIDE DEF account, B
  <1>11. /\ Supply(debited) \in Int
         /\ Supply(later) = Supply(debited) - GetBalance(debited, tx.to) + account.balance
    BY <1>6, <1>7, <1>8, SupplyAfterBind
  <1>12. b = GetBalance(accts, tx.from) - tx.amount
    OBVIOUS
  <1> HIDE DEF b
  <1>13. Supply(later) = Supply(accts)
    BY <1>1, <1>5, <1>9, <1>10, <1>11, <1>12
  <1> QED BY <1>13 DEF later

RunConserved(accts, run) == RunOk(accts, run) /\ Supply(run.accounts) = Supply(accts)

(* A block moves coins, one that does not apply moves none.                *)
LEMMA BlockConserves ==
    ASSUME NEW accts, AccountsOk(accts), IsFiniteSet(DOMAIN accts), NEW txs, TxsOk(txs)
    PROVE  Supply(ApplyBlock(accts, txs)) = Supply(accts)
  <1> DEFINE n == Len(txs)
             at(i) == RunOf(accts, txs, i)
             S == {i \in 0 .. n : RunConserved(accts, at(i))}
  <1>1. n \in Nat
    BY DEF TxsOk, IsList
  <1>2. 0 \in S
    <2>1. at(0) = Untouched(accts)
      BY Runs!AfterNone DEF RunOf
    <2> HIDE DEF at
    <2>2. at(0).ok /\ at(0).accounts = accts
      BY <2>1 DEF Untouched
    <2>3. RunConserved(accts, at(0))
      BY <2>2 DEF RunOk, RunConserved
    <2> QED BY <1>1, <2>3
  <1>3. ASSUME NEW i \in 1 .. n, i - 1 \in S PROVE i \in S
    <2> DEFINE old == at(i - 1)
               new == at(i)
    <2>1. i - 1 \in Nat /\ (i - 1) + 1 = i
      OBVIOUS
    <2>2. new = RunRound(accts, old, txs[i])
      BY <2>1, Runs!AfterNext DEF RunOf
    <2>3. RunOk(accts, old) /\ Supply(old.accounts) = Supply(accts)
      BY <1>3 DEF RunConserved
    <2> HIDE DEF at, old
    <2>4. AccountsOk(old.accounts) /\ IsFiniteSet(DOMAIN old.accounts) /\ TxOk(txs[i])
      BY <2>3 DEF RunOk, TxsOk
    <2>5. RunConserved(accts, new)
      <3>1. CASE old.ok /\ TxApplies(old.accounts, txs[i])
        <4>1. new.ok /\ new.accounts = ApplyTransaction(old.accounts, txs[i])
          BY <2>2, <3>1 DEF RunRound
        <4>2. Supply(new.accounts) = Supply(accts)
          BY <2>3, <2>4, <3>1, <4>1, ApplyConserves
        <4>3. RunOk(accts, new)
          BY <2>4, <3>1, <4>1, RunStepOk
        <4> QED BY <4>2, <4>3 DEF RunConserved
      <3>2. CASE ~(old.ok /\ TxApplies(old.accounts, txs[i]))
        <4>1. new.accounts = accts
          BY <2>2, <3>2 DEF RunRound
        <4> QED BY <4>1 DEF RunOk, RunConserved
      <3> QED BY <3>1, <3>2
    <2> QED BY <2>5
  <1> HIDE DEF S
  <1>4. \A i \in 0 .. n : i \in S
    BY <1>1, <1>2, <1>3, Runs!BoundedInduction
  <1>5. n \in S /\ RunTxs(accts, txs) = at(n)
    BY <1>1, <1>4, RunTxsIsRun
  <1>6. RunConserved(accts, RunTxs(accts, txs))
    BY <1>5 DEF S
  <1> QED BY <1>6 DEF RunConserved, ApplyBlock

-----------------------------------------------------------------------------
(* Genesis.  Wrapping after every credit or once at the end is the same.   *)

LEMMA ModuloFacts ==
    ASSUME NEW x \in Nat, NEW m \in Nat, m >= 1
    PROVE  /\ x \div m \in Nat /\ x % m \in Nat /\ x % m < m
           /\ x = m * (x \div m) + (x % m)
  OBVIOUS

LEMMA ModuloIs ==
    ASSUME NEW x \in Nat, NEW m \in Nat, m >= 1,
           NEW q \in Nat, NEW r \in Nat, r < m, x = m * q + r
    PROVE  x % m = r
  <1> DEFINE p == x \div m
             t == x % m
  <1>1. p \in Nat /\ t \in Nat /\ t < m /\ x = m * p + t
    BY ModuloFacts
  <1> HIDE DEF p, t
  <1>2. CASE p < q
    <2>1. m * (p + 1) <= m * q
      BY <1>1, <1>2
    <2>2. m * (p + 1) = m * p + m
      BY <1>1
    <2> QED BY <1>1, <2>1, <2>2
  <1>3. CASE q < p
    <2>1. m * (q + 1) <= m * p
      BY <1>1, <1>3
    <2>2. m * (q + 1) = m * q + m
      OBVIOUS
    <2> QED BY <1>1, <2>1, <2>2
  <1>4. CASE p = q
    <2>1. m * p \in Nat /\ m * p = m * q
      BY <1>1, <1>4
    <2> QED BY <1>1, <2>1 DEF t
  <1>5. p < q \/ q < p \/ p = q
    BY <1>1
  <1> QED BY <1>2, <1>3, <1>4, <1>5 DEF t

LEMMA ModuloOfSum ==
    ASSUME NEW x \in Nat, NEW y \in Nat, NEW m \in Nat, m >= 1
    PROVE  ((x % m) + y) % m = (x + y) % m
  <1> DEFINE q == x \div m
             r == x % m
             p == (r + y) \div m
             t == (r + y) % m
  <1>1. q \in Nat /\ r \in Nat /\ x = m * q + r
    BY ModuloFacts
  <1>2. p \in Nat /\ t \in Nat /\ t < m /\ r + y = m * p + t
    <2> HIDE DEF r
    <2>1. r + y \in Nat
      BY <1>1
    <2> QED BY <2>1, ModuloFacts
  <1> HIDE DEF q, r, p, t
  <1>3. m * (q + p) = m * q + m * p
    BY <1>1, <1>2
  <1>4. x + y = m * (q + p) + t /\ x + y \in Nat /\ q + p \in Nat
    BY <1>1, <1>2, <1>3
  <1>5. (x + y) % m = t
    BY <1>2, <1>4, ModuloIs
  <1> QED BY <1>5 DEF r, t

Sums ==
    INSTANCE Loops WITH Round <- LAMBDA env, x, e : x + IF e[1] = env THEN e[2] ELSE 0

GivenTo(a, i) == Sums!After(a, Allocations, 0, i)

Credited(i) == Credits!After(0, Allocations, EmptyMap, i)

LEMMA GivenFacts ==
    ASSUME NEW a
    PROVE  /\ GivenTo(a, 0) = 0
           /\ \A i \in 1 .. Len(Allocations) :
                 GivenTo(a, i) = GivenTo(a, i - 1)
                    + IF Allocations[i][1] = a THEN Allocations[i][2] ELSE 0
  <1>1. GivenTo(a, 0) = 0
    BY Sums!AfterNone DEF GivenTo
  <1>2. ASSUME NEW i \in 1 .. Len(Allocations)
        PROVE  GivenTo(a, i) = GivenTo(a, i - 1)
                    + IF Allocations[i][1] = a THEN Allocations[i][2] ELSE 0
    <2>1. i - 1 \in Nat /\ (i - 1) + 1 = i
      OBVIOUS
    <2> QED BY <2>1, Sums!AfterNext DEF GivenTo
  <1> QED BY <1>1, <1>2

LEMMA CreditedFacts ==
    /\ Credited(0) = EmptyMap
    /\ \A i \in 1 .. Len(Allocations) :
          Credited(i) = Credit(Credited(i - 1), Allocations[i][1], Allocations[i][2])
  <1>1. Credited(0) = EmptyMap
    BY Credits!AfterNone DEF Credited
  <1>2. ASSUME NEW i \in 1 .. Len(Allocations)
        PROVE  Credited(i) = Credit(Credited(i - 1), Allocations[i][1], Allocations[i][2])
    <2>1. i - 1 \in Nat /\ (i - 1) + 1 = i
      OBVIOUS
    <2> QED BY <2>1, Credits!AfterNext DEF Credited
  <1> QED BY <1>1, <1>2

(* After i credits: who has an account, and what is on it.                 *)
CreditsAddUp(accts, i) ==
    /\ accts = [a \in {Allocations[j][1] : j \in 1 .. i} |-> accts[a]]
    /\ \A a : /\ GivenTo(a, i) \in Nat
              /\ GetAccount(accts, a)
                    = [balance |-> GivenTo(a, i) % (MaxU64 + 1), nonce |-> 0]

LEMMA CreditAddsUp ==
    ASSUME NEW i \in 1 .. Len(Allocations), NEW accts, CreditsAddUp(accts, i - 1),
           NEW later, later = Credit(accts, Allocations[i][1], Allocations[i][2])
    PROVE  CreditsAddUp(later, i)
  <1> DEFINE who == Allocations[i][1]
             amount == Allocations[i][2]
             W == MaxU64 + 1
             b == (GetBalance(accts, who) + amount) % W
             n == GetNonce(accts, who)
  <1>1. amount \in Nat /\ W \in Nat /\ W >= 1
    BY AllocationsAreOk, MaxU64Assumption DEF AllocationsOk
  <1>2. \A a : /\ GivenTo(a, i - 1) \in Nat
              /\ GetAccount(accts, a)
                    = [balance |-> GivenTo(a, i - 1) % W, nonce |-> 0]
    BY DEF CreditsAddUp
  <1>3. \A a : GivenTo(a, i) = GivenTo(a, i - 1) + IF who = a THEN amount ELSE 0
    BY GivenFacts
  <1>4. later = Bind(accts, who, [balance |-> b, nonce |-> n])
    BY DEF Credit
  <1>5. GetBalance(accts, who) = GivenTo(who, i - 1) % W /\ n = 0
    BY <1>2 DEF GetBalance, GetNonce
  <1> HIDE DEF amount, W, n
  <1>6. b = GivenTo(who, i) % W
    <2>1. GivenTo(who, i) = GivenTo(who, i - 1) + amount
      BY <1>3
    <2>2. ((GivenTo(who, i - 1) % W) + amount) % W = (GivenTo(who, i - 1) + amount) % W
      BY <1>1, <1>2, ModuloOfSum
    <2> QED BY <1>5, <2>1, <2>2
  <1> HIDE DEF who, b
  <1>7. /\ DOMAIN later = DOMAIN accts \cup {who}
        /\ later = [a \in DOMAIN later |-> later[a]]
        /\ later[who] = [balance |-> b, nonce |-> n]
        /\ \A a \in DOMAIN accts : a # who => later[a] = accts[a]
    BY <1>4 DEF Bind
  <1>8. DOMAIN later = {Allocations[j][1] : j \in 1 .. i}
    <2>1. DOMAIN accts = {Allocations[j][1] : j \in 1 .. i - 1}
      BY DEF CreditsAddUp
    <2>2. \A j : j \in 1 .. i <=> j \in 1 .. i - 1 \/ j = i
      OBVIOUS
    <2> QED BY <1>7, <2>1, <2>2 DEF who
  <1>9. ASSUME NEW a
        PROVE  /\ GivenTo(a, i) \in Nat
               /\ GetAccount(later, a) = [balance |-> GivenTo(a, i) % W, nonce |-> 0]
    <2>1. CASE a = who
      BY <1>1, <1>2, <1>3, <1>5, <1>6, <1>7, <2>1 DEF GetAccount
    <2>2. CASE a # who
      <3>1. GivenTo(a, i) = GivenTo(a, i - 1)
        BY <1>2, <1>3, <2>2
      <3>2. GetAccount(later, a) = GetAccount(accts, a)
        BY <1>7, <2>2 DEF GetAccount
      <3> QED BY <1>2, <3>1, <3>2
    <2> QED BY <2>1, <2>2
  <1> QED BY <1>7, <1>8, <1>9 DEF CreditsAddUp, W

(* Crediting the allocations one by one gives each address their sum.      *)
LEMMA GenesisIsAllocated == GenesisAccounts(Allocations) = Allocated
  <1> DEFINE n == Len(Allocations)
             S == {i \in 0 .. n : CreditsAddUp(Credited(i), i)}
  <1>1. n \in Nat /\ DOMAIN Allocations = 1 .. n
    BY AllocationsAreOk DEF AllocationsOk, IsList
  <1>2. 0 \in S
    <2>1. EmptyMap = [a \in {} |-> EmptyMap[a]]
      BY DEF EmptyMap
    <2>2. {Allocations[j][1] : j \in 1 .. 0} = {}
      OBVIOUS
    <2>3. \A a : a \notin DOMAIN EmptyMap
      BY DEF EmptyMap
    <2>4. 0 % (MaxU64 + 1) = 0
      <3>1. MaxU64 + 1 \in Nat /\ MaxU64 + 1 >= 1 /\ 0 = (MaxU64 + 1) * 0 + 0
        BY MaxU64Assumption
      <3> QED BY <3>1, ModuloIs
    <2>5. \A a : /\ GivenTo(a, 0) \in Nat
                /\ GetAccount(EmptyMap, a)
                      = [balance |-> GivenTo(a, 0) % (MaxU64 + 1), nonce |-> 0]
      BY <2>3, <2>4, GivenFacts DEF GetAccount, DefaultAccount
    <2>6. CreditsAddUp(EmptyMap, 0)
      BY <2>1, <2>2, <2>5 DEF CreditsAddUp
    <2> QED BY <1>1, <2>6, CreditedFacts
  <1>3. ASSUME NEW i \in 1 .. n, i - 1 \in S PROVE i \in S
    BY <1>3, CreditedFacts, CreditAddsUp
  <1> HIDE DEF S
  <1>4. n \in S
    <2> HIDE DEF n
    <2>1. \A i \in 0 .. n : i \in S
      BY <1>1, <1>2, <1>3, Credits!BoundedInduction
    <2> QED BY <1>1, <2>1
  <1>5. CreditsAddUp(Credited(n), n)
    BY <1>4 DEF S
  <1>6. GenesisAccounts(Allocations) = Credited(n)
    BY DEF GenesisAccounts, Credited, Credits!After, Credits!IsLoop
  <1>7. \A a : AllocatedTo(a) = GivenTo(a, n)
    BY DEF AllocatedTo, GivenTo, Sums!After, Sums!IsLoop
  <1>8. \A a \in DOMAIN Credited(n) :
           Credited(n)[a] = [balance |-> AllocatedTo(a) % (MaxU64 + 1), nonce |-> 0]
    BY <1>5, <1>7 DEF CreditsAddUp, GetAccount
  <1>9. Credited(n) = [a \in {Allocations[j][1] : j \in 1 .. n} |-> Credited(n)[a]]
    BY <1>5 DEF CreditsAddUp
  <1> HIDE DEF n
  <1> QED BY <1>1, <1>6, <1>8, <1>9 DEF Allocated

(* Genesis gives out the allocations, and committing blocks moves coins    *)
(* between accounts and neither makes nor destroys any, in every run.      *)
THEOREM SupplyIsConserved == Spec => []SupplyConserved
  <1>1. Init => SupplyConserved
    BY GenesisIsAllocated DEF Init, SupplyConserved
  <1>2. IInv /\ SupplyConserved /\ [Next]_vars => SupplyConserved'
    <2> SUFFICES ASSUME IInv, SupplyConserved, [Next]_vars PROVE SupplyConserved'
      OBVIOUS
    <2>1. ASSUME NEW body, TxsOk(body), Commit(body) PROVE SupplyConserved'
      <3>1. Supply(ApplyBlock(accounts, body)) = Supply(accounts)
        BY <2>1, BlockConserves DEF IInv
      <3> QED BY <2>1, <3>1 DEF Commit, SupplyConserved
    <2>2. ASSUME accounts' = accounts PROVE SupplyConserved'
      BY <2>2 DEF SupplyConserved
    <2>3. CASE \E tx \in Txs : QueueTx(tx)
      BY <2>2, <2>3 DEF QueueTx
    <2>4. CASE \E body \in Bodies : Commit(body)
      BY <2>1, <2>4, BodyIsOk
    <2>5. CASE \E body \in Selections(pool, accounts, MaxTxs) : Commit(body)
      BY <2>1, <2>5, SelectionOk
    <2>6. CASE UNCHANGED vars
      BY <2>2, <2>6 DEF vars
    <2> QED BY <2>3, <2>4, <2>5, <2>6 DEF Next
  <1> QED BY <1>1, <1>2, Inductive, PTL DEF Spec
===============================================================================
