-------------------------------- MODULE Loops ---------------------------------
(***************************************************************************)
(* Loops over a sequence.  The code's `for` loops are recursive functions  *)
(* here: entry n is the value after n rounds, and a round takes the value  *)
(* and the next element.  A recursive function is a CHOOSE; what is proved *)
(* is that there is one to choose and what its entries are, by induction   *)
(* on the rounds.                                                          *)
(***************************************************************************)
EXTENDS Integers, Sequences, WellFoundedInduction, TLAPS

CONSTANT Round(_, _, _)     \* Round(env, x, e): what a round makes of x and e

-----------------------------------------------------------------------------
(* Induction.                                                              *)

Less == {pair \in Nat \X Nat : pair[1] < pair[2]}

LEMMA NatWellFounded == IsWellFoundedOn(Less, Nat)
  BY NatLessThanWellFounded DEF Less, OpToRel

(* A set of numbers that is not empty has a least element.                 *)
LEMMA LeastElement ==
    ASSUME NEW T, T \subseteq Nat, T # {}
    PROVE  \E m \in T : \A k \in T : m <= k
  <1>1. PICK m \in T : \A k \in T : ~ (<<k, m>> \in Less)
    BY WFMin, NatWellFounded
  <1>2. ASSUME NEW k \in T PROVE m <= k
    <2>1. m \in Nat /\ k \in Nat
      OBVIOUS
    <2>2. k < m => <<k, m>> \in Nat \X Nat /\ <<k, m>>[1] < <<k, m>>[2]
      BY <2>1
    <2>3. k < m => <<k, m>> \in Less
      BY <2>2 DEF Less
    <2> QED BY <1>1, <2>1, <2>3
  <1> QED BY <1>2

(* A set that holds 0 and with each number below n the next one holds all  *)
(* of them.                                                                *)
LEMMA BoundedInduction ==
    ASSUME NEW n \in Nat, NEW S, 0 \in S,
           \A i \in 1 .. n : i - 1 \in S => i \in S
    PROVE  \A i \in 0 .. n : i \in S
  <1> DEFINE T == {i \in 0 .. n : i \notin S}
  <1> SUFFICES ASSUME T # {} PROVE FALSE
    OBVIOUS
  <1>1. T \subseteq Nat
    OBVIOUS
  <1>2. PICK m \in T : \A k \in T : m <= k
    BY <1>1, LeastElement
  <1>3. m \in 1 .. n /\ m - 1 \in 0 .. n /\ ~(m <= m - 1)
    BY <1>2
  <1>4. m - 1 \in S
    BY <1>2, <1>3
  <1> QED BY <1>3, <1>4

-----------------------------------------------------------------------------
(* The loop.                                                               *)

IsLoop(run, env, s, init, n) ==
    run = [i \in 0 .. n |-> IF i = 0 THEN init ELSE Round(env, run[i - 1], s[i])]

After(env, s, init, n) == (CHOOSE run : IsLoop(run, env, s, init, n))[n]

LEMMA LoopEntries ==
    ASSUME NEW env, NEW s, NEW init, NEW n \in Nat, NEW run, IsLoop(run, env, s, init, n)
    PROVE  /\ run[0] = init
           /\ \A i \in 1 .. n : run[i] = Round(env, run[i - 1], s[i])
  <1>1. \A i \in 0 .. n : run[i] = IF i = 0 THEN init ELSE Round(env, run[i - 1], s[i])
    BY DEF IsLoop
  <1> QED BY <1>1

LEMMA LoopExists ==
    ASSUME NEW env, NEW s, NEW init, NEW n \in Nat
    PROVE  \E run : IsLoop(run, env, s, init, n)
  <1> DEFINE S == {k \in 0 .. n : \E run : IsLoop(run, env, s, init, k)}
  <1>1. 0 \in S
    <2>1. IsLoop([i \in 0 .. 0 |-> init], env, s, init, 0)
      BY DEF IsLoop
    <2> QED BY <2>1
  <1>2. ASSUME NEW k \in 1 .. n, k - 1 \in S PROVE k \in S
    <2>1. PICK run : IsLoop(run, env, s, init, k - 1)
      BY <1>2
    <2> DEFINE more == [i \in 0 .. k |-> IF i = k THEN Round(env, run[k - 1], s[k])
                                                  ELSE run[i]]
    <2>2. \A i \in 0 .. k :
             more[i] = IF i = 0 THEN init ELSE Round(env, more[i - 1], s[i])
      <3> TAKE i \in 0 .. k
      <3>1. \A j \in 0 .. k - 1 :
               run[j] = IF j = 0 THEN init ELSE Round(env, run[j - 1], s[j])
        BY <2>1 DEF IsLoop
      <3>2. CASE i = k
        <4>1. k - 1 \in 0 .. k /\ k - 1 # k /\ k # 0
          OBVIOUS
        <4>2. more[k - 1] = run[k - 1] /\ more[k] = Round(env, run[k - 1], s[k])
          BY <4>1
        <4> QED BY <3>2, <4>1, <4>2
      <3>3. CASE i # k /\ i # 0
        <4>1. i - 1 \in 0 .. k /\ i - 1 # k /\ i \in 0 .. k - 1
          BY <3>3
        <4>2. more[i - 1] = run[i - 1] /\ more[i] = run[i]
          BY <3>3, <4>1
        <4> QED BY <3>1, <3>3, <4>1, <4>2
      <3>4. CASE i = 0
        <4>1. more[i] = run[i] /\ i \in 0 .. k - 1
          BY <3>4
        <4> QED BY <3>1, <3>4, <4>1
      <3> QED BY <3>2, <3>3, <3>4
    <2>3. more = [i \in 0 .. k |-> more[i]]
      OBVIOUS
    <2> HIDE DEF more
    <2>4. [i \in 0 .. k |-> more[i]]
             = [i \in 0 .. k |-> IF i = 0 THEN init ELSE Round(env, more[i - 1], s[i])]
      BY <2>2
    <2>5. IsLoop(more, env, s, init, k)
      BY <2>3, <2>4 DEF IsLoop
    <2> QED BY <2>5
  <1> HIDE DEF S
  <1>3. \A k \in 0 .. n : k \in S
    BY <1>1, <1>2, BoundedInduction
  <1> QED BY <1>3 DEF S

(* Two loops that start alike and see the same elements for n rounds agree *)
(* for n rounds.                                                           *)
LEMMA LoopsAgree ==
    ASSUME NEW env, NEW s, NEW t, NEW init, NEW n \in Nat, NEW m \in Nat, n <= m,
           \A i \in 1 .. n : s[i] = t[i],
           NEW run, IsLoop(run, env, s, init, n),
           NEW other, IsLoop(other, env, t, init, m)
    PROVE  run[n] = other[n]
  <1> DEFINE S == {i \in 0 .. n : run[i] = other[i]}
  <1>1. /\ run[0] = init /\ other[0] = init
        /\ \A i \in 1 .. n : run[i] = Round(env, run[i - 1], s[i])
        /\ \A i \in 1 .. m : other[i] = Round(env, other[i - 1], t[i])
    BY LoopEntries
  <1>2. 0 \in S
    BY <1>1
  <1>3. ASSUME NEW i \in 1 .. n, i - 1 \in S PROVE i \in S
    <2>1. i \in 1 .. m /\ run[i - 1] = other[i - 1] /\ s[i] = t[i]
      BY <1>3
    <2> QED BY <1>1, <2>1
  <1> HIDE DEF S
  <1>4. n \in S
    BY <1>2, <1>3, BoundedInduction
  <1> QED BY <1>4 DEF S

(* After no round the loop is where it started; after one more, a round    *)
(* further; what comes later in the sequence does not matter.              *)
LEMMA AfterIsLoop ==
    ASSUME NEW env, NEW s, NEW init, NEW n \in Nat
    PROVE  \E run : IsLoop(run, env, s, init, n) /\ After(env, s, init, n) = run[n]
  BY LoopExists DEF After

LEMMA AfterNone ==
    ASSUME NEW env, NEW s, NEW init PROVE After(env, s, init, 0) = init
  <1>1. PICK run : IsLoop(run, env, s, init, 0) /\ After(env, s, init, 0) = run[0]
    BY AfterIsLoop
  <1> QED BY <1>1, LoopEntries

LEMMA AfterPrefix ==
    ASSUME NEW env, NEW s, NEW t, NEW init, NEW n \in Nat,
           \A i \in 1 .. n : s[i] = t[i]
    PROVE  After(env, s, init, n) = After(env, t, init, n)
  <1>1. PICK run : IsLoop(run, env, s, init, n) /\ After(env, s, init, n) = run[n]
    BY AfterIsLoop
  <1>2. PICK other : IsLoop(other, env, t, init, n) /\ After(env, t, init, n) = other[n]
    BY AfterIsLoop
  <1> QED BY <1>1, <1>2, LoopsAgree

LEMMA AfterNext ==
    ASSUME NEW env, NEW s, NEW init, NEW n \in Nat
    PROVE  After(env, s, init, n + 1) = Round(env, After(env, s, init, n), s[n + 1])
  <1>1. PICK run : IsLoop(run, env, s, init, n) /\ After(env, s, init, n) = run[n]
    BY AfterIsLoop
  <1>2. PICK more : IsLoop(more, env, s, init, n + 1)
                      /\ After(env, s, init, n + 1) = more[n + 1]
    BY AfterIsLoop
  <1>3. run[n] = more[n]
    BY <1>1, <1>2, LoopsAgree
  <1>4. \A i \in 1 .. n + 1 : more[i] = Round(env, more[i - 1], s[i])
    BY <1>2, LoopEntries
  <1>5. n + 1 \in 1 .. n + 1 /\ (n + 1) - 1 = n
    OBVIOUS
  <1>6. more[n + 1] = Round(env, more[n], s[n + 1])
    BY <1>4, <1>5
  <1> QED BY <1>1, <1>2, <1>3, <1>6
===============================================================================
