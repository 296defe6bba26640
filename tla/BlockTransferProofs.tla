-------------------------- MODULE BlockTransferProofs -------------------------
(***************************************************************************)
(* The byte codec at large: for every block of well-formed fields, every   *)
(* number of transactions and every sequence of bytes.  What is written is *)
(* read again, what is read was written, and the sizes are exact; the      *)
(* Merkle root fixes the body and is that of the tree by position.         *)
(*                                                                         *)
(* The codec's loops (the fields of a record, the items of a Vec, the sum  *)
(* of their sizes) are instances of module Loops.                          *)
(***************************************************************************)
EXTENDS BlockTransfer, ExecutionTheorems

-----------------------------------------------------------------------------
(* Sequences of bytes.                                                     *)

AllBytes == Seq(Byte)

Cat(s, t) == s \o t

IsCut(b, m, n) == m \in 0 .. n /\ n \in 0 .. Len(b)

Cut(b, m, n) == SubSeq(b, m + 1, n)

LEMMA BytesLen ==
    ASSUME NEW b \in AllBytes
    PROVE  Len(b) \in Nat /\ DOMAIN b = 1 .. Len(b) /\ \A i \in 1 .. Len(b) : b[i] \in Byte
  BY LenProperties, ElementOfSeq DEF AllBytes

LEMMA CatFacts ==
    ASSUME NEW s \in AllBytes, NEW t \in AllBytes
    PROVE  /\ Cat(s, t) \in AllBytes
           /\ Len(Cat(s, t)) = Len(s) + Len(t)
           /\ \A i \in 1 .. Len(s) : Cat(s, t)[i] = s[i]
           /\ \A i \in 1 .. Len(t) : Cat(s, t)[Len(s) + i] = t[i]
  <1>1. /\ Cat(s, t) \in AllBytes
        /\ Len(Cat(s, t)) = Len(s) + Len(t)
        /\ \A i \in 1 .. Len(s) + Len(t) :
              Cat(s, t)[i] = IF i <= Len(s) THEN s[i] ELSE t[i - Len(s)]
    BY ConcatProperties DEF AllBytes, Cat
  <1>2. Len(s) \in Nat /\ Len(t) \in Nat
    BY BytesLen
  <1>3. ASSUME NEW i \in 1 .. Len(t) PROVE Cat(s, t)[Len(s) + i] = t[i]
    <2>1. /\ Len(s) + i \in 1 .. Len(s) + Len(t) /\ ~(Len(s) + i <= Len(s))
          /\ (Len(s) + i) - Len(s) = i
      BY <1>2
    <2> QED BY <1>1, <2>1
  <1> QED BY <1>1, <1>2, <1>3

LEMMA CatAssociative ==
    ASSUME NEW s \in AllBytes, NEW t \in AllBytes, NEW u \in AllBytes
    PROVE  Cat(Cat(s, t), u) = Cat(s, Cat(t, u))
  BY ConcatAssociative, SMTT(60) DEF AllBytes, Cat

LEMMA CatNone ==
    /\ <<>> \in AllBytes /\ Len(<<>>) = 0
    /\ \A s \in AllBytes : Cat(s, <<>>) = s /\ Cat(<<>>, s) = s
  BY ConcatEmptySeq, EmptySeq DEF AllBytes, Cat

LEMMA BytesEqual ==
    ASSUME NEW s \in AllBytes, NEW t \in AllBytes, Len(s) = Len(t),
           \A i \in 1 .. Len(s) : s[i] = t[i]
    PROVE  s = t
  BY SeqEqual DEF AllBytes

LEMMA CutFacts ==
    ASSUME NEW b \in AllBytes, NEW m, NEW n, IsCut(b, m, n)
    PROVE  /\ Cut(b, m, n) \in AllBytes
           /\ Len(Cut(b, m, n)) = n - m
           /\ \A i \in 1 .. n - m : Cut(b, m, n)[i] = b[m + i]
  <1>1. m \in Nat /\ n \in Nat /\ m <= n /\ n <= Len(b) /\ Len(b) \in Nat
    BY BytesLen DEF IsCut
  <1>2. \A i \in m + 1 .. n : b[i] \in Byte
    <2> TAKE i \in m + 1 .. n
    <2>1. i \in 1 .. Len(b)
      BY <1>1
    <2> QED BY <2>1, BytesLen
  <1>3. /\ SubSeq(b, m + 1, n) \in Seq(Byte)
        /\ Len(SubSeq(b, m + 1, n)) = IF m + 1 <= n THEN n - (m + 1) + 1 ELSE 0
        /\ \A i \in 1 .. n - (m + 1) + 1 : SubSeq(b, m + 1, n)[i] = b[(m + 1) + i - 1]
    <2>1. m + 1 \in Int /\ n \in Int
      BY <1>1
    <2> QED BY <1>2, <2>1, SubSeqProperties
  <1>4. /\ n - (m + 1) + 1 = n - m
        /\ (IF m + 1 <= n THEN n - (m + 1) + 1 ELSE 0) = n - m
        /\ \A i \in 1 .. n - m : (m + 1) + i - 1 = m + i
    BY <1>1
  <1> QED BY <1>3, <1>4 DEF Cut, AllBytes

(* Two adjacent cuts are one.                                              *)
LEMMA CutsJoin ==
    ASSUME NEW b \in AllBytes, NEW k, NEW m, NEW n, IsCut(b, k, m), IsCut(b, m, n)
    PROVE  Cat(Cut(b, k, m), Cut(b, m, n)) = Cut(b, k, n)
  <1>1. /\ k \in Nat /\ m \in Nat /\ n \in Nat /\ k <= m /\ m <= n /\ n <= Len(b)
        /\ Len(b) \in Nat
    BY BytesLen DEF IsCut
  <1>2. k + 1 \in 1 .. Len(b) + 1 /\ m \in (k + 1) - 1 .. Len(b) /\ n \in m .. Len(b)
    BY <1>1
  <1> QED BY <1>2, ConcatAdjacentSubSeq DEF Cut, AllBytes, Cat

LEMMA CutWhole ==
    ASSUME NEW b \in AllBytes PROVE Cut(b, 0, Len(b)) = b
  BY SubSeqFull DEF Cut, AllBytes

LEMMA CutNone ==
    ASSUME NEW b \in AllBytes, NEW n, IsCut(b, n, n) PROVE Cut(b, n, n) = <<>>
  <1>1. n + 1 \in Int /\ n \in Int /\ n < n + 1
    BY BytesLen DEF IsCut
  <1> QED BY <1>1, SubSeqEmpty DEF Cut

(* What stands in a concatenation.                                         *)
LEMMA CutLeft ==
    ASSUME NEW s \in AllBytes, NEW t \in AllBytes
    PROVE  Cut(Cat(s, t), 0, Len(s)) = s
  <1> DEFINE b == Cat(s, t)
             cut == Cut(b, 0, Len(s))
  <1>1. /\ b \in AllBytes /\ Len(b) = Len(s) + Len(t) /\ Len(s) \in Nat /\ Len(t) \in Nat
        /\ \A i \in 1 .. Len(s) : b[i] = s[i]
    BY CatFacts, BytesLen
  <1> HIDE DEF b
  <1>2. IsCut(b, 0, Len(s)) /\ Len(s) - 0 = Len(s) /\ \A i \in 1 .. Len(s) : 0 + i = i
    BY <1>1 DEF IsCut
  <1>3. cut \in AllBytes /\ Len(cut) = Len(s) /\ \A i \in 1 .. Len(s) : cut[i] = b[i]
    BY <1>1, <1>2, CutFacts
  <1> HIDE DEF cut
  <1>4. cut = s
    BY <1>1, <1>3, BytesEqual
  <1> QED BY <1>4 DEF cut, b

LEMMA CutRight ==
    ASSUME NEW s \in AllBytes, NEW t \in AllBytes
    PROVE  Cut(Cat(s, t), Len(s), Len(Cat(s, t))) = t
  <1> DEFINE b == Cat(s, t)
             cut == Cut(b, Len(s), Len(b))
  <1>1. /\ b \in AllBytes /\ Len(b) = Len(s) + Len(t) /\ Len(s) \in Nat /\ Len(t) \in Nat
        /\ \A i \in 1 .. Len(t) : b[Len(s) + i] = t[i]
    BY CatFacts, BytesLen
  <1> HIDE DEF b
  <1>2. IsCut(b, Len(s), Len(b)) /\ Len(b) - Len(s) = Len(t)
    BY <1>1 DEF IsCut
  <1>3. cut \in AllBytes /\ Len(cut) = Len(t) /\ \A i \in 1 .. Len(t) : cut[i] = b[Len(s) + i]
    BY <1>1, <1>2, CutFacts
  <1> HIDE DEF cut
  <1>4. cut = t
    BY <1>1, <1>3, BytesEqual
  <1> QED BY <1>4 DEF cut, b

LEMMA CatCancel ==
    ASSUME NEW s \in AllBytes, NEW t \in AllBytes, NEW u \in AllBytes, Cat(s, t) = Cat(s, u)
    PROVE  t = u
  BY CutRight

-----------------------------------------------------------------------------
(* Pieces joined one after another: FlattenSeq is a loop.                  *)

Pieces == Seq(AllBytes)

Joins == INSTANCE Loops WITH Round <- LAMBDA env, b, piece : Cat(b, piece)

Joined(pieces, k) == Joins!After(0, pieces, <<>>, k)

LEMMA PieceFacts ==
    ASSUME NEW pieces \in Pieces
    PROVE  /\ Len(pieces) \in Nat /\ DOMAIN pieces = 1 .. Len(pieces)
           /\ \A i \in 1 .. Len(pieces) : pieces[i] \in AllBytes
           /\ Len(pieces) = 0 => pieces = <<>>
  <1>1. pieces # <<>> => Len(pieces) \in Nat \ {0}
    BY EmptySeq DEF Pieces
  <1> QED BY <1>1, LenProperties, ElementOfSeq DEF Pieces

LEMMA JoinedNone == \A pieces : Joined(pieces, 0) = <<>>
  BY Joins!AfterNone DEF Joined

LEMMA JoinedNext ==
    ASSUME NEW pieces, NEW k \in Nat
    PROVE  Joined(pieces, k + 1) = Cat(Joined(pieces, k), pieces[k + 1])
  BY Joins!AfterNext DEF Joined

LEMMA JoinedBefore ==
    ASSUME NEW pieces, NEW k \in Nat, k >= 1
    PROVE  Joined(pieces, k) = Cat(Joined(pieces, k - 1), pieces[k])
  <1>1. k - 1 \in Nat /\ (k - 1) + 1 = k
    OBVIOUS
  <1> QED BY <1>1, JoinedNext

LEMMA JoinedPrefix ==
    ASSUME NEW pieces, NEW others, NEW k \in Nat, \A i \in 1 .. k : pieces[i] = others[i]
    PROVE  Joined(pieces, k) = Joined(others, k)
  BY Joins!AfterPrefix DEF Joined

LEMMA JoinedBytes ==
    ASSUME NEW pieces \in Pieces
    PROVE  \A k \in 0 .. Len(pieces) : Joined(pieces, k) \in AllBytes
  <1> DEFINE n == Len(pieces)
             S == {k \in 0 .. n : Joined(pieces, k) \in AllBytes}
  <1>1. n \in Nat
    BY PieceFacts
  <1>2. 0 \in S
    BY <1>1, JoinedNone, CatNone
  <1>3. ASSUME NEW k \in 1 .. n, k - 1 \in S PROVE k \in S
    <2>1. Joined(pieces, k) = Cat(Joined(pieces, k - 1), pieces[k])
      BY JoinedBefore
    <2>2. Joined(pieces, k - 1) \in AllBytes /\ pieces[k] \in AllBytes
      BY <1>3, PieceFacts
    <2> QED BY <2>1, <2>2, CatFacts
  <1> HIDE DEF S
  <1>4. \A k \in 0 .. n : k \in S
    BY <1>1, <1>2, <1>3, Joins!BoundedInduction
  <1> QED BY <1>4 DEF S

IsFlat(f, pieces) ==
    f = [i \in 1 .. Len(pieces) |-> IF i = 1 THEN pieces[i] ELSE Cat(f[i - 1], pieces[i])]

LEMMA FlattenIsJoined ==
    ASSUME NEW pieces \in Pieces
    PROVE  FlattenSeq(pieces) = Joined(pieces, Len(pieces))
  <1> DEFINE n == Len(pieces)
  <1>1. n \in Nat
    BY PieceFacts
  <1>2. CASE n = 0
    <2>1. FlattenSeq(pieces) = pieces
      BY <1>2 DEF FlattenSeq
    <2> QED BY <1>2, <2>1, PieceFacts, JoinedNone
  <1>3. CASE n # 0
    <2> DEFINE g == [i \in 1 .. n |-> Joined(pieces, i)]
               f == CHOOSE f : IsFlat(f, pieces)
    <2>1. Joined(pieces, 1) = pieces[1]
      <3>1. Joined(pieces, 0 + 1) = Cat(Joined(pieces, 0), pieces[0 + 1])
        BY JoinedNext
      <3>2. pieces[1] \in AllBytes
        BY <1>1, <1>3, PieceFacts
      <3> QED BY <3>1, <3>2, JoinedNone, CatNone
    <2>2. \A i \in 1 .. n :
             Joined(pieces, i) = IF i = 1 THEN pieces[i] ELSE Cat(g[i - 1], pieces[i])
      <3> TAKE i \in 1 .. n
      <3>1. CASE i = 1
        BY <2>1, <3>1
      <3>2. CASE i # 1
        <4>1. i - 1 \in 1 .. n /\ g[i - 1] = Joined(pieces, i - 1)
          BY <3>2
        <4> QED BY <3>2, <4>1, JoinedBefore
      <3> QED BY <3>1, <3>2
    <2>3. IsFlat(g, pieces)
      <3>1. g = [i \in 1 .. n |-> IF i = 1 THEN pieces[i] ELSE Cat(g[i - 1], pieces[i])]
        BY <2>2
      <3> QED BY <3>1 DEF IsFlat
    <2> HIDE DEF g
    <2>4. IsFlat(f, pieces)
      BY <2>3
    <2>5. FlattenSeq(pieces) = f[n]
      BY <1>3 DEF FlattenSeq, IsFlat, Cat
    <2> HIDE DEF f
    <2>6. \A i \in 1 .. n : f[i] = IF i = 1 THEN pieces[i] ELSE Cat(f[i - 1], pieces[i])
      BY <2>4 DEF IsFlat
    <2> DEFINE S == {i \in 0 .. n : i # 0 => f[i] = Joined(pieces, i)}
    <2>7. 0 \in S
      BY <1>1
    <2>8. ASSUME NEW i \in 1 .. n, i - 1 \in S PROVE i \in S
      <3>1. CASE i = 1
        BY <2>1, <2>6, <3>1
      <3>2. CASE i # 1
        <4>1. f[i] = Cat(f[i - 1], pieces[i]) /\ f[i - 1] = Joined(pieces, i - 1)
          BY <2>6, <2>8, <3>2
        <4> QED BY <3>2, <4>1, JoinedBefore
      <3> QED BY <3>1, <3>2
    <2> HIDE DEF S
    <2>9. n \in S
      <3>1. \A i \in 0 .. n : i \in S
        BY <1>1, <2>7, <2>8, Joins!BoundedInduction
      <3> QED BY <1>1, <3>1
    <2> QED BY <1>3, <2>5, <2>9 DEF S
  <1> QED BY <1>2, <1>3

(* What is joined up to k is a prefix of the whole.                        *)
LEMMA JoinedSplits ==
    ASSUME NEW pieces \in Pieces, NEW k \in 0 .. Len(pieces)
    PROVE  \E t \in AllBytes : Joined(pieces, Len(pieces)) = Cat(Joined(pieces, k), t)
  <1> DEFINE n == Len(pieces)
             j(i) == Joined(pieces, i)
             S == {i \in 0 .. n : k <= i => \E t \in AllBytes : j(i) = Cat(j(k), t)}
  <1>1. n \in Nat /\ \A i \in 0 .. n : j(i) \in AllBytes
    BY PieceFacts, JoinedBytes
  <1>2. \A i \in 1 .. n : pieces[i] \in AllBytes /\ j(i) = Cat(j(i - 1), pieces[i])
    BY PieceFacts, JoinedBefore
  <1> HIDE DEF j
  <1>3. j(k) = Cat(j(k), <<>>) /\ <<>> \in AllBytes
    BY <1>1, CatNone
  <1>4. 0 \in S
    BY <1>1, <1>3
  <1>5. ASSUME NEW i \in 1 .. n, i - 1 \in S PROVE i \in S
    <2>1. CASE k = i
      BY <1>3, <2>1
    <2>2. CASE k < i
      <3>1. PICK t \in AllBytes : j(i - 1) = Cat(j(k), t)
        BY <1>5, <2>2
      <3>2. j(i) = Cat(j(k), Cat(t, pieces[i]))
        BY <1>1, <1>2, <3>1, CatAssociative
      <3>3. Cat(t, pieces[i]) \in AllBytes
        BY <1>2, CatFacts
      <3> QED BY <3>2, <3>3
    <2> QED BY <2>1, <2>2
  <1> HIDE DEF S
  <1>6. n \in S
    <2>1. \A i \in 0 .. n : i \in S
      BY <1>1, <1>4, <1>5, Joins!BoundedInduction
    <2> QED BY <1>1, <2>1
  <1> QED BY <1>6 DEF S, j

-----------------------------------------------------------------------------
(* Fields one after another.  Pos(order, k) is where the k-th one ends.    *)

Widths == INSTANCE Loops WITH Round <- LAMBDA env, x, field : x + Width(field)

Pos(order, k) == Widths!After(0, order, 0, k)

OrderOk(order) == IsList(order) /\ Distinct(order)

HasFields(record, order) ==
    \A i \in 1 .. Len(order) :
        record[order[i]] \in AllBytes /\ Len(record[order[i]]) = Width(order[i])

LEMMA WidthIsNat == \A field : Width(field) \in Nat
  BY DEF Width, HashLen

LEMMA OffsetIsPos == \A order, i : Offset(order, i) = Pos(order, i - 1)
  BY DEF Offset, Pos, Widths!After, Widths!IsLoop

LEMMA PosNone == \A order : Pos(order, 0) = 0
  BY Widths!AfterNone DEF Pos

LEMMA PosBefore ==
    ASSUME NEW order, NEW k \in Nat, k >= 1
    PROVE  Pos(order, k) = Pos(order, k - 1) + Width(order[k])
  <1>1. k - 1 \in Nat /\ (k - 1) + 1 = k
    OBVIOUS
  <1> QED BY <1>1, Widths!AfterNext DEF Pos

LEMMA PosIsNat ==
    ASSUME NEW order, NEW n \in Nat
    PROVE  \A k \in 0 .. n : Pos(order, k) \in Nat
  <1> DEFINE S == {k \in 0 .. n : Pos(order, k) \in Nat}
  <1>1. 0 \in S
    BY PosNone
  <1>2. ASSUME NEW k \in 1 .. n, k - 1 \in S PROVE k \in S
    BY <1>2, PosBefore, WidthIsNat
  <1> HIDE DEF S
  <1>3. \A k \in 0 .. n : k \in S
    BY <1>1, <1>2, Joins!BoundedInduction
  <1> QED BY <1>3 DEF S

LEMMA PosAscends ==
    ASSUME NEW order, NEW n \in Nat, NEW j \in 0 .. n
    PROVE  Pos(order, j) <= Pos(order, n)
  <1> DEFINE S == {k \in 0 .. n : j <= k => Pos(order, j) <= Pos(order, k)}
  <1>1. \A k \in 0 .. n : Pos(order, k) \in Nat
    BY PosIsNat
  <1>2. 0 \in S
    BY <1>1
  <1>3. ASSUME NEW k \in 1 .. n, k - 1 \in S PROVE k \in S
    <2>1. Pos(order, k) = Pos(order, k - 1) + Width(order[k]) /\ Width(order[k]) \in Nat
      BY PosBefore, WidthIsNat
    <2>2. Pos(order, k - 1) \in Nat /\ Pos(order, k) \in Nat
      BY <1>1
    <2>3. CASE j = k
      BY <2>2, <2>3
    <2>4. CASE j < k
      <3>1. Pos(order, j) <= Pos(order, k - 1) /\ Pos(order, j) \in Nat
        BY <1>1, <1>3, <2>4
      <3> QED BY <2>1, <2>2, <3>1
    <2> QED BY <2>3, <2>4
  <1> HIDE DEF S
  <1>4. n \in S
    <2>1. \A k \in 0 .. n : k \in S
      BY <1>2, <1>3, Joins!BoundedInduction
    <2> QED BY <2>1
  <1> QED BY <1>4 DEF S

LEMMA ListIsPieces ==
    ASSUME NEW n \in Nat, NEW f, f = [i \in 1 .. n |-> f[i]],
           \A i \in 1 .. n : f[i] \in AllBytes
    PROVE  f \in Pieces /\ Len(f) = n
  <1>1. DOMAIN f = 1 .. n
    OBVIOUS
  <1>2. f \in [1 .. n -> AllBytes]
    BY <1>1
  <1>3. f \in Seq(AllBytes)
    BY <1>2, SeqDef
  <1>4. Len(f) = n
    BY <1>1, <1>3, LenProperties
  <1> QED BY <1>3, <1>4 DEF Pieces

(* What write makes of the first k fields.                                 *)
Written(record, order, k) == Joined([i \in DOMAIN order |-> record[order[i]]], k)

WrittenOk(record, order, n) ==
    /\ Written(record, order, 0) = <<>>
    /\ \A k \in 0 .. n :
          /\ Written(record, order, k) \in AllBytes
          /\ Len(Written(record, order, k)) = Pos(order, k)
    /\ \A k \in 1 .. n :
          Written(record, order, k) = Cat(Written(record, order, k - 1), record[order[k]])
    /\ \A k \in 0 .. n : \E t \in AllBytes :
          Written(record, order, n) = Cat(Written(record, order, k), t)

LEMMA WrittenFacts ==
    ASSUME NEW order, OrderOk(order), NEW record, HasFields(record, order)
    PROVE  /\ WriteFields(record, order) = Written(record, order, Len(order))
           /\ WrittenOk(record, order, Len(order))
  <1> DEFINE n == Len(order)
             fields == [i \in DOMAIN order |-> record[order[i]]]
  <1>1. n \in Nat /\ DOMAIN order = 1 .. n
    BY DEF OrderOk, IsList
  <1>2. /\ fields = [i \in 1 .. n |-> fields[i]]
        /\ \A i \in 1 .. n : fields[i] = record[order[i]]
    BY <1>1
  <1>3. WriteFields(record, order) = FlattenSeq(fields)
    BY DEF WriteFields
  <1>4. \A k : Written(record, order, k) = Joined(fields, k)
    BY DEF Written
  <1> HIDE DEF fields
  <1>5. \A i \in 1 .. n : fields[i] \in AllBytes /\ Len(fields[i]) = Width(order[i])
    BY <1>2 DEF HasFields
  <1>6. fields \in Pieces /\ Len(fields) = n
    BY <1>1, <1>2, <1>5, ListIsPieces
  <1>7. /\ \A k \in 0 .. n : Joined(fields, k) \in AllBytes
        /\ \A k \in 0 .. n : \E t \in AllBytes : Joined(fields, n) = Cat(Joined(fields, k), t)
    BY <1>6, JoinedBytes, JoinedSplits
  <1>8. \A k \in 1 .. n : Joined(fields, k) = Cat(Joined(fields, k - 1), fields[k])
    BY JoinedBefore
  <1> DEFINE S == {k \in 0 .. n : Len(Joined(fields, k)) = Pos(order, k)}
  <1>9. 0 \in S
    BY <1>1, JoinedNone, PosNone, CatNone
  <1>10. ASSUME NEW k \in 1 .. n, k - 1 \in S PROVE k \in S
    <2>1. k - 1 \in 0 .. n /\ Joined(fields, k - 1) \in AllBytes
      BY <1>7
    <2>2. /\ fields[k] \in AllBytes /\ Len(fields[k]) = Width(order[k])
          /\ Joined(fields, k) = Cat(Joined(fields, k - 1), fields[k])
      BY <1>5, <1>8
    <2>3. Len(Joined(fields, k)) = Len(Joined(fields, k - 1)) + Len(fields[k])
      BY <2>1, <2>2, CatFacts
    <2>4. Len(Joined(fields, k - 1)) = Pos(order, k - 1)
      BY <1>10
    <2>5. Pos(order, k) = Pos(order, k - 1) + Width(order[k])
      BY PosBefore
    <2> QED BY <2>2, <2>3, <2>4, <2>5
  <1> HIDE DEF S
  <1>11. \A k \in 0 .. n : Len(Joined(fields, k)) = Pos(order, k)
    <2>1. \A k \in 0 .. n : k \in S
      BY <1>1, <1>9, <1>10, Joins!BoundedInduction
    <2> QED BY <2>1 DEF S
  <1>12. WriteFields(record, order) = Written(record, order, n)
    BY <1>3, <1>4, <1>6, FlattenIsJoined
  <1> QED BY <1>2, <1>4, <1>7, <1>8, <1>11, <1>12, JoinedNone DEF WrittenOk

(* What read makes of the bytes.                                           *)
Place(order, field) == CHOOSE k \in DOMAIN order : order[k] = field

FieldsAt(b, order) ==
    [field \in Range(order) |->
        Cut(b, Pos(order, Place(order, field) - 1), Pos(order, Place(order, field)))]

LEMMA FieldsAtFacts ==
    ASSUME NEW order, OrderOk(order), NEW b
    PROVE  /\ DOMAIN FieldsAt(b, order) = Range(order)
           /\ FieldsAt(b, order) = [field \in Range(order) |-> FieldsAt(b, order)[field]]
           /\ \A i \in 1 .. Len(order) :
                 /\ order[i] \in Range(order)
                 /\ FieldsAt(b, order)[order[i]] = Cut(b, Pos(order, i - 1), Pos(order, i))
  <1>1. DOMAIN order = 1 .. Len(order)
    BY DEF OrderOk, IsList
  <1>2. ASSUME NEW i \in 1 .. Len(order) PROVE order[i] \in Range(order)
    BY <1>1 DEF Range
  <1>3. ASSUME NEW i \in 1 .. Len(order) PROVE Place(order, order[i]) = i
    <2>1. Place(order, order[i]) \in DOMAIN order /\ order[Place(order, order[i])] = order[i]
      BY <1>1 DEF Place
    <2> QED BY <1>1, <2>1 DEF OrderOk, Distinct
  <1> QED BY <1>2, <1>3 DEF FieldsAt

LEMMA ReadFieldsIs ==
    ASSUME NEW order, OrderOk(order), NEW b \in AllBytes
    PROVE  ReadFields(b, order)
              = IF Len(b) < Pos(order, Len(order)) THEN Fail
                ELSE Got(FieldsAt(b, order), Cut(b, Pos(order, Len(order)), Len(b)))
  <1> DEFINE n == Len(order)
  <1>1. n \in Nat /\ DOMAIN order = 1 .. n
    BY DEF OrderOk, IsList
  <1>2. FieldsLen(order) = Pos(order, n)
    <2>1. (n + 1) - 1 = n
      BY <1>1
    <2> QED BY <2>1, OffsetIsPos DEF FieldsLen
  <1>3. ASSUME NEW field \in Range(order)
        PROVE  SubSeq(b, Offset(order, Place(order, field)) + 1,
                         Offset(order, Place(order, field) + 1))
                  = Cut(b, Pos(order, Place(order, field) - 1), Pos(order, Place(order, field)))
    <2>1. Place(order, field) \in 1 .. n
      BY <1>1 DEF Place, Range
    <2>2. (Place(order, field) + 1) - 1 = Place(order, field)
      BY <1>1, <2>1
    <2> QED BY <2>2, OffsetIsPos DEF Cut
  <1>4. Remaining(b, FieldsLen(order)) = Cut(b, Pos(order, n), Len(b))
    BY <1>2 DEF Remaining, Cut
  <1>5. [field \in Range(order) |->
            SubSeq(b, Offset(order, Place(order, field)) + 1,
                      Offset(order, Place(order, field) + 1))]
           = FieldsAt(b, order)
    BY <1>3 DEF FieldsAt
  <1> QED BY <1>2, <1>4, <1>5 DEF ReadFields, Place


LEMMA CutMiddle ==
    ASSUME NEW s \in AllBytes, NEW x \in AllBytes, NEW u \in AllBytes, NEW b,
           b = Cat(s, Cat(x, u))
    PROVE  Cut(b, Len(s), Len(s) + Len(x)) = x
  <1> DEFINE cut == Cut(b, Len(s), Len(s) + Len(x))
             m == Len(s)
  <1>1. Len(s) \in Nat /\ Len(x) \in Nat /\ Len(u) \in Nat
    BY BytesLen
  <1>2. /\ Cat(x, u) \in AllBytes /\ Len(Cat(x, u)) = Len(x) + Len(u)
        /\ \A i \in 1 .. Len(x) : Cat(x, u)[i] = x[i]
    BY CatFacts
  <1>3. /\ b \in AllBytes /\ Len(b) = m + (Len(x) + Len(u))
        /\ \A i \in 1 .. Len(x) + Len(u) : b[m + i] = Cat(x, u)[i]
    <2> DEFINE xu == Cat(x, u)
    <2>1. xu \in AllBytes /\ Len(xu) = Len(x) + Len(u) /\ b = Cat(s, xu)
      BY <1>2
    <2> HIDE DEF xu
    <2>2. /\ Cat(s, xu) \in AllBytes
          /\ Len(Cat(s, xu)) = Len(s) + Len(xu)
          /\ \A i \in 1 .. Len(xu) : Cat(s, xu)[Len(s) + i] = xu[i]
      BY <2>1, CatFacts, Zenon
    <2> QED BY <2>1, <2>2 DEF xu
  <1>4. \A i \in 1 .. Len(x) : b[m + i] = x[i]
    <2> TAKE i \in 1 .. Len(x)
    <2>1. i \in 1 .. Len(x) + Len(u)
      BY <1>1
    <2> QED BY <1>2, <1>3, <2>1
  <1>5. IsCut(b, m, m + Len(x)) /\ (m + Len(x)) - m = Len(x)
    BY <1>1, <1>3 DEF IsCut
  <1>6. cut \in AllBytes /\ Len(cut) = Len(x) /\ \A i \in 1 .. Len(x) : cut[i] = b[m + i]
    BY <1>3, <1>5, CutFacts
  <1> HIDE DEF cut
  <1>7. cut = x
    BY <1>4, <1>6, BytesEqual
  <1> QED BY <1>7 DEF cut

(* What was written is read: every field, and the bytes behind them.       *)
LEMMA FieldsAreRead ==
    ASSUME NEW order, OrderOk(order), NEW record, HasFields(record, order),
           NEW rest \in AllBytes, NEW b, b = Cat(WriteFields(record, order), rest)
    PROVE  ReadFields(b, order) = Got([field \in Range(order) |-> record[field]], rest)
  <1> DEFINE n == Len(order)
             w(k) == Written(record, order, k)
  <1>1. n \in Nat /\ DOMAIN order = 1 .. n
    BY DEF OrderOk, IsList
  <1>2. WriteFields(record, order) = w(n) /\ WrittenOk(record, order, n)
    BY WrittenFacts
  <1>3. /\ \A k \in 0 .. n : w(k) \in AllBytes /\ Len(w(k)) = Pos(order, k)
        /\ \A k \in 1 .. n : w(k) = Cat(w(k - 1), record[order[k]])
        /\ \A k \in 0 .. n : \E t \in AllBytes : w(n) = Cat(w(k), t)
    BY <1>2 DEF WrittenOk
  <1> HIDE DEF w
  <1>4. w(n) \in AllBytes /\ Len(w(n)) = Pos(order, n) /\ b = Cat(w(n), rest)
    BY <1>1, <1>2, <1>3
  <1>5. b \in AllBytes /\ Len(b) = Pos(order, n) + Len(rest) /\ Cut(b, Pos(order, n), Len(b)) = rest
    BY <1>4, CatFacts, CutRight
  <1>6. ~(Len(b) < Pos(order, n))
    BY <1>4, <1>5, BytesLen
  <1>7. ASSUME NEW i \in 1 .. n
        PROVE  Cut(b, Pos(order, i - 1), Pos(order, i)) = record[order[i]]
    <2> DEFINE x == record[order[i]]
    <2>1. x \in AllBytes /\ i - 1 \in 0 .. n /\ i \in 0 .. n
      BY <1>1 DEF HasFields
    <2>2. w(i) = Cat(w(i - 1), x) /\ w(i - 1) \in AllBytes /\ Len(w(i - 1)) = Pos(order, i - 1)
      BY <1>3, <2>1
    <2>3. Len(w(i)) = Pos(order, i) /\ w(i) \in AllBytes
      BY <1>3, <2>1
    <2>4. PICK t \in AllBytes : w(n) = Cat(w(i), t)
      BY <1>3, <2>1
    <2> HIDE DEF x
    <2>5. Cat(t, rest) \in AllBytes
      BY CatFacts
    <2>6. b = Cat(w(i), Cat(t, rest))
      BY <1>4, <2>3, <2>4, CatAssociative
    <2>7. b = Cat(w(i - 1), Cat(x, Cat(t, rest)))
      BY <2>1, <2>2, <2>5, <2>6, CatAssociative
    <2>8. Cut(b, Len(w(i - 1)), Len(w(i - 1)) + Len(x)) = x
      BY <2>1, <2>2, <2>5, <2>7, CutMiddle
    <2>9. Len(w(i)) = Len(w(i - 1)) + Len(x)
      BY <2>1, <2>2, CatFacts
    <2> QED BY <2>2, <2>3, <2>8, <2>9 DEF x
  <1>8. FieldsAt(b, order) = [field \in Range(order) |-> record[field]]
    <2>1. \A field \in Range(order) : FieldsAt(b, order)[field] = record[field]
      <3> TAKE field \in Range(order)
      <3>1. PICK i \in 1 .. n : order[i] = field
        BY <1>1 DEF Range
      <3> QED BY <1>7, <3>1, FieldsAtFacts
    <2>2. FieldsAt(b, order) = [field \in Range(order) |-> FieldsAt(b, order)[field]]
      BY FieldsAtFacts
    <2> QED BY <2>1, <2>2
  <1> QED BY <1>5, <1>6, <1>8, ReadFieldsIs

(* What was read is written: nothing is made up, nothing is lost.          *)
LEMMA FieldsAreWritten ==
    ASSUME NEW order, OrderOk(order), NEW b \in AllBytes, ReadFields(b, order).ok
    PROVE  LET result == ReadFields(b, order)
           IN  /\ result = Got(FieldsAt(b, order), result.rest)
               /\ result.value = FieldsAt(b, order)
               /\ HasFields(FieldsAt(b, order), order)
               /\ result.rest \in AllBytes
               /\ Cat(WriteFields(FieldsAt(b, order), order), result.rest) = b
  <1> DEFINE n == Len(order)
             result == ReadFields(b, order)
             record == FieldsAt(b, order)
             w(k) == Written(record, order, k)
  <1>1. n \in Nat /\ DOMAIN order = 1 .. n
    BY DEF OrderOk, IsList
  <1>2. /\ ~(Len(b) < Pos(order, n))
        /\ result = Got(record, Cut(b, Pos(order, n), Len(b)))
    BY ReadFieldsIs DEF Fail
  <1>3. result.value = record /\ result.rest = Cut(b, Pos(order, n), Len(b))
    BY <1>2 DEF Got
  <1>4. \A k \in 0 .. n : Pos(order, k) \in Nat /\ Pos(order, k) <= Len(b)
    <2>1. \A k \in 0 .. n : Pos(order, k) \in Nat /\ Pos(order, k) <= Pos(order, n)
      BY <1>1, PosIsNat, PosAscends
    <2>2. Len(b) \in Nat /\ Pos(order, n) \in Nat /\ Pos(order, n) <= Len(b)
      BY <1>1, <1>2, <2>1, BytesLen
    <2> QED BY <2>1, <2>2
  <1>5. ASSUME NEW i \in 1 .. n
        PROVE  /\ IsCut(b, 0, Pos(order, i - 1))
               /\ IsCut(b, Pos(order, i - 1), Pos(order, i))
               /\ Pos(order, i) - Pos(order, i - 1) = Width(order[i])
    <2>1. i - 1 \in 0 .. n /\ i \in 0 .. n
      BY <1>1
    <2>2. /\ Pos(order, i) = Pos(order, i - 1) + Width(order[i]) /\ Width(order[i]) \in Nat
      BY PosBefore, WidthIsNat
    <2>3. /\ Pos(order, i) \in Nat /\ Pos(order, i) <= Len(b)
          /\ Pos(order, i - 1) \in Nat /\ Pos(order, i - 1) <= Len(b)
      BY <1>4, <2>1
    <2> QED BY <2>2, <2>3, BytesLen DEF IsCut
  <1> HIDE DEF record, result
  <1>6. ASSUME NEW i \in 1 .. n
        PROVE  record[order[i]] = Cut(b, Pos(order, i - 1), Pos(order, i))
    BY FieldsAtFacts DEF record
  <1>7. HasFields(record, order)
    <2>1. ASSUME NEW i \in 1 .. n
          PROVE  record[order[i]] \in AllBytes /\ Len(record[order[i]]) = Width(order[i])
      BY <1>5, <1>6, CutFacts
    <2> QED BY <2>1 DEF HasFields
  <1>8. WriteFields(record, order) = w(n) /\ WrittenOk(record, order, n)
    BY <1>7, WrittenFacts
  <1>9. w(0) = <<>> /\ \A k \in 1 .. n : w(k) = Cat(w(k - 1), record[order[k]])
    BY <1>8 DEF WrittenOk
  <1> DEFINE S == {k \in 0 .. n : w(k) = Cut(b, 0, Pos(order, k))}
  <1> HIDE DEF w
  <1>10. 0 \in S
    <2>1. IsCut(b, 0, 0)
      BY BytesLen DEF IsCut
    <2> QED BY <1>1, <1>9, <2>1, CutNone, PosNone
  <1>11. ASSUME NEW k \in 1 .. n, k - 1 \in S PROVE k \in S
    <2>1. w(k - 1) = Cut(b, 0, Pos(order, k - 1))
      BY <1>11
    <2>2. w(k) = Cat(Cut(b, 0, Pos(order, k - 1)), Cut(b, Pos(order, k - 1), Pos(order, k)))
      BY <1>6, <1>9, <2>1
    <2>3. w(k) = Cut(b, 0, Pos(order, k))
      BY <1>5, <2>2, CutsJoin
    <2> QED BY <2>3
  <1> HIDE DEF S
  <1>12. w(n) = Cut(b, 0, Pos(order, n))
    <2>1. \A k \in 0 .. n : k \in S
      BY <1>1, <1>10, <1>11, Joins!BoundedInduction
    <2>2. n \in S
      BY <1>1, <2>1
    <2> QED BY <2>2 DEF S
  <1>13. IsCut(b, 0, Pos(order, n)) /\ IsCut(b, Pos(order, n), Len(b))
    BY <1>1, <1>4, BytesLen DEF IsCut
  <1>14. Cat(WriteFields(record, order), result.rest) = b
    BY <1>3, <1>8, <1>12, <1>13, CutsJoin, CutWhole
  <1>15. result.rest \in AllBytes
    BY <1>3, <1>13, CutFacts
  <1> QED BY <1>2, <1>3, <1>7, <1>14, <1>15 DEF result, record

-----------------------------------------------------------------------------
(* Transactions.                                                           *)

Single(x) == <<x>>

LEMMA CatLen ==
    ASSUME NEW s \in AllBytes, NEW t \in AllBytes
    PROVE  Cat(s, t) \in AllBytes /\ Len(Cat(s, t)) = Len(s) + Len(t)
  BY CatFacts

LEMMA TagBytes == 0 \in Byte /\ 1 \in Byte /\ LengthBase \in Byte
  BY LengthAssumption DEF Byte

LEMMA OneByte ==
    ASSUME NEW x \in Byte
    PROVE  Single(x) \in AllBytes /\ Len(Single(x)) = 1 /\ Single(x)[1] = x
  BY DEF AllBytes, Single

LEMMA ByteThen ==
    ASSUME NEW x \in Byte, NEW t \in AllBytes, NEW b, b = Cat(Single(x), t)
    PROVE  b \in AllBytes /\ Len(b) = 1 + Len(t) /\ b # <<>> /\ b[1] = x /\ Cut(b, 1, Len(b)) = t
  <1> DEFINE s == Single(x)
  <1>1. s \in AllBytes /\ Len(s) = 1 /\ s[1] = x /\ Len(t) \in Nat /\ b = Cat(s, t)
    BY OneByte, BytesLen
  <1> HIDE DEF s
  <1>2. b \in AllBytes /\ Len(b) = 1 + Len(t)
    BY <1>1, CatLen
  <1>3. \A i \in 1 .. Len(s) : Cat(s, t)[i] = s[i]
    BY <1>1, CatFacts, Zenon
  <1>4. b[1] = x
    BY <1>1, <1>3
  <1>5. Cut(b, Len(s), Len(b)) = t
    BY <1>1, CutRight, Zenon
  <1>6. b # <<>>
    BY <1>1, <1>2, CatNone
  <1> QED BY <1>1, <1>2, <1>4, <1>5, <1>6

LEMMA FirstByte ==
    ASSUME NEW b \in AllBytes, b # <<>>
    PROVE  /\ IsCut(b, 0, 1) /\ IsCut(b, 1, Len(b)) /\ 1 \in 1 .. Len(b)
           /\ Tail(b) = Cut(b, 1, Len(b))
           /\ Cut(b, 0, 1) = Single(b[1])
  <1>1. Len(b) \in Nat /\ Len(b) >= 1
    BY EmptySeq DEF AllBytes
  <1>2. IsCut(b, 0, 1) /\ IsCut(b, 1, Len(b)) /\ 1 \in 1 .. Len(b)
    BY <1>1 DEF IsCut
  <1>3. Tail(b) = Cut(b, 1, Len(b))
    BY TailIsSubSeq DEF AllBytes, Cut
  <1>4. Cut(b, 0, 1) = Single(b[1])
    <2> DEFINE cut == Cut(b, 0, 1)
               one == Single(b[1])
    <2>1. 1 - 0 = 1 /\ 0 + 1 = 1 /\ 1 \in 1 .. 1
      OBVIOUS
    <2>2. cut \in AllBytes /\ Len(cut) = 1 - 0 /\ \A i \in 1 .. 1 - 0 : cut[i] = b[0 + i]
      BY <1>2, CutFacts, ZenonT(60)
    <2>3. one \in AllBytes /\ Len(one) = 1 /\ one[1] = b[1]
      BY <1>2, BytesLen, OneByte
    <2> HIDE DEF cut, one
    <2>4. Len(cut) = 1 /\ cut[1] = b[1]
      BY <2>1, <2>2
    <2>5. \A i \in 1 .. Len(cut) : cut[i] = one[i]
      BY <2>3, <2>4
    <2>6. cut = one
      BY <2>2, <2>3, <2>4, <2>5, BytesEqual
    <2> QED BY <2>6 DEF cut, one
  <1> QED BY <1>2, <1>3, <1>4

SignatureOk(s) ==
    \/ s = <<>>
    \/ s = <<s[1]>> /\ s[1] \in AllBytes /\ Len(s[1]) = SignatureLen

LEMMA SignatureSize ==
    ASSUME NEW s, SignatureOk(s)
    PROVE  /\ WriteSignature(s) \in AllBytes
           /\ Len(WriteSignature(s)) = 1 + (IF s = <<>> THEN 0 ELSE SignatureLen)
           /\ s = <<>> => WriteSignature(s) = Single(0)
           /\ s # <<>> => WriteSignature(s) = Cat(Single(1), s[1])
  <1>1. /\ Single(0) \in AllBytes /\ Len(Single(0)) = 1
        /\ Single(1) \in AllBytes /\ Len(Single(1)) = 1
    BY TagBytes, OneByte
  <1>2. CASE s = <<>>
    <2>1. WriteSignature(s) = Single(0)
      BY <1>2 DEF WriteSignature, Single
    <2> QED BY <1>1, <1>2, <2>1
  <1>3. CASE s # <<>>
    <2> DEFINE x == s[1]
    <2>1. WriteSignature(s) = Cat(Single(1), x)
      BY <1>3 DEF WriteSignature, Cat, Single
    <2>2. x \in AllBytes /\ Len(x) = SignatureLen
      BY <1>3 DEF SignatureOk
    <2> HIDE DEF x
    <2>3. WriteSignature(s) \in AllBytes /\ Len(WriteSignature(s)) = 1 + SignatureLen
      BY <1>1, <2>1, <2>2, CatLen
    <2> QED BY <1>3, <2>1, <2>3 DEF x
  <1> QED BY <1>2, <1>3

LEMMA SignatureIsRead ==
    ASSUME NEW s, SignatureOk(s), NEW rest \in AllBytes, NEW b,
           b = Cat(WriteSignature(s), rest)
    PROVE  ReadSignature(b) = Got(s, rest)
  <1> DEFINE w == WriteSignature(s)
  <1>1. w \in AllBytes /\ b = Cat(w, rest) /\ Len(rest) \in Nat
    BY SignatureSize, BytesLen
  <1>2. CASE s = <<>>
    <2>1. b = Cat(Single(0), rest)
      BY <1>2, SignatureSize
    <2>2. b \in AllBytes /\ b # <<>> /\ b[1] = 0 /\ Cut(b, 1, Len(b)) = rest
      BY <2>1, TagBytes, ByteThen
    <2>3. Tail(b) = rest
      BY <2>2, FirstByte
    <2> QED BY <1>2, <2>2, <2>3 DEF ReadSignature
  <1>3. CASE s # <<>>
    <2> DEFINE x == s[1]
               xr == Cat(x, rest)
               one == Single(1)
    <2>1. x \in AllBytes /\ Len(x) = SignatureLen /\ s = <<x>>
      BY <1>3 DEF SignatureOk
    <2>2. w = Cat(one, x) /\ one \in AllBytes /\ Len(one) = 1
      BY <1>3, SignatureSize, TagBytes, OneByte
    <2> HIDE DEF x, w, one
    <2>3. xr \in AllBytes /\ Len(xr) = SignatureLen + Len(rest)
      BY <2>1, CatLen
    <2>4. b = Cat(one, xr)
      BY <1>1, <2>1, <2>2, CatAssociative
    <2>5. Cut(b, Len(one), Len(one) + Len(x)) = x
      BY <2>1, <2>2, <2>4, CutMiddle
    <2>6. Cut(b, Len(w), Len(b)) = rest
      BY <1>1, CutRight
    <2>7. Len(w) = 1 + SignatureLen
      BY <2>1, <2>2, CatLen
    <2> HIDE DEF xr
    <2>8. b[1] = 1 /\ b # <<>> /\ Len(b) = 1 + Len(xr)
      BY <2>3, <2>4, TagBytes, ByteThen DEF one
    <2>9. SignatureLen + 1 = 1 + SignatureLen /\ 2 = 1 + 1 /\ Len(b) > SignatureLen
      BY <1>1, <2>3, <2>8 DEF SignatureLen
    <2>10. SubSeq(b, 2, SignatureLen + 1) = x
      <3>1. Cut(b, 1, 1 + SignatureLen) = x
        BY <2>1, <2>2, <2>5
      <3> QED BY <2>9, <3>1 DEF Cut
    <2>11. Remaining(b, SignatureLen + 1) = rest
      BY <2>6, <2>7, <2>9 DEF Cut, Remaining
    <2>12. b[1] # 0
      BY <2>8
    <2>13. ReadSignature(b)
             = Got(<<SubSeq(b, 2, SignatureLen + 1)>>, Remaining(b, SignatureLen + 1))
      BY <2>8, <2>9, <2>12, Zenon DEF ReadSignature
    <2> QED BY <2>1, <2>10, <2>11, <2>13
  <1> QED BY <1>2, <1>3

LEMMA SignatureIsWritten ==
    ASSUME NEW b \in AllBytes, ReadSignature(b).ok
    PROVE  LET result == ReadSignature(b)
           IN  /\ SignatureOk(result.value)
               /\ result.rest \in AllBytes
               /\ Cat(WriteSignature(result.value), result.rest) = b
  <1> DEFINE result == ReadSignature(b)
  <1>1. b # <<>>
    BY DEF ReadSignature, Fail
  <1>2. /\ IsCut(b, 0, 1) /\ IsCut(b, 1, Len(b)) /\ Len(b) \in Nat /\ Len(b) >= 1
        /\ Tail(b) = Cut(b, 1, Len(b))
        /\ Cut(b, 0, 1) = Single(b[1])
    BY <1>1, FirstByte, BytesLen
  <1>3. CASE b[1] = 0
    <2>1. result = Got(<<>>, Tail(b))
      BY <1>1, <1>3 DEF ReadSignature
    <2>2. result.value = <<>> /\ result.rest = Cut(b, 1, Len(b))
      BY <1>2, <2>1 DEF Got
    <2>3. WriteSignature(<<>>) = Cut(b, 0, 1)
      BY <1>2, <1>3 DEF WriteSignature, Single
    <2>4. Cat(Cut(b, 0, 1), Cut(b, 1, Len(b))) = b /\ Cut(b, 1, Len(b)) \in AllBytes
      BY <1>2, CutsJoin, CutWhole, CutFacts
    <2> QED BY <2>2, <2>3, <2>4 DEF SignatureOk
  <1>4. CASE b[1] # 0
    <2>1. /\ b[1] = 1 /\ Len(b) > SignatureLen
          /\ result = Got(<<SubSeq(b, 2, SignatureLen + 1)>>, Remaining(b, SignatureLen + 1))
      BY <1>1, <1>4 DEF ReadSignature, Fail
    <2> DEFINE x == Cut(b, 1, 1 + SignatureLen)
               last == Cut(b, 1 + SignatureLen, Len(b))
    <2>2. SignatureLen + 1 = 1 + SignatureLen /\ 2 = 1 + 1 /\ (1 + SignatureLen) - 1 = SignatureLen
      BY DEF SignatureLen
    <2>3. result.value = <<x>> /\ result.rest = last
      <3>1. /\ SubSeq(b, 2, SignatureLen + 1) = x
            /\ Remaining(b, SignatureLen + 1) = last
        BY <2>2 DEF Cut, Remaining
      <3>2. result = Got(<<x>>, last)
        BY <2>1, <3>1
      <3> QED BY <3>2 DEF Got
    <2>4. /\ IsCut(b, 1, 1 + SignatureLen) /\ IsCut(b, 0, 1 + SignatureLen)
          /\ IsCut(b, 1 + SignatureLen, Len(b))
      BY <1>2, <2>1 DEF IsCut, SignatureLen
    <2>5. x \in AllBytes /\ Len(x) = SignatureLen /\ last \in AllBytes
      BY <2>2, <2>4, CutFacts
    <2>6. Cat(Single(1), x) = Cut(b, 0, 1 + SignatureLen)
      BY <1>2, <2>1, <2>4, CutsJoin
    <2>7. Cat(Cut(b, 0, 1 + SignatureLen), last) = b
      BY <2>4, CutsJoin, CutWhole
    <2> HIDE DEF x, last
    <2>8. SignatureOk(<<x>>)
      BY <2>5 DEF SignatureOk
    <2>9. WriteSignature(<<x>>) = Cat(Single(1), x)
      BY DEF WriteSignature, Cat, Single
    <2> QED BY <2>3, <2>5, <2>6, <2>7, <2>8, <2>9
  <1> QED BY <1>3, <1>4


LEMMA FieldsSize ==
    ASSUME NEW order, OrderOk(order), NEW record, HasFields(record, order)
    PROVE  /\ WriteFields(record, order) \in AllBytes
           /\ Len(WriteFields(record, order)) = FieldsLen(order)
           /\ FieldsLen(order) = Pos(order, Len(order))
  <1> DEFINE n == Len(order)
  <1>1. n \in Nat /\ n \in 0 .. n /\ (n + 1) - 1 = n
    BY DEF OrderOk, IsList
  <1>2. FieldsLen(order) = Pos(order, n)
    BY <1>1, OffsetIsPos DEF FieldsLen
  <1>3. /\ WriteFields(record, order) = Written(record, order, n)
        /\ WrittenOk(record, order, n)
    BY WrittenFacts
  <1> QED BY <1>1, <1>2, <1>3 DEF WrittenOk

LEMMA TransactionOrder ==
    /\ OrderOk(TransactionWrites) /\ TransactionReads = TransactionWrites
    /\ Range(TransactionWrites) = {"from", "to", "amount", "nonce"}
  <1> DEFINE order == TransactionWrites
  <1>1. /\ Len(order) = 4 /\ DOMAIN order = 1 .. 4
        /\ order[1] = "from" /\ order[2] = "to" /\ order[3] = "amount" /\ order[4] = "nonce"
    BY DEF TransactionWrites
  <1>2. TransactionReads = order
    BY DEF TransactionWrites, TransactionReads
  <1> HIDE DEF order
  <1>3. OrderOk(order)
    BY <1>1 DEF OrderOk, IsList, Distinct
  <1>4. Range(order) = {"from", "to", "amount", "nonce"}
    <2>1. Range(order) = {order[i] : i \in 1 .. 4}
      BY <1>1 DEF Range
    <2>2. \A i \in 1 .. 4 : i = 1 \/ i = 2 \/ i = 3 \/ i = 4
      OBVIOUS
    <2>3. 1 \in 1 .. 4 /\ 2 \in 1 .. 4 /\ 3 \in 1 .. 4 /\ 4 \in 1 .. 4
      OBVIOUS
    <2> QED BY <1>1, <2>1, <2>2, <2>3
  <1> QED BY <1>2, <1>3, <1>4 DEF order

TxShape(tx) ==
    /\ HasFields(tx, TransactionWrites)
    /\ tx = [field \in Range(TransactionWrites) \cup {"signature"} |-> tx[field]]
    /\ SignatureOk(tx["signature"])

LEMMA SignatureField == \A tx : tx.signature = tx["signature"]
  OBVIOUS

LEMMA TransactionSizeFacts ==
    ASSUME NEW tx, TxShape(tx)
    PROVE  /\ WriteTransaction(tx)
                 = Cat(WriteFields(tx, TransactionWrites), WriteSignature(tx["signature"]))
           /\ WriteTransaction(tx) \in AllBytes
           /\ Len(WriteTransaction(tx)) = TransactionSize(tx)
           /\ TransactionSize(tx) \in Nat
  <1> DEFINE fields == WriteFields(tx, TransactionWrites)
             signature == WriteSignature(tx["signature"])
  <1>1. WriteTransaction(tx) = Cat(fields, signature)
    BY SignatureField DEF WriteTransaction, Cat
  <1>2. fields \in AllBytes /\ Len(fields) = FieldsLen(TransactionWrites)
    BY TransactionOrder, FieldsSize DEF TxShape
  <1>3. /\ signature \in AllBytes
        /\ Len(signature) = 1 + (IF tx["signature"] = <<>> THEN 0 ELSE SignatureLen)
    BY SignatureSize DEF TxShape
  <1>4. Len(fields) \in Nat
    BY <1>2, BytesLen
  <1> HIDE DEF fields, signature
  <1>5. Cat(fields, signature) \in AllBytes
        /\ Len(Cat(fields, signature)) = Len(fields) + Len(signature)
    BY <1>2, <1>3, CatLen
  <1>6. TransactionSize(tx)
           = FieldsLen(TransactionWrites) + 1
               + (IF tx["signature"] = <<>> THEN 0 ELSE SignatureLen)
    BY SignatureField DEF TransactionSize
  <1>7. Len(Cat(fields, signature)) = TransactionSize(tx) /\ TransactionSize(tx) \in Nat
    BY <1>2, <1>3, <1>4, <1>5, <1>6 DEF SignatureLen
  <1> QED BY <1>1, <1>5, <1>7 DEF fields, signature

WithSignature(fields, signature) ==
    [field \in DOMAIN fields \cup {"signature"} |->
        IF field = "signature" THEN signature ELSE fields[field]]

LEMMA ReadTransactionIs ==
    ASSUME NEW b
    PROVE  LET fields    == ReadFields(b, TransactionWrites)
               signature == ReadSignature(fields.rest)
           IN  ReadTransaction(b)
                  = IF ~fields.ok \/ ~signature.ok THEN Fail
                    ELSE Got(WithSignature(fields.value, signature.value), signature.rest)
  BY TransactionOrder DEF ReadTransaction, WithSignature

LEMMA GotFacts ==
    /\ \A value, rest : /\ Got(value, rest).ok = TRUE
                        /\ Got(value, rest).value = value
                        /\ Got(value, rest).rest = rest
    /\ Fail.ok = FALSE
  BY DEF Got, Fail

LEMMA TransactionIsRead ==
    ASSUME NEW tx, TxShape(tx), NEW rest \in AllBytes, NEW b,
           b = Cat(WriteTransaction(tx), rest)
    PROVE  ReadTransaction(b) = Got(tx, rest)
  <1> DEFINE order == TransactionWrites
             fields == WriteFields(tx, order)
             signature == WriteSignature(tx["signature"])
             last == Cat(signature, rest)
             values == [field \in Range(order) |-> tx[field]]
  <1>1. fields \in AllBytes /\ signature \in AllBytes
    BY TransactionOrder, FieldsSize, SignatureSize DEF TxShape
  <1>2. WriteTransaction(tx) = Cat(fields, signature)
    BY TransactionSizeFacts
  <1> HIDE DEF fields, signature
  <1>3. b = Cat(fields, last) /\ last \in AllBytes
    BY <1>1, <1>2, CatAssociative, CatLen
  <1>4. ReadSignature(last) = Got(tx["signature"], rest)
    BY SignatureIsRead DEF TxShape, signature
  <1> HIDE DEF last
  <1>5. ReadFields(b, order) = Got(values, last)
    BY <1>3, TransactionOrder, FieldsAreRead DEF TxShape, fields
  <1>6. WithSignature(values, tx["signature"]) = tx
    <2>1. DOMAIN values = Range(order) /\ "signature" \notin Range(order)
      BY TransactionOrder
    <2>2. WithSignature(values, tx["signature"])
             = [field \in Range(order) \cup {"signature"} |-> tx[field]]
      BY <2>1 DEF WithSignature
    <2> QED BY <2>2 DEF TxShape
  <1> HIDE DEF values, order
  <1>7. /\ ReadFields(b, order).ok = TRUE /\ ReadFields(b, order).value = values
        /\ ReadFields(b, order).rest = last
    BY <1>5, GotFacts
  <1>8. /\ ReadSignature(last).ok = TRUE /\ ReadSignature(last).value = tx["signature"]
        /\ ReadSignature(last).rest = rest
    BY <1>4, GotFacts
  <1> QED BY <1>6, <1>7, <1>8, ReadTransactionIs DEF order

LEMMA TransactionIsWritten ==
    ASSUME NEW b \in AllBytes, ReadTransaction(b).ok
    PROVE  LET result == ReadTransaction(b)
           IN  /\ result = Got(result.value, result.rest)
               /\ TxShape(result.value)
               /\ result.rest \in AllBytes
               /\ Cat(WriteTransaction(result.value), result.rest) = b
  <1> DEFINE order == TransactionWrites
             fields == ReadFields(b, order)
             signature == ReadSignature(fields.rest)
             record == FieldsAt(b, order)
             tx == WithSignature(record, signature.value)
             result == ReadTransaction(b)
  <1>1. /\ fields.ok /\ signature.ok
        /\ result = Got(WithSignature(fields.value, signature.value), signature.rest)
    BY ReadTransactionIs, GotFacts
  <1>2. OrderOk(order) /\ "signature" \notin Range(order)
    BY TransactionOrder
  <1> HIDE DEF order
  <1>3. /\ fields.value = record /\ HasFields(record, order)
        /\ fields.rest \in AllBytes
        /\ Cat(WriteFields(record, order), fields.rest) = b
    BY <1>1, <1>2, FieldsAreWritten
  <1>4. /\ DOMAIN record = Range(order)
        /\ \A i \in 1 .. Len(order) : order[i] \in Range(order)
    BY <1>2, FieldsAtFacts
  <1> HIDE DEF fields, record
  <1>5. /\ SignatureOk(signature.value)
        /\ signature.rest \in AllBytes
        /\ Cat(WriteSignature(signature.value), signature.rest) = fields.rest
    BY <1>1, <1>3, SignatureIsWritten
  <1> HIDE DEF signature, result
  <1>6. result = Got(tx, signature.rest)
    BY <1>1, <1>3
  <1>7. result.value = tx /\ result.rest = signature.rest
    BY <1>6, GotFacts
  <1>8. /\ tx = [field \in Range(order) \cup {"signature"} |-> tx[field]]
        /\ tx["signature"] = signature.value
        /\ \A field \in Range(order) : tx[field] = record[field]
    BY <1>2, <1>4 DEF WithSignature
  <1> HIDE DEF tx
  <1>9. \A i \in 1 .. Len(order) : tx[order[i]] = record[order[i]]
    BY <1>4, <1>8
  <1>10. HasFields(tx, order)
    BY <1>3, <1>9 DEF HasFields
  <1>11. TxShape(tx)
    BY <1>5, <1>8, <1>10 DEF TxShape, order
  <1>12. WriteFields(tx, order) = WriteFields(record, order)
    <2>1. DOMAIN order = 1 .. Len(order)
      BY <1>2 DEF OrderOk, IsList
    <2>2. [i \in DOMAIN order |-> tx[order[i]]] = [i \in DOMAIN order |-> record[order[i]]]
      BY <1>9, <2>1
    <2> QED BY <2>2 DEF WriteFields
  <1>13. WriteTransaction(tx) = Cat(WriteFields(record, order), WriteSignature(signature.value))
    BY <1>8, <1>11, <1>12, TransactionSizeFacts DEF order
  <1>14. /\ WriteFields(record, order) \in AllBytes
         /\ WriteSignature(signature.value) \in AllBytes
    BY <1>2, <1>3, <1>5, FieldsSize, SignatureSize
  <1>15. Cat(WriteTransaction(tx), signature.rest) = b
    BY <1>3, <1>5, <1>13, <1>14, CatAssociative
  <1> QED BY <1>5, <1>6, <1>7, <1>11, <1>15 DEF result

-----------------------------------------------------------------------------
(* Bodies.                                                                 *)

Transactions ==
    {tx \in [Range(TransactionWrites) \cup {"signature"} -> AllBytes \cup Seq(AllBytes)] :
        TxShape(tx)}

LEMMA ShapeIsTransaction == ASSUME NEW tx, TxShape(tx) PROVE tx \in Transactions
  <1> DEFINE D == Range(TransactionWrites) \cup {"signature"}
             S == AllBytes \cup Seq(AllBytes)
  <1>1. ASSUME NEW field \in Range(TransactionWrites) PROVE tx[field] \in AllBytes
    <2>1. PICK i \in 1 .. Len(TransactionWrites) : TransactionWrites[i] = field
      BY TransactionOrder DEF OrderOk, IsList, Range
    <2> QED BY <2>1 DEF TxShape, HasFields
  <1>2. tx["signature"] \in Seq(AllBytes)
    <2>1. CASE tx["signature"] = <<>>
      BY <2>1
    <2>2. CASE tx["signature"] # <<>>
      <3> DEFINE s == tx["signature"]
      <3>1. s = <<s[1]>> /\ s[1] \in AllBytes
        BY <2>2 DEF TxShape, SignatureOk
      <3>2. \A x \in AllBytes : <<x>> \in Seq(AllBytes)
        OBVIOUS
      <3> QED BY <3>1, <3>2
    <2> QED BY <2>1, <2>2
  <1>3. \A field \in D : tx[field] \in S
    BY <1>1, <1>2
  <1> HIDE DEF S
  <1>4. tx = [field \in D |-> tx[field]]
    BY DEF TxShape
  <1> HIDE DEF D
  <1>5. tx \in [D -> S]
    BY <1>3, <1>4
  <1> QED BY <1>5 DEF Transactions, D, S

TxLists == Seq(Transactions)

Body(txs) == FlattenSeq([i \in DOMAIN txs |-> WriteTransaction(txs[i])])

WrittenTxs(txs, k) == Joined([i \in DOMAIN txs |-> WriteTransaction(txs[i])], k)

LEMMA BodyLen ==
    ASSUME NEW txs \in TxLists
    PROVE  /\ Len(txs) \in Nat /\ DOMAIN txs = 1 .. Len(txs)
           /\ \A i \in 1 .. Len(txs) : TxShape(txs[i])
  <1>1. \A i \in 1 .. Len(txs) : txs[i] \in Transactions
    BY ElementOfSeq DEF TxLists
  <1>2. \A i \in 1 .. Len(txs) : TxShape(txs[i])
    BY <1>1 DEF Transactions
  <1> QED BY <1>2, LenProperties DEF TxLists

LEMMA BodyFacts ==
    ASSUME NEW txs \in TxLists
    PROVE  /\ Body(txs) = WrittenTxs(txs, Len(txs))
           /\ WrittenTxs(txs, 0) = <<>>
           /\ \A k \in 0 .. Len(txs) : WrittenTxs(txs, k) \in AllBytes
           /\ \A k \in 1 .. Len(txs) :
                 WrittenTxs(txs, k) = Cat(WrittenTxs(txs, k - 1), WriteTransaction(txs[k]))
           /\ \A k \in 0 .. Len(txs) : \E t \in AllBytes : Body(txs) = Cat(WrittenTxs(txs, k), t)
  <1> DEFINE n == Len(txs)
             pieces == [i \in DOMAIN txs |-> WriteTransaction(txs[i])]
  <1>1. n \in Nat /\ DOMAIN txs = 1 .. n /\ \A i \in 1 .. n : TxShape(txs[i])
    BY BodyLen
  <1>2. /\ pieces = [i \in 1 .. n |-> pieces[i]]
        /\ \A i \in 1 .. n : pieces[i] = WriteTransaction(txs[i])
    BY <1>1
  <1>3. Body(txs) = FlattenSeq(pieces) /\ \A k : WrittenTxs(txs, k) = Joined(pieces, k)
    BY DEF Body, WrittenTxs
  <1> HIDE DEF pieces
  <1>4. \A i \in 1 .. n : pieces[i] \in AllBytes
    BY <1>1, <1>2, TransactionSizeFacts
  <1>5. pieces \in Pieces /\ Len(pieces) = n
    BY <1>1, <1>2, <1>4, ListIsPieces
  <1>6. /\ \A k \in 0 .. n : Joined(pieces, k) \in AllBytes
        /\ \A k \in 0 .. n : \E t \in AllBytes : Joined(pieces, n) = Cat(Joined(pieces, k), t)
        /\ FlattenSeq(pieces) = Joined(pieces, n)
    BY <1>5, JoinedBytes, JoinedSplits, FlattenIsJoined
  <1>7. \A k \in 1 .. n : Joined(pieces, k) = Cat(Joined(pieces, k - 1), pieces[k])
    BY JoinedBefore
  <1> QED BY <1>2, <1>3, <1>6, <1>7, JoinedNone

LEMMA BodyBytes == ASSUME NEW txs \in TxLists PROVE Body(txs) \in AllBytes
  <1>1. Len(txs) \in 0 .. Len(txs)
    BY BodyLen
  <1> QED BY <1>1, BodyFacts

LEMMA BodyNone == <<>> \in TxLists /\ Len(<<>>) = 0 /\ Body(<<>>) = <<>>
  <1>1. <<>> \in TxLists /\ Len(<<>>) = 0
    BY EmptySeq DEF TxLists
  <1>2. Body(<<>>) = WrittenTxs(<<>>, 0) /\ WrittenTxs(<<>>, 0) = <<>>
    BY <1>1, BodyFacts
  <1> QED BY <1>1, <1>2

LEMMA BodyAppend ==
    ASSUME NEW txs \in TxLists, NEW tx, TxShape(tx), NEW more, more = Append(txs, tx)
    PROVE  /\ more \in TxLists /\ Len(more) = Len(txs) + 1
           /\ Body(more) = Cat(Body(txs), WriteTransaction(tx))
  <1> DEFINE n == Len(txs)
  <1>1. n \in Nat /\ DOMAIN txs = 1 .. n
    BY BodyLen
  <1>2. /\ more \in TxLists /\ Len(more) = n + 1 /\ more[n + 1] = tx
        /\ \A i \in 1 .. n : more[i] = txs[i]
    BY ShapeIsTransaction, AppendProperties DEF TxLists
  <1>3. DOMAIN more = 1 .. n + 1
    BY <1>2, BodyLen
  <1>4. Body(more) = Cat(WrittenTxs(more, n), WriteTransaction(tx))
    <2>1. n + 1 \in 1 .. n + 1 /\ (n + 1) - 1 = n
      BY <1>1
    <2>2. Body(more) = WrittenTxs(more, n + 1)
      BY <1>2, BodyFacts
    <2>3. WrittenTxs(more, n + 1)
             = Cat(WrittenTxs(more, (n + 1) - 1), WriteTransaction(more[n + 1]))
      BY <1>2, <2>1, BodyFacts
    <2> QED BY <1>2, <2>1, <2>2, <2>3
  <1>5. WrittenTxs(more, n) = WrittenTxs(txs, n)
    <2> DEFINE p == [i \in DOMAIN more |-> WriteTransaction(more[i])]
               q == [i \in DOMAIN txs |-> WriteTransaction(txs[i])]
    <2>1. \A i \in 1 .. n : p[i] = q[i]
      BY <1>1, <1>2, <1>3
    <2>2. WrittenTxs(more, n) = Joined(p, n) /\ WrittenTxs(txs, n) = Joined(q, n)
      BY DEF WrittenTxs
    <2> HIDE DEF p, q
    <2> QED BY <1>1, <2>1, <2>2, JoinedPrefix
  <1>6. Body(txs) = WrittenTxs(txs, n)
    BY BodyFacts
  <1> QED BY <1>2, <1>4, <1>5, <1>6


(* The items of a Vec, one after another.                                  *)
ReadOne(before) ==
    LET next == ReadTransaction(before.rest)
    IN  IF ~before.ok \/ ~next.ok THEN Fail
        ELSE Got(Append(before.value, next.value), next.rest)

Reads == INSTANCE Loops WITH Round <- LAMBDA env, before, e : ReadOne(before)

ReadSoFar(b, k) == Reads!After(0, <<>>, Got(<<>>, b), k)

LEMMA ReadTransactionsIs ==
    \A b, count : ReadTransactions(b, count) = ReadSoFar(b, count)
  BY DEF ReadTransactions, ReadSoFar, Reads!After, Reads!IsLoop, ReadOne

LEMMA ReadNone == \A b : ReadSoFar(b, 0) = Got(<<>>, b)
  BY Reads!AfterNone DEF ReadSoFar

LEMMA ReadBefore ==
    ASSUME NEW b, NEW k \in Nat, k >= 1
    PROVE  ReadSoFar(b, k) = ReadOne(ReadSoFar(b, k - 1))
  <1>1. k - 1 \in Nat /\ (k - 1) + 1 = k
    OBVIOUS
  <1> QED BY <1>1, Reads!AfterNext DEF ReadSoFar

LEMMA PrefixGrows ==
    ASSUME NEW txs \in TxLists, NEW k \in 1 .. Len(txs)
    PROVE  Append(SubSeq(txs, 1, k - 1), txs[k]) = SubSeq(txs, 1, k)
  <1>1. Len(txs) \in Nat /\ 1 \in 1 .. Len(txs) /\ k \in 1 .. Len(txs)
    BY BodyLen
  <1>2. SubSeq(txs, 1, k) = SubSeq(txs, 1, k - 1) \o <<txs[k]>>
    BY <1>1, SubSeqRecursiveSecond DEF TxLists
  <1>3. SubSeq(txs, 1, k - 1) \in Seq(Transactions)
    <2>1. \A i \in 1 .. k - 1 : txs[i] \in Transactions
      <3> TAKE i \in 1 .. k - 1
      <3>1. i \in 1 .. Len(txs)
        BY <1>1
      <3> QED BY <3>1, ElementOfSeq DEF TxLists
    <2>2. 1 \in Int /\ k - 1 \in Int
      BY <1>1
    <2> QED BY <2>1, <2>2, SubSeqProperties
  <1>4. txs[k] \in Transactions
    BY ElementOfSeq DEF TxLists
  <1>5. Append(SubSeq(txs, 1, k - 1), txs[k]) = SubSeq(txs, 1, k - 1) \o <<txs[k]>>
    BY <1>3, <1>4, AppendIsConcat
  <1> QED BY <1>2, <1>5

BodyIsReadUpTo(b, txs, k) ==
    \E t \in AllBytes :
        b = Cat(WrittenTxs(txs, k), t) /\ ReadSoFar(b, k) = Got(SubSeq(txs, 1, k), t)

LEMMA BodyIsRead ==
    ASSUME NEW txs \in TxLists, NEW rest \in AllBytes, NEW b, b = Cat(Body(txs), rest)
    PROVE  ReadTransactions(b, Len(txs)) = Got(txs, rest)
  <1> DEFINE n == Len(txs)
             w(k) == WrittenTxs(txs, k)
             S == {k \in 0 .. n : BodyIsReadUpTo(b, txs, k)}
  <1>1. n \in Nat /\ \A i \in 1 .. n : TxShape(txs[i])
    BY BodyLen
  <1>2. /\ Body(txs) = w(n) /\ w(0) = <<>> /\ Body(txs) \in AllBytes
        /\ \A k \in 0 .. n : w(k) \in AllBytes
        /\ \A k \in 1 .. n : w(k) = Cat(w(k - 1), WriteTransaction(txs[k]))
        /\ \A k \in 0 .. n : \E t \in AllBytes : Body(txs) = Cat(w(k), t)
    BY BodyFacts, BodyBytes
  <1>3. b \in AllBytes
    BY <1>2, CatLen
  <1>4. 0 \in S
    <2>1. SubSeq(txs, 1, 0) = <<>>
      BY SubSeqEmpty
    <2>2. b = Cat(w(0), b)
      BY <1>2, <1>3, CatNone
    <2>3. ReadSoFar(b, 0) = Got(SubSeq(txs, 1, 0), b)
      BY <2>1, ReadNone
    <2>4. BodyIsReadUpTo(b, txs, 0)
      BY <1>3, <2>2, <2>3 DEF BodyIsReadUpTo
    <2> QED BY <1>1, <2>4
  <1> HIDE DEF w
  <1>5. ASSUME NEW k \in 1 .. n, k - 1 \in S PROVE k \in S
    <2> DEFINE x == WriteTransaction(txs[k])
               prefix == SubSeq(txs, 1, k - 1)
    <2>1. PICK t \in AllBytes : /\ b = Cat(w(k - 1), t)
                                /\ ReadSoFar(b, k - 1) = Got(prefix, t)
      BY <1>5 DEF BodyIsReadUpTo, w
    <2>2. k - 1 \in 0 .. n /\ k \in 0 .. n /\ k \in Nat /\ k >= 1
      BY <1>1
    <2>3. TxShape(txs[k]) /\ x \in AllBytes
      BY <1>1, TransactionSizeFacts
    <2>4. PICK u \in AllBytes : Body(txs) = Cat(w(k), u)
      BY <1>2, <2>2
    <2>5. w(k) = Cat(w(k - 1), x) /\ w(k) \in AllBytes /\ w(k - 1) \in AllBytes
      BY <1>2, <2>2
    <2> HIDE DEF x, prefix
    <2> DEFINE next == Cat(u, rest)
    <2>6. next \in AllBytes
      BY <2>4, CatLen
    <2>7. b = Cat(w(k), next)
      BY <2>4, <2>5, CatAssociative
    <2> HIDE DEF next
    <2>8. b = Cat(w(k - 1), Cat(x, next)) /\ Cat(x, next) \in AllBytes
      BY <2>3, <2>5, <2>6, <2>7, CatAssociative, CatLen
    <2>9. t = Cat(x, next)
      BY <2>1, <2>5, <2>8, CatCancel
    <2>10. ReadTransaction(t) = Got(txs[k], next)
      BY <2>3, <2>6, <2>9, TransactionIsRead DEF x
    <2>11. ReadSoFar(b, k) = ReadOne(Got(prefix, t))
      BY <2>1, <2>2, ReadBefore
    <2>12. ReadOne(Got(prefix, t)) = Got(Append(prefix, txs[k]), next)
      BY <2>10, GotFacts DEF ReadOne
    <2>13. Append(prefix, txs[k]) = SubSeq(txs, 1, k)
      BY PrefixGrows DEF prefix
    <2>14. BodyIsReadUpTo(b, txs, k)
      BY <2>6, <2>7, <2>11, <2>12, <2>13 DEF BodyIsReadUpTo, w
    <2> QED BY <2>2, <2>14
  <1> HIDE DEF S
  <1>6. BodyIsReadUpTo(b, txs, n)
    <2>1. \A k \in 0 .. n : k \in S
      BY <1>1, <1>4, <1>5, Joins!BoundedInduction
    <2>2. n \in S
      BY <1>1, <2>1
    <2> QED BY <2>2 DEF S
  <1>7. PICK t \in AllBytes : b = Cat(Body(txs), t) /\ ReadSoFar(b, n) = Got(SubSeq(txs, 1, n), t)
    BY <1>2, <1>6 DEF BodyIsReadUpTo, w
  <1>8. t = rest
    BY <1>2, <1>7, CatCancel
  <1>9. SubSeq(txs, 1, n) = txs
    BY SubSeqFull DEF TxLists
  <1> QED BY <1>7, <1>8, <1>9, ReadTransactionsIs

BodyIsWrittenUpTo(b, k) ==
    ReadSoFar(b, k).ok =>
        \E txs \in TxLists, t \in AllBytes :
            /\ ReadSoFar(b, k) = Got(txs, t)
            /\ Len(txs) = k
            /\ Cat(Body(txs), t) = b

LEMMA BodyIsWritten ==
    ASSUME NEW b \in AllBytes, NEW count \in Nat, ReadTransactions(b, count).ok
    PROVE  \E txs \in TxLists, t \in AllBytes :
              /\ ReadTransactions(b, count) = Got(txs, t)
              /\ Len(txs) = count
              /\ Cat(Body(txs), t) = b
  <1> DEFINE S == {k \in 0 .. count : BodyIsWrittenUpTo(b, k)}
  <1>1. 0 \in S
    <2>1. Cat(Body(<<>>), b) = b
      BY BodyNone, CatNone
    <2> QED BY <2>1, ReadNone, BodyNone DEF BodyIsWrittenUpTo
  <1>2. ASSUME NEW k \in 1 .. count, k - 1 \in S PROVE k \in S
    <2> SUFFICES ASSUME ReadSoFar(b, k).ok
                 PROVE  \E txs \in TxLists, t \in AllBytes :
                           /\ ReadSoFar(b, k) = Got(txs, t)
                           /\ Len(txs) = k
                           /\ Cat(Body(txs), t) = b
      BY DEF BodyIsWrittenUpTo
    <2> DEFINE before == ReadSoFar(b, k - 1)
               next == ReadTransaction(before.rest)
    <2>1. ReadSoFar(b, k) = ReadOne(before)
      BY ReadBefore
    <2>2. before.ok /\ next.ok /\ ReadOne(before) = Got(Append(before.value, next.value), next.rest)
      BY <2>1, GotFacts DEF ReadOne
    <2>3. PICK txs \in TxLists, t \in AllBytes :
              before = Got(txs, t) /\ Len(txs) = k - 1 /\ Cat(Body(txs), t) = b
      BY <1>2, <2>2 DEF BodyIsWrittenUpTo
    <2>4. before.value = txs /\ before.rest = t
      BY <2>3, GotFacts
    <2> HIDE DEF before
    <2> DEFINE tx == next.value
               more == Append(txs, tx)
    <2>5. /\ TxShape(tx) /\ next.rest \in AllBytes
          /\ Cat(WriteTransaction(tx), next.rest) = t
      BY <2>2, <2>4, TransactionIsWritten
    <2> HIDE DEF next, tx
    <2>6. /\ more \in TxLists /\ Len(more) = Len(txs) + 1
          /\ Body(more) = Cat(Body(txs), WriteTransaction(tx))
      BY <2>5, BodyAppend
    <2>7. WriteTransaction(tx) \in AllBytes /\ Body(txs) \in AllBytes
      BY <2>5, TransactionSizeFacts, BodyBytes
    <2>8. Cat(Body(more), next.rest) = b
      BY <2>3, <2>5, <2>6, <2>7, CatAssociative
    <2>9. Len(more) = k
      BY <2>3, <2>6
    <2>10. ReadSoFar(b, k) = Got(more, next.rest)
      BY <2>1, <2>2, <2>4 DEF tx
    <2> QED BY <2>5, <2>6, <2>8, <2>9, <2>10
  <1> HIDE DEF S
  <1>3. BodyIsWrittenUpTo(b, count)
    <2>1. \A k \in 0 .. count : k \in S
      BY <1>1, <1>2, Joins!BoundedInduction
    <2>2. count \in S
      BY <2>1
    <2> QED BY <2>2 DEF S
  <1> QED BY <1>3, ReadTransactionsIs DEF BodyIsWrittenUpTo

-----------------------------------------------------------------------------
(* Lengths: a number and its digits to the base LengthBase.                *)

BelowBase == 0 .. LengthBase - 1

LEMMA BaseFacts ==
    /\ LengthBase \in Nat /\ LengthBase >= 2
    /\ MaxTxsDecoded \in Nat /\ LengthLimit \in Nat /\ MaxTxsDecoded < LengthLimit
    /\ LengthLimit = LengthBase * (LengthBase * LengthBase)
  BY LengthAssumption DEF LengthLimit

LEMMA DigitsOf ==
    ASSUME NEW n \in Nat
    PROVE  /\ n \div LengthBase \in Nat /\ n % LengthBase \in BelowBase
           /\ n = (n % LengthBase) + LengthBase * (n \div LengthBase)
  <1>1. LengthBase \in Nat /\ LengthBase >= 2
    BY BaseFacts
  <1> QED BY <1>1 DEF BelowBase

LEMMA DigitsUnique ==
    ASSUME NEW x \in Nat, NEW y \in Nat, NEW r \in BelowBase, NEW s \in BelowBase,
           r + LengthBase * x = s + LengthBase * y
    PROVE  x = y /\ r = s
  <1>1. /\ LengthBase \in Nat /\ LengthBase >= 2
        /\ r \in 0 .. LengthBase - 1 /\ s \in 0 .. LengthBase - 1
    BY BaseFacts DEF BelowBase
  <1>2. CASE x < y
    <2>1. LengthBase * (x + 1) <= LengthBase * y
      BY <1>1, <1>2
    <2>2. LengthBase * (x + 1) = LengthBase * x + LengthBase
      BY <1>1
    <2> QED BY <1>1, <2>1, <2>2
  <1>3. CASE y < x
    <2>1. LengthBase * (y + 1) <= LengthBase * x
      BY <1>1, <1>3
    <2>2. LengthBase * (y + 1) = LengthBase * y + LengthBase
      BY <1>1
    <2> QED BY <1>1, <2>1, <2>2
  <1> QED BY <1>1, <1>2, <1>3

LEMMA DigitsAre ==
    ASSUME NEW q \in Nat, NEW r \in BelowBase, NEW n, n = r + LengthBase * q
    PROVE  n \in Nat /\ n % LengthBase = r /\ n \div LengthBase = q
  <1>1. n \in Nat
    BY BaseFacts DEF BelowBase
  <1> DEFINE x == n \div LengthBase
             s == n % LengthBase
  <1>2. x \in Nat /\ s \in BelowBase /\ r + LengthBase * q = s + LengthBase * x
    BY <1>1, DigitsOf
  <1> HIDE DEF x, s
  <1>3. q = x /\ r = s
    BY <1>2, DigitsUnique
  <1> QED BY <1>1, <1>3 DEF x, s

LEMMA DigitsBelow ==
    ASSUME NEW q \in Nat, NEW r \in BelowBase, NEW k \in Nat
    PROVE  r + LengthBase * q < LengthBase * k <=> q < k
  <1>1. LengthBase \in Nat /\ LengthBase >= 2 /\ r \in 0 .. LengthBase - 1
    BY BaseFacts DEF BelowBase
  <1>2. LengthBase * q \in Nat /\ LengthBase * k \in Nat
    BY <1>1
  <1>3. CASE q < k
    <2>1. LengthBase * (q + 1) <= LengthBase * k
      BY <1>1, <1>3
    <2>2. LengthBase * (q + 1) = LengthBase * q + LengthBase
      BY <1>1
    <2> QED BY <1>1, <1>2, <1>3, <2>1, <2>2
  <1>4. CASE k <= q
    <2>1. LengthBase * k <= LengthBase * q
      BY <1>1, <1>4
    <2> QED BY <1>1, <1>2, <1>4, <2>1
  <1> QED BY <1>3, <1>4

(* The three forms of a length, by its digits.                             *)
Pair(x, y) == <<x, y>>

Three(x, y, z) == <<x, y, z>>

Marked(digit) == LengthBase + digit

Leading == BelowBase \ {0}

LEMMA DigitBytes ==
    ASSUME NEW x \in BelowBase
    PROVE  /\ x \in Byte /\ Marked(x) \in Byte
           /\ x \in Nat /\ Marked(x) \in Nat
           /\ x < LengthBase /\ ~(Marked(x) < LengthBase) /\ Marked(x) >= LengthBase
           /\ Marked(x) - LengthBase = x
           /\ Marked(x) \notin 1 .. LengthBase - 1
           /\ x # 0 => x \in 1 .. LengthBase - 1
  <1>1. LengthBase \in Nat /\ LengthBase >= 2 /\ x \in 0 .. LengthBase - 1
    BY BaseFacts DEF BelowBase
  <1> QED BY <1>1 DEF Byte, Marked

LEMMA ByteDigits ==
    ASSUME NEW x \in Byte
    PROVE  /\ x \in Nat
           /\ x < LengthBase => x \in BelowBase
           /\ x \in 1 .. LengthBase - 1 => x \in Leading
           /\ x >= LengthBase => x - LengthBase \in BelowBase /\ x = Marked(x - LengthBase)
           /\ ~(x < LengthBase) => x >= LengthBase
  <1>1. LengthBase \in Nat /\ LengthBase >= 2 /\ x \in 0 .. 2 * LengthBase - 1
    BY BaseFacts DEF Byte
  <1> QED BY <1>1 DEF BelowBase, Leading, Marked

LEMMA FewBytes ==
    ASSUME NEW x \in Byte, NEW y \in Byte, NEW z \in Byte
    PROVE  /\ Pair(x, y) \in AllBytes /\ Len(Pair(x, y)) = 2
           /\ Pair(x, y)[1] = x /\ Pair(x, y)[2] = y
           /\ Three(x, y, z) \in AllBytes /\ Len(Three(x, y, z)) = 3
           /\ Three(x, y, z)[1] = x /\ Three(x, y, z)[2] = y /\ Three(x, y, z)[3] = z
  BY DEF AllBytes, Pair, Three

(* The written form of each length.                                        *)
LEMMA ShortIsWritten ==
    ASSUME NEW low \in BelowBase
    PROVE  WriteLength(low) = Single(low) /\ LengthSize(low) = 1
  <1>1. LengthBase \in Nat /\ low \in Nat /\ low < LengthBase
    BY BaseFacts, DigitBytes
  <1>2. low = low + LengthBase * 0 /\ 0 \in Nat
    BY <1>1
  <1>3. low % LengthBase = low /\ low \div LengthBase = 0
    BY <1>2, DigitsAre
  <1> QED BY <1>1, <1>3 DEF WriteLength, LengthSize, Single

LEMMA MiddleIsWritten ==
    ASSUME NEW low \in BelowBase, NEW high \in Leading
    PROVE  /\ WriteLength(low + LengthBase * high) = Pair(Marked(low), high)
           /\ LengthSize(low + LengthBase * high) = 2
           /\ low + LengthBase * high \in Nat
  <1> DEFINE n == low + LengthBase * high
  <1>1. /\ LengthBase \in Nat /\ LengthBase >= 2
        /\ high \in Nat /\ high # 0 /\ high < LengthBase /\ low \in Nat
    BY BaseFacts, DigitBytes DEF Leading
  <1>2. n \in Nat /\ n % LengthBase = low /\ n \div LengthBase = high
    BY <1>1, DigitsAre
  <1>3. ~(n < LengthBase) /\ n < LengthBase * LengthBase
    <2>1. n < LengthBase * 1 <=> high < 1
      BY <1>1, DigitsBelow
    <2>2. n < LengthBase * LengthBase <=> high < LengthBase
      BY <1>1, DigitsBelow
    <2>3. LengthBase * 1 = LengthBase
      BY <1>1
    <2> QED BY <1>1, <2>1, <2>2, <2>3
  <1> HIDE DEF n
  <1>4. WriteLength(n) = Pair(Marked(low), high)
    BY <1>1, <1>2 DEF WriteLength, Pair, Marked
  <1>5. LengthSize(n) = 2
    BY <1>3, Zenon DEF LengthSize
  <1> QED BY <1>2, <1>4, <1>5 DEF n

LEMMA LongIsWritten ==
    ASSUME NEW low \in BelowBase, NEW mid \in BelowBase, NEW top \in Leading
    PROVE  LET n == low + LengthBase * (mid + LengthBase * top)
           IN  /\ WriteLength(n) = Three(Marked(low), Marked(mid), top)
               /\ LengthSize(n) = 3
               /\ n \in Nat
  <1> DEFINE high == mid + LengthBase * top
             n == low + LengthBase * high
  <1>1. /\ LengthBase \in Nat /\ LengthBase >= 2
        /\ top \in Nat /\ top # 0 /\ top < LengthBase /\ mid \in Nat /\ low \in Nat
    BY BaseFacts, DigitBytes DEF Leading
  <1>2. high \in Nat /\ high % LengthBase = mid /\ high \div LengthBase = top
    BY <1>1, DigitsAre
  <1>3. ~(high < LengthBase)
    <2>1. high < LengthBase * 1 <=> top < 1
      BY <1>1, DigitsBelow
    <2>2. LengthBase * 1 = LengthBase
      BY <1>1
    <2> QED BY <1>1, <2>1, <2>2
  <1> HIDE DEF high
  <1>4. n \in Nat /\ n % LengthBase = low /\ n \div LengthBase = high
    BY <1>2, DigitsAre
  <1>5. ~(n < LengthBase) /\ ~(n < LengthBase * LengthBase)
    <2>1. n < LengthBase * 1 <=> high < 1
      BY <1>2, DigitsBelow
    <2>2. n < LengthBase * LengthBase <=> high < LengthBase
      BY <1>1, <1>2, DigitsBelow
    <2>3. LengthBase * 1 = LengthBase /\ ~(high < 1)
      BY <1>1, <1>2, <1>3
    <2> QED BY <1>1, <1>3, <2>1, <2>2, <2>3
  <1> HIDE DEF n
  <1>6. high # 0
    BY <1>1, <1>3
  <1>7. WriteLength(n) = Three(Marked(low), Marked(mid), top)
    BY <1>2, <1>3, <1>4, <1>6 DEF WriteLength, Three, Marked
  <1>8. LengthSize(n) = 3
    BY <1>5, Zenon DEF LengthSize
  <1> QED BY <1>4, <1>7, <1>8 DEF n, high

(* Every length below the limit has one of the three forms.                *)
LEMMA LengthForms ==
    ASSUME NEW n \in Nat, n < LengthLimit
    PROVE  \/ n \in BelowBase
           \/ \E low \in BelowBase, high \in Leading : n = low + LengthBase * high
           \/ \E low \in BelowBase, mid \in BelowBase, top \in Leading :
                  n = low + LengthBase * (mid + LengthBase * top)
  <1> DEFINE low == n % LengthBase
             high == n \div LengthBase
             mid == high % LengthBase
             top == high \div LengthBase
  <1>1. low \in BelowBase /\ high \in Nat /\ n = low + LengthBase * high
    BY DigitsOf
  <1> HIDE DEF low, high
  <1>2. mid \in BelowBase /\ top \in Nat /\ high = mid + LengthBase * top
    BY <1>1, DigitsOf
  <1> HIDE DEF mid, top
  <1>3. LengthBase \in Nat /\ LengthBase >= 2 /\ LengthBase * LengthBase \in Nat
    BY BaseFacts
  <1>4. top \in BelowBase
    <2>1. high < LengthBase * LengthBase
      <3> DEFINE square == LengthBase * LengthBase
      <3>1. square \in Nat /\ low + LengthBase * high < LengthBase * square
        BY <1>1, <1>3, BaseFacts
      <3> HIDE DEF square
      <3>2. high < square
        BY <1>1, <3>1, DigitsBelow
      <3> QED BY <3>2 DEF square
    <2>2. top < LengthBase
      BY <1>2, <1>3, <2>1, DigitsBelow
    <2> QED BY <1>2, <1>3, <2>2 DEF BelowBase
  <1>5. CASE top # 0
    BY <1>1, <1>2, <1>4, <1>5 DEF Leading
  <1>6. CASE top = 0 /\ mid # 0
    <2>1. high = mid
      BY <1>2, <1>3, <1>6 DEF BelowBase
    <2> QED BY <1>1, <1>2, <1>6, <2>1 DEF Leading
  <1>7. CASE top = 0 /\ mid = 0
    <2>1. high = 0
      BY <1>2, <1>3, <1>7
    <2>2. n = low
      BY <1>1, <1>3, <2>1 DEF BelowBase
    <2> QED BY <1>1, <2>2
  <1> QED BY <1>5, <1>6, <1>7

LEMMA LengthBytes ==
    ASSUME NEW n \in Nat, n < LengthLimit
    PROVE  WriteLength(n) \in AllBytes /\ Len(WriteLength(n)) = LengthSize(n)
  <1>1. CASE n \in BelowBase
    BY <1>1, ShortIsWritten, DigitBytes, OneByte
  <1>2. ASSUME NEW low \in BelowBase, NEW high \in Leading, n = low + LengthBase * high
        PROVE  WriteLength(n) \in AllBytes /\ Len(WriteLength(n)) = LengthSize(n)
    <2>1. /\ WriteLength(n) = Pair(Marked(low), high)
          /\ LengthSize(n) = 2
      BY <1>2, MiddleIsWritten
    <2>2. Marked(low) \in Byte /\ high \in Byte
      BY DigitBytes DEF Leading
    <2>3. Pair(Marked(low), high) \in AllBytes /\ Len(Pair(Marked(low), high)) = 2
      BY <2>2, FewBytes
    <2> QED BY <2>1, <2>3
  <1>3. ASSUME NEW low \in BelowBase, NEW mid \in BelowBase, NEW top \in Leading,
               n = low + LengthBase * (mid + LengthBase * top)
        PROVE  WriteLength(n) \in AllBytes /\ Len(WriteLength(n)) = LengthSize(n)
    <2>1. /\ WriteLength(n) = Three(Marked(low), Marked(mid), top)
          /\ LengthSize(n) = 3
      BY <1>3, LongIsWritten
    <2>2. Marked(low) \in Byte /\ Marked(mid) \in Byte /\ top \in Byte
      BY DigitBytes DEF Leading
    <2>3. /\ Three(Marked(low), Marked(mid), top) \in AllBytes
          /\ Len(Three(Marked(low), Marked(mid), top)) = 3
      BY <2>2, FewBytes
    <2> QED BY <2>1, <2>3
  <1> QED BY <1>1, <1>2, <1>3, LengthForms

(* What ReadLength makes of each form.                                     *)
LEMMA ReadShort ==
    ASSUME NEW b \in AllBytes, b # <<>>, b[1] < LengthBase
    PROVE  ReadLength(b) = Got(b[1], Cut(b, 1, Len(b)))
  BY DEF ReadLength, Remaining, Cut

LEMMA ReadMiddle ==
    ASSUME NEW b \in AllBytes, Len(b) >= 2, b # <<>>, NEW low \in BelowBase, NEW high \in Leading,
           b[1] = Marked(low), b[2] = high
    PROVE  ReadLength(b) = Got(low + LengthBase * high, Cut(b, 2, Len(b)))
  <1>1. ~(b[1] < LengthBase) /\ b[1] - LengthBase = low /\ b[2] \in 1 .. LengthBase - 1
    BY DigitBytes DEF Leading
  <1> QED BY <1>1 DEF ReadLength, Remaining, Cut

LEMMA ReadLong ==
    ASSUME NEW b \in AllBytes, Len(b) >= 3, b # <<>>,
           NEW low \in BelowBase, NEW mid \in BelowBase, NEW top \in Leading,
           b[1] = Marked(low), b[2] = Marked(mid), b[3] = top
    PROVE  ReadLength(b)
              = Got(low + LengthBase * (mid + LengthBase * top), Cut(b, 3, Len(b)))
  <1>1. /\ ~(b[1] < LengthBase) /\ b[1] - LengthBase = low
        /\ b[2] \notin 1 .. LengthBase - 1 /\ b[2] - LengthBase = mid /\ b[2] >= LengthBase
        /\ b[3] \in 1 .. LengthBase - 1
    BY DigitBytes DEF Leading
  <1> QED BY <1>1 DEF ReadLength, Remaining, Cut

LEMMA ReadForms ==
    ASSUME NEW b \in AllBytes, ReadLength(b).ok
    PROVE  /\ b # <<>>
           /\ \/ b[1] < LengthBase
              \/ ~(b[1] < LengthBase) /\ Len(b) >= 2 /\ b[2] \in 1 .. LengthBase - 1
              \/ /\ ~(b[1] < LengthBase) /\ Len(b) >= 3
                 /\ b[2] >= LengthBase /\ b[3] \in 1 .. LengthBase - 1
  BY GotFacts DEF ReadLength

(* A written length is read back, whatever follows it.                     *)
LEMMA LengthIsRead ==
    ASSUME NEW n \in Nat, n < LengthLimit, NEW rest \in AllBytes, NEW b,
           b = Cat(WriteLength(n), rest)
    PROVE  ReadLength(b) = Got(n, rest)
  <1> DEFINE w == WriteLength(n)
  <1>1. w \in AllBytes /\ Len(w) \in Nat
    BY LengthBytes, BytesLen
  <1>2. /\ b \in AllBytes /\ Len(b) = Len(w) + Len(rest) /\ Len(rest) \in Nat
        /\ \A i \in 1 .. Len(w) : b[i] = w[i]
        /\ Cut(b, Len(w), Len(b)) = rest
    BY <1>1, CatFacts, CutRight, BytesLen
  <1> HIDE DEF w
  <1>3. Len(w) >= 1 => b # <<>>
    BY <1>1, <1>2, CatNone
  <1>4. CASE n \in BelowBase
    <2>1. w = Single(n) /\ n \in Byte /\ n < LengthBase
      BY <1>4, ShortIsWritten, DigitBytes DEF w
    <2>2. Len(w) = 1 /\ w[1] = n
      BY <2>1, OneByte
    <2>3. b[1] = n /\ b # <<>> /\ Cut(b, 1, Len(b)) = rest
      BY <1>2, <1>3, <2>2
    <2> QED BY <1>2, <2>1, <2>3, ReadShort
  <1>5. ASSUME NEW low \in BelowBase, NEW high \in Leading, n = low + LengthBase * high
        PROVE  ReadLength(b) = Got(n, rest)
    <2>1. w = Pair(Marked(low), high) /\ Marked(low) \in Byte /\ high \in Byte
      BY <1>5, MiddleIsWritten, DigitBytes DEF w, Leading
    <2>2. Len(w) = 2 /\ w[1] = Marked(low) /\ w[2] = high
      BY <2>1, FewBytes
    <2>3. /\ b[1] = Marked(low) /\ b[2] = high /\ b # <<>> /\ Len(b) >= 2
          /\ Cut(b, 2, Len(b)) = rest
      BY <1>2, <1>3, <2>2
    <2> QED BY <1>2, <1>5, <2>3, ReadMiddle
  <1>6. ASSUME NEW low \in BelowBase, NEW mid \in BelowBase, NEW top \in Leading,
               n = low + LengthBase * (mid + LengthBase * top)
        PROVE  ReadLength(b) = Got(n, rest)
    <2>1. /\ w = Three(Marked(low), Marked(mid), top)
          /\ Marked(low) \in Byte /\ Marked(mid) \in Byte /\ top \in Byte
      BY <1>6, LongIsWritten, DigitBytes DEF w, Leading
    <2>2. Len(w) = 3 /\ w[1] = Marked(low) /\ w[2] = Marked(mid) /\ w[3] = top
      BY <2>1, FewBytes
    <2>3. /\ b[1] = Marked(low) /\ b[2] = Marked(mid) /\ b[3] = top /\ b # <<>> /\ Len(b) >= 3
          /\ Cut(b, 3, Len(b)) = rest
      BY <1>2, <1>3, <2>2
    <2> QED BY <1>2, <1>6, <2>3, ReadLong
  <1> QED BY <1>4, <1>5, <1>6, LengthForms

(* The first bytes of b are w.                                             *)
LEMMA Begins ==
    ASSUME NEW b \in AllBytes, NEW w \in AllBytes, Len(w) <= Len(b),
           \A i \in 1 .. Len(w) : b[i] = w[i]
    PROVE  /\ Cut(b, Len(w), Len(b)) \in AllBytes
           /\ Cat(w, Cut(b, Len(w), Len(b))) = b
  <1> DEFINE n == Len(w)
             cut == Cut(b, 0, n)
  <1>1. n \in Nat /\ IsCut(b, 0, n) /\ IsCut(b, n, Len(b)) /\ n - 0 = n
    BY BytesLen DEF IsCut
  <1>2. cut \in AllBytes /\ Len(cut) = n - 0 /\ \A i \in 1 .. n - 0 : cut[i] = b[0 + i]
    BY <1>1, CutFacts
  <1>3. Cut(b, n, Len(b)) \in AllBytes
    BY <1>1, CutFacts
  <1>4. Cat(cut, Cut(b, n, Len(b))) = b
    BY <1>1, CutsJoin, CutWhole
  <1> HIDE DEF cut
  <1>5. \A i \in 1 .. n : 0 + i = i
    BY <1>1
  <1>6. Len(cut) = n /\ \A i \in 1 .. n : cut[i] = w[i]
    BY <1>1, <1>2, <1>5
  <1>7. cut = w
    BY <1>2, <1>6, BytesEqual
  <1> QED BY <1>3, <1>4, <1>7

(* What reads as a length is the one encoding of that length.              *)
LEMMA LengthIsWritten ==
    ASSUME NEW b \in AllBytes, ReadLength(b).ok
    PROVE  LET result == ReadLength(b)
           IN  /\ result.value \in Nat
               /\ result.rest \in AllBytes
               /\ Cat(WriteLength(result.value), result.rest) = b
  <1> DEFINE result == ReadLength(b)
  <1>1. Len(b) \in Nat /\ b # <<>> /\ Len(b) >= 1 /\ \A i \in 1 .. Len(b) : b[i] \in Byte
    <2>1. 1 \in 1 .. Len(b)
      BY ReadForms, FirstByte
    <2> QED BY <2>1, ReadForms, BytesLen
  <1>2. CASE b[1] < LengthBase
    <2> DEFINE x == b[1]
    <2>1. x \in Byte /\ x \in BelowBase /\ x \in Nat
      BY <1>1, <1>2, ByteDigits
    <2>2. result = Got(x, Cut(b, 1, Len(b)))
      BY <1>1, <1>2, ReadShort
    <2>3. WriteLength(x) = Single(x)
      BY <2>1, ShortIsWritten
    <2>4. /\ Single(x) \in AllBytes /\ Len(Single(x)) = 1
          /\ \A i \in 1 .. Len(Single(x)) : b[i] = Single(x)[i]
      BY <2>1, OneByte
    <2>5. Cut(b, 1, Len(b)) \in AllBytes /\ Cat(Single(x), Cut(b, 1, Len(b))) = b
      BY <1>1, <2>4, Begins
    <2> HIDE DEF x, result
    <2>6. result.value = x /\ result.rest = Cut(b, 1, Len(b))
      BY <2>2, GotFacts
    <2> QED BY <2>1, <2>3, <2>5, <2>6 DEF result
  <1>3. CASE ~(b[1] < LengthBase) /\ Len(b) >= 2 /\ b[2] \in 1 .. LengthBase - 1
    <2> DEFINE low == b[1] - LengthBase
               high == b[2]
               w == Pair(b[1], b[2])
               n == low + LengthBase * high
    <2>1. b[1] \in Byte /\ b[2] \in Byte
      BY <1>1, <1>3
    <2>2. low \in BelowBase /\ high \in Leading /\ b[1] = Marked(low)
      BY <1>3, <2>1, ByteDigits
    <2>3. result = Got(n, Cut(b, 2, Len(b)))
      BY <1>1, <1>3, <2>2, ReadMiddle
    <2>4. WriteLength(n) = w /\ n \in Nat
      BY <2>2, MiddleIsWritten
    <2>5. w \in AllBytes /\ Len(w) = 2 /\ w[1] = b[1] /\ w[2] = b[2]
      BY <2>1, FewBytes
    <2> HIDE DEF w, n, result
    <2>6. \A i \in 1 .. Len(w) : b[i] = w[i]
      <3>1. \A i \in 1 .. 2 : i = 1 \/ i = 2
        OBVIOUS
      <3> QED BY <2>5, <3>1
    <2>7. Cut(b, 2, Len(b)) \in AllBytes /\ Cat(w, Cut(b, 2, Len(b))) = b
      BY <1>3, <2>5, <2>6, Begins
    <2>8. result.value = n /\ result.rest = Cut(b, 2, Len(b))
      BY <2>3, GotFacts
    <2> QED BY <2>4, <2>7, <2>8 DEF result
  <1>4. CASE /\ ~(b[1] < LengthBase) /\ Len(b) >= 3
             /\ b[2] >= LengthBase /\ b[3] \in 1 .. LengthBase - 1
    <2> DEFINE low == b[1] - LengthBase
               mid == b[2] - LengthBase
               top == b[3]
               w == Three(b[1], b[2], b[3])
               n == low + LengthBase * (mid + LengthBase * top)
    <2>1. b[1] \in Byte /\ b[2] \in Byte /\ b[3] \in Byte
      BY <1>1, <1>4
    <2>2. /\ low \in BelowBase /\ mid \in BelowBase /\ top \in Leading
          /\ b[1] = Marked(low) /\ b[2] = Marked(mid)
      BY <1>4, <2>1, ByteDigits
    <2>3. result = Got(n, Cut(b, 3, Len(b)))
      BY <1>1, <1>4, <2>2, ReadLong
    <2>4. WriteLength(n) = w /\ n \in Nat
      BY <2>2, LongIsWritten
    <2>5. w \in AllBytes /\ Len(w) = 3 /\ w[1] = b[1] /\ w[2] = b[2] /\ w[3] = b[3]
      BY <2>1, FewBytes
    <2> HIDE DEF w, n, result
    <2>6. \A i \in 1 .. Len(w) : b[i] = w[i]
      <3>1. \A i \in 1 .. 3 : i = 1 \/ i = 2 \/ i = 3
        OBVIOUS
      <3> QED BY <2>5, <3>1
    <2>7. Cut(b, 3, Len(b)) \in AllBytes /\ Cat(w, Cut(b, 3, Len(b))) = b
      BY <1>4, <2>5, <2>6, Begins
    <2>8. result.value = n /\ result.rest = Cut(b, 3, Len(b))
      BY <2>3, GotFacts
    <2> QED BY <2>4, <2>7, <2>8 DEF result
  <1> QED BY <1>2, <1>3, <1>4, ReadForms

-----------------------------------------------------------------------------
(* Blocks.                                                                 *)

LEMMA HeaderOrder ==
    /\ OrderOk(HeaderWrites) /\ HeaderReads = HeaderWrites
    /\ FieldsLen(HeaderWrites) = HeaderSize /\ Pos(HeaderWrites, Len(HeaderWrites)) = HeaderSize
    /\ Range(HeaderWrites) = {"height", "parent_hash", "tx_root", "timestamp", "proposer"}
  <1> DEFINE order == HeaderWrites
  <1>1. /\ Len(order) = 5 /\ DOMAIN order = 1 .. 5
        /\ order[1] = "height" /\ order[2] = "parent_hash" /\ order[3] = "tx_root"
        /\ order[4] = "timestamp" /\ order[5] = "proposer"
    BY DEF HeaderWrites
  <1>2. HeaderReads = order
    BY DEF HeaderWrites, HeaderReads
  <1> HIDE DEF order
  <1>3. OrderOk(order)
    BY <1>1 DEF OrderOk, IsList, Distinct
  <1>4. Range(order) = {"height", "parent_hash", "tx_root", "timestamp", "proposer"}
    <2>1. Range(order) = {order[i] : i \in 1 .. 5}
      BY <1>1 DEF Range
    <2>2. \A i \in 1 .. 5 : i = 1 \/ i = 2 \/ i = 3 \/ i = 4 \/ i = 5
      OBVIOUS
    <2>3. 1 \in 1 .. 5 /\ 2 \in 1 .. 5 /\ 3 \in 1 .. 5 /\ 4 \in 1 .. 5 /\ 5 \in 1 .. 5
      OBVIOUS
    <2> QED BY <1>1, <2>1, <2>2, <2>3
  <1>5. /\ Width("height") = 8 /\ Width("parent_hash") = 32 /\ Width("tx_root") = 32
        /\ Width("timestamp") = 8 /\ Width("proposer") = 32
    BY DEF Width, HashLen
  <1>6. Pos(order, 5) = 112
    <2>1. Pos(order, 1) = Pos(order, 1 - 1) + Width(order[1])
      BY PosBefore
    <2>2. Pos(order, 2) = Pos(order, 2 - 1) + Width(order[2])
      BY PosBefore
    <2>3. Pos(order, 3) = Pos(order, 3 - 1) + Width(order[3])
      BY PosBefore
    <2>4. Pos(order, 4) = Pos(order, 4 - 1) + Width(order[4])
      BY PosBefore
    <2>5. Pos(order, 5) = Pos(order, 5 - 1) + Width(order[5])
      BY PosBefore
    <2>6. 1 - 1 = 0 /\ 2 - 1 = 1 /\ 3 - 1 = 2 /\ 4 - 1 = 3 /\ 5 - 1 = 4
      OBVIOUS
    <2>7. Pos(order, 1) = 8
      BY <1>1, <1>5, <2>1, <2>6, PosNone
    <2>8. Pos(order, 2) = 40
      BY <1>1, <1>5, <2>2, <2>6, <2>7
    <2>9. Pos(order, 3) = 72
      BY <1>1, <1>5, <2>3, <2>6, <2>8
    <2>10. Pos(order, 4) = 80
      BY <1>1, <1>5, <2>4, <2>6, <2>9
    <2> QED BY <1>1, <1>5, <2>5, <2>6, <2>10
  <1>7. FieldsLen(order) = Pos(order, 5)
    <2>1. (5 + 1) - 1 = 5
      OBVIOUS
    <2> QED BY <1>1, <2>1, OffsetIsPos DEF FieldsLen
  <1>8. HeaderSize = 112
    BY DEF HeaderSize, HashLen
  <1> QED BY <1>1, <1>2, <1>3, <1>4, <1>6, <1>7, <1>8 DEF order

HeaderShape(header) ==
    /\ HasFields(header, HeaderWrites)
    /\ header = [field \in Range(HeaderWrites) |-> header[field]]

BlockShape(blk) ==
    /\ blk = [header |-> blk.header, transactions |-> blk.transactions]
    /\ HeaderShape(blk.header)
    /\ blk.transactions \in TxLists
    /\ Len(blk.transactions) < LengthLimit

Count(b) == WriteLength(Len(b.transactions))

Preamble(b) == Cat(WriteFields(b.header, HeaderWrites), Count(b))

LEMMA BlockIsWritten ==
    ASSUME NEW b, BlockShape(b)
    PROVE  /\ WriteBlock(b) = Cat(Preamble(b), Body(b.transactions))
           /\ WriteFields(b.header, HeaderWrites) \in AllBytes
           /\ Len(WriteFields(b.header, HeaderWrites)) = HeaderSize
           /\ Count(b) \in AllBytes
           /\ Preamble(b) \in AllBytes
           /\ Len(Preamble(b)) = HeaderSize + LengthSize(Len(b.transactions))
           /\ Body(b.transactions) \in AllBytes
           /\ WriteBlock(b) \in AllBytes
  <1> DEFINE fields == WriteFields(b.header, HeaderWrites)
             count == Count(b)
             body == Body(b.transactions)
             size == LengthSize(Len(b.transactions))
  <1>1. WriteBlock(b) = Cat(Preamble(b), body)
    BY DEF WriteBlock, Preamble, Count, Cat, Body
  <1>2. fields \in AllBytes /\ Len(fields) = HeaderSize
    BY HeaderOrder, FieldsSize DEF BlockShape, HeaderShape
  <1>3. count \in AllBytes /\ Len(count) = size
    <2>1. Len(b.transactions) \in Nat /\ Len(b.transactions) < LengthLimit
      BY BodyLen DEF BlockShape
    <2> QED BY <2>1, LengthBytes DEF Count
  <1>4. body \in AllBytes
    BY BodyBytes DEF BlockShape
  <1>5. Preamble(b) = Cat(fields, count)
    BY DEF Preamble
  <1> HIDE DEF fields, count, body, size
  <1>6. Preamble(b) \in AllBytes /\ Len(Preamble(b)) = HeaderSize + size
    BY <1>2, <1>3, <1>5, CatLen
  <1>7. WriteBlock(b) \in AllBytes
    BY <1>1, <1>4, <1>6, CatLen
  <1> QED BY <1>1, <1>2, <1>3, <1>4, <1>6, <1>7 DEF fields, count, body, size

LEMMA ReadBlockIs ==
    ASSUME NEW b
    PROVE  LET header == ReadFields(b, HeaderWrites)
               body   == ReadBody(header.rest)
           IN  ReadBlock(b)
                  = IF ~header.ok \/ ~body.ok THEN Fail
                    ELSE Got([header |-> header.value, transactions |-> body.value], body.rest)
  BY HeaderOrder DEF ReadBlock

(* A written block is read back, up to the number of transactions that     *)
(* decoding accepts, and refused above it.                                 *)
LEMMA BlockIsRead ==
    ASSUME NEW blk, BlockShape(blk), NEW rest \in AllBytes, NEW b,
           b = Cat(WriteBlock(blk), rest)
    PROVE  ReadBlock(b) = IF Len(blk.transactions) <= MaxTxsDecoded
                          THEN Got(blk, rest) ELSE Fail
  <1> DEFINE fields == WriteFields(blk.header, HeaderWrites)
             txs == blk.transactions
             n == Len(txs)
             body == Body(txs)
             tail == Cat(body, rest)
             count == Count(blk)
             last == Cat(count, tail)
             values == [field \in Range(HeaderWrites) |-> blk.header[field]]
  <1>1. txs \in TxLists /\ n \in Nat /\ n < LengthLimit
    BY BodyLen DEF BlockShape
  <1>2. /\ fields \in AllBytes /\ body \in AllBytes /\ count \in AllBytes
        /\ WriteBlock(blk) = Cat(Cat(fields, count), body)
    BY BlockIsWritten DEF Preamble
  <1>3. values = blk.header /\ HasFields(blk.header, HeaderWrites)
    BY DEF BlockShape, HeaderShape
  <1>4. blk = [header |-> blk.header, transactions |-> txs]
    BY DEF BlockShape
  <1> HIDE DEF fields, body, count
  <1>5. tail \in AllBytes /\ last \in AllBytes
    BY <1>2, CatLen
  <1>6. b = Cat(fields, last)
    <2>1. Cat(fields, count) \in AllBytes
      BY <1>2, CatLen
    <2>2. b = Cat(Cat(fields, count), tail)
      BY <1>2, <2>1, CatAssociative
    <2> HIDE DEF tail
    <2> QED BY <1>2, <1>5, <2>2, CatAssociative
  <1>7. ReadTransactions(tail, n) = Got(txs, rest)
    BY <1>1, BodyIsRead DEF body
  <1> HIDE DEF tail, txs
  <1>8. ReadLength(last) = Got(n, tail)
    <2>1. last = Cat(WriteLength(n), tail)
      BY DEF count, Count, n, txs
    <2> HIDE DEF last, n
    <2> QED BY <1>1, <1>5, <2>1, LengthIsRead
  <1> HIDE DEF last, n
  <1>9. ReadBody(last) = IF n > MaxTxsDecoded THEN Fail ELSE Got(txs, rest)
    BY <1>7, <1>8, GotFacts DEF ReadBody
  <1>10. ReadFields(b, HeaderWrites) = Got(values, last)
    <2> DEFINE header == blk.header
    <2>1. OrderOk(HeaderWrites) /\ HasFields(header, HeaderWrites)
      BY <1>3, HeaderOrder
    <2>2. b = Cat(WriteFields(header, HeaderWrites), last)
      BY <1>6 DEF fields
    <2>3. values = [field \in Range(HeaderWrites) |-> header[field]]
      OBVIOUS
    <2> HIDE DEF header, values
    <2>4. ReadFields(b, HeaderWrites)
             = Got([field \in Range(HeaderWrites) |-> header[field]], last)
      BY <1>5, <2>1, <2>2, FieldsAreRead
    <2> QED BY <2>3, <2>4
  <1> HIDE DEF values
  <1>11. n \in Nat /\ MaxTxsDecoded \in Nat
    BY <1>1, BaseFacts
  <1>12. /\ ReadFields(b, HeaderWrites).ok = TRUE
         /\ ReadFields(b, HeaderWrites).value = values
         /\ ReadFields(b, HeaderWrites).rest = last
    BY <1>10, GotFacts
  <1>13. CASE n <= MaxTxsDecoded
    <2>1. ReadBody(last) = Got(txs, rest)
      BY <1>9, <1>11, <1>13
    <2>2. ReadBlock(b) = Got([header |-> values, transactions |-> txs], rest)
      BY <1>12, <2>1, GotFacts, ReadBlockIs
    <2> QED BY <1>3, <1>4, <1>13, <2>2 DEF n, txs
  <1>14. CASE ~(n <= MaxTxsDecoded)
    <2>1. ReadBody(last) = Fail
      BY <1>9, <1>11, <1>14
    <2>2. ReadBody(last).ok = FALSE
      BY <2>1, GotFacts
    <2>3. ReadBlock(b) = Fail
      BY <1>12, <2>2, ReadBlockIs
    <2> QED BY <1>14, <2>3 DEF n, txs
  <1> QED BY <1>13, <1>14


(* What decodes is a block, and it is the encoding of that block.          *)
LEMMA BlockIsDecoded ==
    ASSUME NEW b \in AllBytes, ReadBlock(b).ok
    PROVE  LET result == ReadBlock(b)
           IN  /\ BlockShape(result.value)
               /\ result.rest \in AllBytes
               /\ Cat(WriteBlock(result.value), result.rest) = b
  <1> DEFINE order == HeaderWrites
             fields == ReadFields(b, order)
             body == ReadBody(fields.rest)
             header == FieldsAt(b, order)
             last == fields.rest
             length == ReadLength(last)
             n == length.value
             tail == length.rest
             result == ReadBlock(b)
  <1>1. /\ fields.ok /\ body.ok
        /\ result = Got([header |-> fields.value, transactions |-> body.value], body.rest)
    BY ReadBlockIs, GotFacts
  <1>2. OrderOk(order)
    BY HeaderOrder
  <1> HIDE DEF order
  <1>3. /\ fields.value = header /\ HasFields(header, order)
        /\ last \in AllBytes
        /\ Cat(WriteFields(header, order), last) = b
    BY <1>1, <1>2, FieldsAreWritten
  <1>4. header = [field \in Range(order) |-> header[field]]
    BY <1>2, FieldsAtFacts
  <1> HIDE DEF fields, header
  <1>5. length.ok /\ n <= MaxTxsDecoded /\ body = ReadTransactions(tail, n)
    <2>1. /\ ~(~length.ok \/ n > MaxTxsDecoded)
          /\ body = ReadTransactions(tail, n)
      BY <1>1, GotFacts DEF ReadBody
    <2>2. length.ok
      BY <2>1
    <2>3. n \in Nat
      BY <1>3, <2>2, LengthIsWritten
    <2> HIDE DEF n
    <2> QED BY <2>1, <2>3, BaseFacts
  <1> HIDE DEF last
  <1>6. /\ n \in Nat /\ tail \in AllBytes
        /\ Cat(WriteLength(n), tail) = last
    BY <1>3, <1>5, LengthIsWritten
  <1>7. n < LengthLimit
    <2> HIDE DEF n
    <2> QED BY <1>5, <1>6, BaseFacts
  <1>8. body = ReadTransactions(tail, n)
    BY <1>5
  <1> HIDE DEF tail, n, length, body, result
  <1>9. PICK txs \in TxLists, t \in AllBytes :
            body = Got(txs, t) /\ Len(txs) = n /\ Cat(Body(txs), t) = tail
    BY <1>1, <1>6, <1>8, BodyIsWritten
  <1> DEFINE blk == [header |-> header, transactions |-> txs]
  <1>10. body.value = txs /\ body.rest = t
    BY <1>9, GotFacts
  <1>11. result = Got(blk, t)
    BY <1>1, <1>3, <1>10
  <1>12. result.value = blk /\ result.rest = t
    BY <1>11, GotFacts
  <1>13. blk.header = header /\ blk.transactions = txs
    OBVIOUS
  <1>14. blk = [header |-> blk.header, transactions |-> blk.transactions]
    OBVIOUS
  <1> HIDE DEF blk
  <1>15. BlockShape(blk)
    BY <1>3, <1>4, <1>7, <1>9, <1>13, <1>14 DEF BlockShape, HeaderShape, order
  <1>16. Cat(WriteBlock(blk), t) = b
    <2> DEFINE w == WriteFields(header, order)
               one == WriteLength(n)
               rows == Body(txs)
    <2>1. /\ w \in AllBytes /\ one \in AllBytes /\ rows \in AllBytes
          /\ WriteBlock(blk) = Cat(Cat(w, one), rows)
      BY <1>9, <1>13, <1>15, BlockIsWritten DEF Preamble, Count, order
    <2>2. Cat(w, last) = b /\ Cat(one, tail) = last /\ Cat(rows, t) = tail
      BY <1>3, <1>6, <1>9
    <2> HIDE DEF w, one, rows, tail
    <2>3. Cat(w, one) \in AllBytes
      BY <2>1, CatLen
    <2>4. Cat(Cat(Cat(w, one), rows), t) = Cat(Cat(w, one), Cat(rows, t))
      BY <1>9, <2>1, <2>3, CatAssociative
    <2>5. Cat(Cat(w, one), tail) = Cat(w, Cat(one, tail))
      BY <1>6, <2>1, CatAssociative
    <2> QED BY <2>1, <2>2, <2>4, <2>5
  <1> QED BY <1>9, <1>12, <1>15, <1>16 DEF result

-----------------------------------------------------------------------------
(* Signed blocks.                                                          *)

SignedShape(signed) ==
    /\ signed = [block |-> signed.block, signature |-> signed.signature]
    /\ BlockShape(signed.block)
    /\ signed.signature \in AllBytes
    /\ Len(signed.signature) = SignatureLen

LEMMA ReadSignedBlockIs ==
    \A b : ReadSignedBlock(b)
              = IF ~ReadBlock(b).ok \/ Len(ReadBlock(b).rest) < SignatureLen THEN Fail
                ELSE Got([block     |-> ReadBlock(b).value,
                          signature |-> Cut(ReadBlock(b).rest, 0, SignatureLen)],
                         Cut(ReadBlock(b).rest, SignatureLen, Len(ReadBlock(b).rest)))
  <1>1. 0 + 1 = 1
    OBVIOUS
  <1> QED BY <1>1 DEF ReadSignedBlock, Cut, Remaining

LEMMA SignedBlockIsRead ==
    ASSUME NEW signed, SignedShape(signed)
    PROVE  ReadSignedBlock(WriteSignedBlock(signed))
              = IF Len(signed.block.transactions) <= MaxTxsDecoded
                THEN Got(signed, <<>>) ELSE Fail
  <1> DEFINE blk == signed.block
             s == signed.signature
             b == WriteSignedBlock(signed)
  <1>1. BlockShape(blk) /\ s \in AllBytes /\ Len(s) = SignatureLen
    BY DEF SignedShape
  <1>2. b = Cat(WriteBlock(blk), s)
    BY DEF WriteSignedBlock, Cat
  <1>3. signed = [block |-> blk, signature |-> s]
    BY DEF SignedShape
  <1> HIDE DEF blk, s, b
  <1>4. ReadBlock(b) = IF Len(blk.transactions) <= MaxTxsDecoded THEN Got(blk, s) ELSE Fail
    BY <1>1, <1>2, BlockIsRead
  <1>5. CASE Len(blk.transactions) <= MaxTxsDecoded
    <2>1. ReadBlock(b).ok = TRUE /\ ReadBlock(b).value = blk /\ ReadBlock(b).rest = s
      BY <1>4, <1>5, GotFacts
    <2>2. Cut(s, 0, SignatureLen) = s /\ Cut(s, SignatureLen, Len(s)) = <<>>
      <3>1. IsCut(s, Len(s), Len(s))
        BY <1>1, BytesLen DEF IsCut
      <3>2. Cut(s, 0, Len(s)) = s /\ Cut(s, Len(s), Len(s)) = <<>>
        BY <1>1, <3>1, CutWhole, CutNone
      <3> QED BY <1>1, <3>2
    <2>3. ~(Len(s) < SignatureLen)
      BY <1>1 DEF SignatureLen
    <2>4. ReadSignedBlock(b) = Got(signed, <<>>)
      BY <1>3, <2>1, <2>2, <2>3, ReadSignedBlockIs
    <2> QED BY <1>5, <2>4 DEF b, blk
  <1>6. CASE ~(Len(blk.transactions) <= MaxTxsDecoded)
    <2>1. ReadBlock(b).ok = FALSE
      BY <1>4, <1>6, GotFacts
    <2>2. ReadSignedBlock(b) = Fail
      BY <2>1, ReadSignedBlockIs
    <2> QED BY <1>6, <2>2 DEF b, blk
  <1> QED BY <1>5, <1>6

-----------------------------------------------------------------------------
(* Sizes.                                                                  *)

Sizes == INSTANCE Loops WITH Round <- LAMBDA env, x, tx : x + TransactionSize(tx)

SizesUpTo(txs, k) == Sizes!After(0, txs, 0, k)

LEMMA BlockSizeIs ==
    \A b : BlockSize(b)
              = HeaderSize + LengthSize(Len(b.transactions))
                  + SizesUpTo(b.transactions, Len(b.transactions))
  BY DEF BlockSize, SizesUpTo, Sizes!After, Sizes!IsLoop

LEMMA SizesNone == \A txs : SizesUpTo(txs, 0) = 0
  BY Sizes!AfterNone DEF SizesUpTo

LEMMA SizesBefore ==
    ASSUME NEW txs, NEW k \in Nat, k >= 1
    PROVE  SizesUpTo(txs, k) = SizesUpTo(txs, k - 1) + TransactionSize(txs[k])
  <1>1. k - 1 \in Nat /\ (k - 1) + 1 = k
    OBVIOUS
  <1> QED BY <1>1, Sizes!AfterNext DEF SizesUpTo

LEMMA BodySize ==
    ASSUME NEW txs \in TxLists
    PROVE  SizesUpTo(txs, Len(txs)) = Len(Body(txs))
  <1> DEFINE n == Len(txs)
             w(k) == WrittenTxs(txs, k)
             S == {k \in 0 .. n : SizesUpTo(txs, k) = Len(w(k))}
  <1>1. n \in Nat /\ \A i \in 1 .. n : TxShape(txs[i])
    BY BodyLen
  <1>2. /\ Body(txs) = w(n) /\ w(0) = <<>>
        /\ \A k \in 0 .. n : w(k) \in AllBytes
        /\ \A k \in 1 .. n : w(k) = Cat(w(k - 1), WriteTransaction(txs[k]))
    BY BodyFacts
  <1> HIDE DEF w
  <1>3. 0 \in S
    <2>1. Len(w(0)) = 0
      BY <1>2, BodyNone
    <2> QED BY <1>1, <2>1, SizesNone
  <1>4. ASSUME NEW k \in 1 .. n, k - 1 \in S PROVE k \in S
    <2>1. k - 1 \in 0 .. n /\ k \in 0 .. n /\ k \in Nat /\ k >= 1
      BY <1>1
    <2>2. SizesUpTo(txs, k) = SizesUpTo(txs, k - 1) + TransactionSize(txs[k])
      BY <2>1, SizesBefore
    <2>3. /\ WriteTransaction(txs[k]) \in AllBytes
          /\ Len(WriteTransaction(txs[k])) = TransactionSize(txs[k])
      BY <1>1, TransactionSizeFacts
    <2>4. Len(w(k)) = Len(w(k - 1)) + TransactionSize(txs[k])
      BY <1>2, <2>1, <2>3, CatLen
    <2>5. SizesUpTo(txs, k - 1) = Len(w(k - 1))
      BY <1>4
    <2> QED BY <2>1, <2>2, <2>4, <2>5
  <1> HIDE DEF S
  <1>5. n \in S
    <2>1. \A k \in 0 .. n : k \in S
      BY <1>1, <1>3, <1>4, Sizes!BoundedInduction
    <2> QED BY <1>1, <2>1
  <1> QED BY <1>2, <1>5 DEF S

LEMMA BlockSizeFacts ==
    ASSUME NEW blk, BlockShape(blk)
    PROVE  BlockSize(blk) = Len(WriteBlock(blk))
  <1> DEFINE txs == blk.transactions
  <1>1. txs \in TxLists
    BY DEF BlockShape
  <1>2. /\ WriteBlock(blk) = Cat(Preamble(blk), Body(txs))
        /\ Preamble(blk) \in AllBytes /\ Len(Preamble(blk)) = HeaderSize + LengthSize(Len(txs))
        /\ Body(txs) \in AllBytes
    BY BlockIsWritten
  <1>3. BlockSize(blk) = HeaderSize + LengthSize(Len(txs)) + SizesUpTo(txs, Len(txs))
    BY BlockSizeIs
  <1> HIDE DEF txs
  <1>4. Len(WriteBlock(blk)) = Len(Preamble(blk)) + Len(Body(txs))
    BY <1>2, CatLen
  <1> QED BY <1>1, <1>2, <1>3, <1>4, BodySize

LEMMA SignedBlockSizeFacts ==
    ASSUME NEW signed, SignedShape(signed)
    PROVE  SignedBlockSize(signed) = Len(WriteSignedBlock(signed))
  <1>1. WriteSignedBlock(signed) = Cat(WriteBlock(signed.block), signed.signature)
    BY DEF WriteSignedBlock, Cat
  <1>2. /\ WriteBlock(signed.block) \in AllBytes /\ signed.signature \in AllBytes
        /\ Len(signed.signature) = SignatureLen
        /\ BlockSize(signed.block) = Len(WriteBlock(signed.block))
    BY BlockIsWritten, BlockSizeFacts DEF SignedShape
  <1>3. Len(WriteSignedBlock(signed)) = Len(WriteBlock(signed.block)) + Len(signed.signature)
    BY <1>1, <1>2, CatLen
  <1> QED BY <1>2, <1>3 DEF SignedBlockSize

-----------------------------------------------------------------------------
(* The block on its way.                                                   *)

LEMMA FieldBytes ==
    ASSUME NEW n \in Nat, NEW f \in Bytes(n)
    PROVE  f \in AllBytes /\ Len(f) = n
  <1>1. f \in [1 .. n -> Byte]
    BY DEF Bytes
  <1>2. f \in AllBytes
    BY <1>1, SeqDef DEF AllBytes
  <1>3. DOMAIN f = 1 .. n
    BY <1>1
  <1> QED BY <1>2, <1>3, LenProperties DEF AllBytes

LEMMA Widths32 ==
    /\ HashLen \in Nat /\ 8 \in Nat /\ SignatureLen \in Nat
    /\ Width("from") = HashLen /\ Width("to") = HashLen /\ Width("parent_hash") = HashLen
    /\ Width("tx_root") = HashLen /\ Width("proposer") = HashLen
    /\ Width("amount") = 8 /\ Width("nonce") = 8 /\ Width("height") = 8 /\ Width("timestamp") = 8
  BY DEF HashLen, SignatureLen, Width

LEMMA TxsAreShaped == ASSUME NEW tx \in Txs PROVE TxShape(tx)
  <1>1. /\ tx \in [from : Bytes(HashLen), to : Bytes(HashLen), amount : Bytes(8),
                   nonce : Bytes(8), signature : Seq(Bytes(SignatureLen))]
        /\ Len(tx.signature) <= 1
    BY FieldsAssumption
  <1>2. /\ tx = [field \in {"from", "to", "amount", "nonce", "signature"} |-> tx[field]]
        /\ tx["from"] \in Bytes(HashLen) /\ tx["to"] \in Bytes(HashLen)
        /\ tx["amount"] \in Bytes(8) /\ tx["nonce"] \in Bytes(8)
        /\ tx["signature"] \in Seq(Bytes(SignatureLen))
        /\ Len(tx["signature"]) <= 1
    BY <1>1
  <1>3. \A field \in Range(TransactionWrites) :
            tx[field] \in AllBytes /\ Len(tx[field]) = Width(field)
    <2>1. /\ tx["from"] \in AllBytes /\ Len(tx["from"]) = Width("from")
          /\ tx["to"] \in AllBytes /\ Len(tx["to"]) = Width("to")
          /\ tx["amount"] \in AllBytes /\ Len(tx["amount"]) = Width("amount")
          /\ tx["nonce"] \in AllBytes /\ Len(tx["nonce"]) = Width("nonce")
      BY <1>2, Widths32, FieldBytes
    <2>2. Range(TransactionWrites) = {"from", "to", "amount", "nonce"}
      BY TransactionOrder
    <2> QED BY <2>1, <2>2
  <1>4. HasFields(tx, TransactionWrites)
    <2>1. \A i \in 1 .. Len(TransactionWrites) :
              TransactionWrites[i] \in Range(TransactionWrites)
      BY TransactionOrder DEF OrderOk, IsList, Range
    <2> QED BY <1>3, <2>1 DEF HasFields
  <1>5. SignatureOk(tx["signature"])
    <2> DEFINE s == tx["signature"]
    <2>1. s \in Seq(Bytes(SignatureLen)) /\ Len(s) <= 1
      BY <1>2
    <2> HIDE DEF s
    <2>2. CASE s # <<>>
      <3>1. Len(s) = 1
        <4> DEFINE n == Len(s)
        <4>1. n # 0 /\ n \in Nat
          BY <2>1, <2>2, EmptySeq, LenProperties
        <4>2. n <= 1
          BY <2>1, Zenon
        <4> HIDE DEF n
        <4>3. n = 1
          BY <4>1, <4>2
        <4> QED BY <4>3 DEF n
      <3>2. s[1] \in Bytes(SignatureLen)
        BY <2>1, <3>1, ElementOfSeq
      <3>3. s[1] \in AllBytes /\ Len(s[1]) = SignatureLen
        BY <3>2, Widths32, FieldBytes
      <3>4. s = <<s[1]>>
        BY <2>1, <3>1
      <3>5. SignatureOk(s)
        BY <3>3, <3>4 DEF SignatureOk
      <3> QED BY <3>5 DEF s
    <2> QED BY <2>2 DEF SignatureOk, s
  <1>6. tx = [field \in Range(TransactionWrites) \cup {"signature"} |-> tx[field]]
    <2>1. Range(TransactionWrites) \cup {"signature"}
             = {"from", "to", "amount", "nonce", "signature"}
      BY TransactionOrder
    <2> QED BY <1>2, <2>1
  <1> QED BY <1>4, <1>5, <1>6 DEF TxShape

LEMMA HeaderIsShaped == HeaderShape(FirstHeader)
  <1> DEFINE h == FirstHeader
  <1>1. h \in [height : Bytes(8), parent_hash : Bytes(HashLen), tx_root : Bytes(HashLen),
               timestamp : Bytes(8), proposer : Bytes(HashLen)]
    BY FieldsAssumption
  <1>2. /\ h = [field \in {"height", "parent_hash", "tx_root", "timestamp", "proposer"}
                    |-> h[field]]
        /\ h["height"] \in Bytes(8) /\ h["timestamp"] \in Bytes(8)
        /\ h["parent_hash"] \in Bytes(HashLen) /\ h["tx_root"] \in Bytes(HashLen)
        /\ h["proposer"] \in Bytes(HashLen)
    BY <1>1
  <1> HIDE DEF h
  <1>3. \A field \in Range(HeaderWrites) :
            h[field] \in AllBytes /\ Len(h[field]) = Width(field)
    <2>1. /\ h["height"] \in AllBytes /\ Len(h["height"]) = Width("height")
          /\ h["timestamp"] \in AllBytes /\ Len(h["timestamp"]) = Width("timestamp")
          /\ h["parent_hash"] \in AllBytes /\ Len(h["parent_hash"]) = Width("parent_hash")
          /\ h["tx_root"] \in AllBytes /\ Len(h["tx_root"]) = Width("tx_root")
          /\ h["proposer"] \in AllBytes /\ Len(h["proposer"]) = Width("proposer")
      BY <1>2, Widths32, FieldBytes
    <2>2. Range(HeaderWrites) = {"height", "parent_hash", "tx_root", "timestamp", "proposer"}
      BY HeaderOrder
    <2> QED BY <2>1, <2>2
  <1>4. HasFields(h, HeaderWrites)
    <2>1. \A i \in 1 .. Len(HeaderWrites) : HeaderWrites[i] \in Range(HeaderWrites)
      BY HeaderOrder DEF OrderOk, IsList, Range
    <2> QED BY <1>3, <2>1 DEF HasFields
  <1>5. h = [field \in Range(HeaderWrites) |-> h[field]]
    BY <1>2, HeaderOrder
  <1> QED BY <1>4, <1>5 DEF HeaderShape, h

LEMMA SignatureIsShaped == SomeSignature \in AllBytes /\ Len(SomeSignature) = SignatureLen
  BY FieldsAssumption, Widths32, FieldBytes

LEMMA ListOverItsRange ==
    ASSUME NEW S, NEW s \in Seq(S)
    PROVE  IsList(s) /\ s \in Seq(Range(s))
  <1>1. Len(s) \in Nat /\ DOMAIN s = 1 .. Len(s)
    BY LenProperties
  <1>2. s = [i \in 1 .. Len(s) |-> s[i]] /\ \A i \in 1 .. Len(s) : s[i] \in Range(s)
    BY <1>1 DEF Range
  <1>3. s \in [1 .. Len(s) -> Range(s)]
    BY <1>2
  <1> QED BY <1>1, <1>3, SeqDef DEF IsList

(* The inductive invariant: the block is well-formed and holds no          *)
(* transaction twice, and until they are damaged the bytes are its         *)
(* encoding.                                                               *)
TransferInv ==
    /\ damage \in Nat
    /\ block = [header |-> FirstHeader, transactions |-> block.transactions]
    /\ IsSeqOf(block.transactions, Txs)
    /\ Distinct(block.transactions)
    /\ Len(block.transactions) <= MaxTxs
    /\ bytes \in AllBytes
    /\ damage = 0 => bytes = WriteBlock(block)

LEMMA TransferShape == ASSUME TransferInv PROVE BlockShape(block)
  <1>1. block.header = FirstHeader
    BY DEF TransferInv
  <1>2. block.transactions \in TxLists
    <2>1. Txs \subseteq Transactions
      BY TxsAreShaped, ShapeIsTransaction
    <2>2. \A s : s \in Seq(Txs) => s \in Seq(Transactions)
      BY <2>1
    <2> QED BY <2>2 DEF TransferInv, IsSeqOf, TxLists
  <1>3. block = [header |-> block.header, transactions |-> block.transactions]
    BY <1>1 DEF TransferInv
  <1>4. Len(block.transactions) < LengthLimit
    <2> DEFINE n == Len(block.transactions)
    <2>1. n \in Nat /\ n <= MaxTxs
      BY <1>2, BodyLen DEF TransferInv
    <2> HIDE DEF n
    <2>2. n < LengthLimit
      BY <2>1, BaseFacts, BodyLengthAssumption
    <2> QED BY <2>2 DEF n
  <1> QED BY <1>1, <1>2, <1>3, <1>4, HeaderIsShaped DEF BlockShape

LEMMA InitTransfers == Init => TransferInv
  <1> SUFFICES ASSUME Init PROVE TransferInv
    OBVIOUS
  <1>1. /\ block = [header |-> FirstHeader, transactions |-> <<>>]
        /\ block.transactions = <<>> /\ block.header = FirstHeader
    BY DEF Init
  <1>2. BlockShape(block) /\ Len(block.transactions) <= MaxTxs
    BY <1>1, BodyNone, HeaderIsShaped, BaseFacts, BodyLengthAssumption DEF BlockShape
  <1>3. bytes \in AllBytes /\ bytes = WriteBlock(block) /\ damage = 0
    BY <1>2, BlockIsWritten DEF Init
  <1>4. IsSeqOf(<<>>, Txs) /\ Distinct(<<>>)
    BY EmptySeq DEF IsSeqOf, Distinct
  <1> QED BY <1>1, <1>2, <1>3, <1>4 DEF TransferInv

LEMMA AddTransactionTransfers ==
    ASSUME TransferInv, NEW tx \in Txs, AddTransaction(tx) PROVE TransferInv'
  <1> DEFINE txs == block.transactions
             more == block'.transactions
  <1>1. Grown(more, txs, tx)
    BY DEF TransferInv, AddTransaction, Grown
  <1>2. block' = [header |-> FirstHeader, transactions |-> more] /\ block'.header = FirstHeader
    <2> DEFINE longer == Append(block.transactions, tx)
    <2>1. /\ block = [header |-> FirstHeader, transactions |-> block.transactions]
          /\ block' = [block EXCEPT !.transactions = longer]
      BY DEF TransferInv, AddTransaction
    <2> HIDE DEF longer
    <2>2. block' = [header |-> FirstHeader, transactions |-> longer]
      BY <2>1
    <2> QED BY <2>2
  <1>3. damage' = 0 /\ bytes' = WriteBlock(block') /\ \A i \in DOMAIN txs : txs[i] # tx
    BY DEF AddTransaction
  <1>4. /\ IsSeqOf(txs, Txs) /\ Distinct(txs)
        /\ Len(txs) < MaxTxs
    BY DEF TransferInv, AddTransaction
  <1> HIDE DEF txs, more
  <1>5. /\ IsSeqOf(more, Txs) /\ IsList(txs) /\ IsList(more) /\ Len(more) = Len(txs) + 1
        /\ \A i \in 1 .. Len(txs) : more[i] = txs[i]
        /\ more[Len(txs) + 1] = tx
    BY <1>1, <1>4, AppendFacts
  <1>6. Distinct(more)
    <2>1. Len(txs) \in Nat /\ DOMAIN txs = 1 .. Len(txs)
      BY <1>5 DEF IsList
    <2>2. \A i \in 1 .. Len(more) : i \in 1 .. Len(txs) \/ i = Len(txs) + 1
      BY <1>5, <2>1
    <2> QED BY <1>3, <1>4, <1>5, <2>1, <2>2 DEF Distinct
  <1>7. Len(more) <= MaxTxs /\ Len(more) < LengthLimit
    <2> DEFINE n == Len(txs)
    <2>1. n \in Nat /\ n < MaxTxs
      BY <1>4, <1>5 DEF IsList
    <2> HIDE DEF n
    <2>2. n + 1 <= MaxTxs /\ n + 1 < LengthLimit
      BY <2>1, BaseFacts, BodyLengthAssumption
    <2> QED BY <1>5, <2>2 DEF n
  <1>8. BlockShape(block')
    <2>1. Txs \subseteq Transactions
      BY TxsAreShaped, ShapeIsTransaction
    <2>2. \A s : s \in Seq(Txs) => s \in Seq(Transactions)
      BY <2>1
    <2>3. more \in TxLists
      BY <1>5, <2>2 DEF IsSeqOf, TxLists
    <2> QED BY <1>2, <1>7, <2>3, HeaderIsShaped DEF BlockShape, more
  <1>9. bytes' \in AllBytes
    BY <1>3, <1>8, BlockIsWritten
  <1> QED BY <1>2, <1>3, <1>5, <1>6, <1>7, <1>9 DEF TransferInv, more

LEMMA DamagedTransfers ==
    ASSUME TransferInv, NEW other \in AllBytes, Damaged(other) PROVE TransferInv'
  <1>1. damage' = damage + 1 /\ bytes' = other /\ block' = block
    BY DEF Damaged
  <1>2. damage' \in Nat /\ damage' # 0
    BY <1>1 DEF TransferInv
  <1> QED BY <1>1, <1>2 DEF TransferInv

LEMMA TransferInvariance == Spec => []TransferInv
  <1>1. TransferInv /\ [Next]_vars => TransferInv'
    <2> SUFFICES ASSUME TransferInv, [Next]_vars PROVE TransferInv'
      OBVIOUS
    <2>1. bytes \in AllBytes /\ Len(bytes) \in Nat
      BY BytesLen DEF TransferInv
    <2>2. ASSUME NEW tx \in Txs, AddTransaction(tx) PROVE TransferInv'
      BY <2>2, AddTransactionTransfers
    <2>3. ASSUME LoseLast PROVE TransferInv'
      <3>1. bytes # <<>> /\ Damaged(Cut(bytes, 0, Len(bytes) - 1))
        <4>1. 0 + 1 = 1
          OBVIOUS
        <4> QED BY <2>3, <4>1 DEF LoseLast, Cut
      <3>2. IsCut(bytes, 0, Len(bytes) - 1)
        <4>1. Len(bytes) >= 1
          BY <2>1, <3>1, FirstByte
        <4> QED BY <2>1, <4>1 DEF IsCut
      <3>3. Cut(bytes, 0, Len(bytes) - 1) \in AllBytes
        BY <2>1, <3>2, CutFacts
      <3> QED BY <3>1, <3>3, DamagedTransfers
    <2>4. ASSUME NEW b \in {0, 1, LengthBase}, AddByte(b) PROVE TransferInv'
      <3>1. Append(bytes, b) \in AllBytes
        BY <2>1, TagBytes, AppendProperties DEF AllBytes
      <3> QED BY <2>4, <3>1, DamagedTransfers DEF AddByte
    <2>5. ASSUME NEW b \in {0, 1, LengthBase}, NEW i \in DOMAIN bytes, Overwrite(i, b)
          PROVE  TransferInv'
      <3>1. [bytes EXCEPT ![i] = b] \in AllBytes
        BY <2>1, TagBytes, ExceptSeq DEF AllBytes
      <3> QED BY <2>5, <3>1, DamagedTransfers DEF Overwrite
    <2>6. ASSUME UNCHANGED vars PROVE TransferInv'
      BY <2>6 DEF TransferInv, vars
    <2> QED BY <2>2, <2>3, <2>4, <2>5, <2>6 DEF Next
  <1> QED BY <1>1, InitTransfers, PTL DEF Spec

(* What is broadcast arrives as it was, for every block of well-formed     *)
(* transactions, as many as a length counts: broadcast_block's bytes decode*)
(* to the block and nothing is left over, with and without the signature,  *)
(* and a block above MAX_TXS_PER_BLOCK is refused both ways.               *)
THEOREM EveryBlockRoundTrips == Spec => []RoundTrips
  <1>1. ASSUME TransferInv PROVE RoundTrips
    <2> DEFINE signed == [block |-> block, signature |-> SomeSignature]
    <2> SUFFICES ASSUME damage = 0
                 PROVE  IF Len(block.transactions) <= MaxTxsDecoded
                        THEN /\ ReadBlock(bytes) = Got(block, <<>>)
                             /\ ReadSignedBlock(WriteSignedBlock(signed)) = Got(signed, <<>>)
                        ELSE /\ ~ReadBlock(bytes).ok
                             /\ ~ReadSignedBlock(WriteSignedBlock(signed)).ok
      BY DEF RoundTrips
    <2>1. BlockShape(block) /\ bytes = WriteBlock(block) /\ bytes \in AllBytes
      BY <1>1, TransferShape DEF TransferInv
    <2>2. bytes = Cat(WriteBlock(block), <<>>) /\ <<>> \in AllBytes
      BY <2>1, CatNone, EmptySeq DEF AllBytes
    <2>3. ReadBlock(bytes)
             = IF Len(block.transactions) <= MaxTxsDecoded THEN Got(block, <<>>) ELSE Fail
      BY <2>1, <2>2, BlockIsRead
    <2>4. SignedShape(signed) /\ signed.block = block
      BY <1>1, <2>1, SignatureIsShaped DEF SignedShape
    <2>5. ReadSignedBlock(WriteSignedBlock(signed))
             = IF Len(signed.block.transactions) <= MaxTxsDecoded
               THEN Got(signed, <<>>) ELSE Fail
      BY <2>4, SignedBlockIsRead
    <2> QED BY <2>3, <2>4, <2>5, GotFacts
  <1> QED BY <1>1, TransferInvariance, PTL

(* encode_size announces exactly what write produces, for every block.     *)
THEOREM AnnouncedSizesAreExact == Spec => []SizesAreExact
  <1>1. ASSUME TransferInv PROVE SizesAreExact
    <2> DEFINE signed == [block |-> block, signature |-> SomeSignature]
    <2> SUFFICES ASSUME damage = 0
                 PROVE  /\ BlockSize(block) = Len(bytes)
                        /\ SignedBlockSize(signed) = Len(WriteSignedBlock(signed))
                        /\ \A i \in DOMAIN block.transactions :
                              TransactionSize(block.transactions[i])
                                  = Len(WriteTransaction(block.transactions[i]))
      BY DEF SizesAreExact
    <2>1. BlockShape(block) /\ bytes = WriteBlock(block)
      BY <1>1, TransferShape DEF TransferInv
    <2>2. SignedShape(signed)
      BY <1>1, <2>1, SignatureIsShaped DEF SignedShape
    <2>3. \A i \in DOMAIN block.transactions : TxShape(block.transactions[i])
      BY <2>1, BodyLen DEF BlockShape
    <2> QED BY <2>1, <2>2, <2>3, BlockSizeFacts, SignedBlockSizeFacts, TransactionSizeFacts
  <1> QED BY <1>1, TransferInvariance, PTL

(* Nothing but an encoding decodes: of every sequence of bytes that        *)
(* store_block may be handed, only what some block encodes to is accepted. *)
THEOREM OnlyEncodingsDecode == Spec => []DecodesOnlyEncodings
  <1>1. ASSUME TransferInv PROVE DecodesOnlyEncodings
    <2> DEFINE result == ReadBlock(bytes)
    <2> SUFFICES ASSUME result.ok, result.rest = <<>>
                 PROVE  WriteBlock(result.value) = bytes
      BY DEF DecodesOnlyEncodings, Whole
    <2>1. /\ BlockShape(result.value)
          /\ Cat(WriteBlock(result.value), result.rest) = bytes
      BY <1>1, BlockIsDecoded DEF TransferInv
    <2>2. WriteBlock(result.value) \in AllBytes
      BY <2>1, BlockIsWritten
    <2> QED BY <2>1, <2>2, CatNone
  <1> QED BY <1>1, TransferInvariance, PTL

(* The header commits to its body: two bodies that hold no transaction     *)
(* twice and have one Merkle root are the same body, for every length.     *)
THEOREM HeaderCommitsToBody == Spec => []RootDeterminesBody
  <1>1. ASSUME TransferInv PROVE RootDeterminesBody
    <2> SUFFICES ASSUME NEW txs \in Bodies,
                        ComputeTxRoot(txs) = ComputeTxRoot(block.transactions)
                 PROVE  txs = block.transactions
      BY DEF RootDeterminesBody
    <2> DEFINE body == block.transactions
    <2>1. PICK n \in 0 .. MaxTxs :
              txs \in [1 .. n -> Txs] /\ \A i, j \in 1 .. n : txs[i] = txs[j] => i = j
      BY DEF Bodies
    <2>2. txs \in Seq(Txs) /\ Len(txs) = n
      <3>1. n \in Nat /\ txs \in Seq(Txs) /\ DOMAIN txs = 1 .. n
        BY <2>1, SeqDef
      <3> QED BY <3>1, LenProperties
    <2>3. Distinct(txs)
      BY <2>1, <2>2 DEF Distinct
    <2>4. body \in Seq(Txs) /\ Distinct(body)
      BY <1>1 DEF TransferInv, IsSeqOf
    <2> HIDE DEF body
    <2>5. IsList(txs) /\ txs \in Seq(Range(txs)) /\ IsList(body) /\ body \in Seq(Range(body))
      BY <2>2, <2>4, ListOverItsRange
    <2>6. ComputeTxRoot(txs) = ComputeTxRoot(body)
      BY DEF body
    <2> QED BY <2>3, <2>4, <2>5, <2>6, RootFixesBody DEF body
  <1> QED BY <1>1, TransferInvariance, PTL


-----------------------------------------------------------------------------
(* The layers of the root's loop are the levels of the tree: a level has   *)
(* half as many nodes as the one below, rounded up, and so has a layer.    *)

Doublings == INSTANCE Loops WITH Round <- LAMBDA env, x, e : 2 * x

LEMMA SpanIsLoop == ASSUME NEW k PROVE Span(k) = Doublings!After(0, <<>>, 1, k)
  BY DEF Span, Doublings!After, Doublings!IsLoop

LEMMA SpanZero == Span(0) = 1
  BY SpanIsLoop, Doublings!AfterNone

LEMMA SpanNext ==
    ASSUME NEW k \in Nat, k >= 1 PROVE Span(k) = 2 * Span(k - 1)
  <1>1. k - 1 \in Nat /\ (k - 1) + 1 = k
    OBVIOUS
  <1>2. Span((k - 1) + 1) = 2 * Span(k - 1)
    BY <1>1, SpanIsLoop, Doublings!AfterNext
  <1> QED BY <1>1, <1>2

(* A level of n spans at least n leaves.                                   *)
LEMMA SpanGrows ==
    ASSUME NEW n \in Nat
    PROVE  \A k \in 0 .. n : Span(k) \in Nat /\ Span(k) >= k + 1
  <1> DEFINE S == {k \in 0 .. n : Span(k) \in Nat /\ Span(k) >= k + 1}
  <1>1. 0 \in S
    BY SpanZero
  <1>2. ASSUME NEW k \in 1 .. n, k - 1 \in S PROVE k \in S
    <2>1. Span(k) = 2 * Span(k - 1) /\ Span(k - 1) \in Nat /\ Span(k - 1) >= (k - 1) + 1
      BY <1>2, SpanNext
    <2> QED BY <2>1
  <1> HIDE DEF S
  <1>3. \A k \in 0 .. n : k \in S
    BY <1>1, <1>2, Doublings!BoundedInduction
  <1> QED BY <1>3 DEF S

-----------------------------------------------------------------------------
(* Division, rounded up.                                                   *)

Ceiling(n, s) == (n + s - 1) \div s

LEMMA QuotientFacts ==
    ASSUME NEW m \in Nat, NEW s \in Nat, s >= 1
    PROVE  /\ m \div s \in Nat
           /\ s * (m \div s) <= m /\ m < s * (m \div s) + s
  OBVIOUS

LEMMA QuotientIs ==
    ASSUME NEW m \in Nat, NEW s \in Nat, s >= 1, NEW q \in Nat,
           s * q <= m, m < s * q + s
    PROVE  m \div s = q
  <1> DEFINE p == m \div s
  <1>1. p \in Nat /\ s * p <= m /\ m < s * p + s
    BY QuotientFacts
  <1> HIDE DEF p
  <1>2. CASE p < q
    <2>1. s * (p + 1) <= s * q
      BY <1>1, <1>2
    <2>2. s * (p + 1) = s * p + s
      BY <1>1
    <2> QED BY <1>1, <2>1, <2>2
  <1>3. CASE q < p
    <2>1. s * (q + 1) <= s * p
      BY <1>1, <1>3
    <2>2. s * (q + 1) = s * q + s
      OBVIOUS
    <2> QED BY <1>1, <2>1, <2>2
  <1> QED BY <1>1, <1>2, <1>3 DEF p

LEMMA CeilingFacts ==
    ASSUME NEW n \in Nat, n >= 1, NEW s \in Nat, s >= 1
    PROVE  /\ Ceiling(n, s) \in Nat /\ Ceiling(n, s) >= 1
           /\ s = 1 => Ceiling(n, s) = n
           /\ n <= s => Ceiling(n, s) = 1
  <1> DEFINE m == n + s - 1
             q == m \div s
  <1>1. m \in Nat /\ m >= s
    OBVIOUS
  <1>2. q \in Nat /\ s * q <= m /\ m < s * q + s
    BY <1>1, QuotientFacts
  <1>3. s = 1 => q = n
    OBVIOUS
  <1>4. n <= s => q = 1
    <2>1. n <= s => s * 1 <= m /\ m < s * 1 + s
      BY <1>1
    <2> HIDE DEF m
    <2> QED BY <1>1, <2>1, QuotientIs
  <1>5. q >= 1
    <2> HIDE DEF q, m
    <2> SUFFICES ASSUME q = 0 PROVE FALSE
      BY <1>2
    <2>1. s * q = 0
      OBVIOUS
    <2> QED BY <1>1, <1>2, <2>1
  <1> QED BY <1>2, <1>3, <1>4, <1>5 DEF Ceiling

(* Half of a part, rounded up twice, is the part of twice the width.       *)
LEMMA CeilingHalves ==
    ASSUME NEW n \in Nat, n >= 1, NEW s \in Nat, s >= 1
    PROVE  Ceiling(n, 2 * s) = (Ceiling(n, s) + 1) \div 2
  <1> DEFINE q == Ceiling(n, s)
             h == (q + 1) \div 2
             m == n + s - 1
             w == 2 * s
  <1>1. q \in Nat /\ s * q <= m /\ m < s * q + s /\ m \in Nat
    BY QuotientFacts, CeilingFacts DEF Ceiling
  <1> HIDE DEF q
  <1>2. h \in Nat /\ 2 * h <= q + 1 /\ q <= 2 * h
    BY <1>1
  <1> HIDE DEF h
  <1>3. w * h <= m + s
    <2>1. s * (2 * h) <= s * (q + 1)
      BY <1>1, <1>2
    <2>2. s * (q + 1) = s * q + s /\ s * (2 * h) = w * h
      BY <1>1, <1>2
    <2> HIDE DEF m, w
    <2> QED BY <1>1, <1>2, <2>1, <2>2
  <1>4. m + s < w * h + w
    <2>1. s * q <= s * (2 * h)
      BY <1>1, <1>2
    <2>2. s * (2 * h) = w * h /\ w = s + s
      BY <1>2
    <2>3. w * h \in Nat /\ s * q \in Nat
      BY <1>1, <1>2
    <2> HIDE DEF m, w
    <2> QED BY <1>1, <2>1, <2>2, <2>3
  <1>5. (m + s) \div w = h
    <2>1. m + s \in Nat /\ w \in Nat /\ w >= 1
      BY <1>1
    <2> HIDE DEF m, w
    <2> QED BY <1>2, <1>3, <1>4, <2>1, QuotientIs
  <1>6. n + w - 1 = m + s
    OBVIOUS
  <1> QED BY <1>5, <1>6 DEF Ceiling, h, q

LEMMA LevelFacts ==
    ASSUME NEW n \in Nat, n >= 1
    PROVE  /\ LevelSize(n, 0) = n
           /\ \A k \in 0 .. n : LevelSize(n, k) \in Nat /\ LevelSize(n, k) >= 1
           /\ \A k \in 1 .. n : LevelSize(n, k) = (LevelSize(n, k - 1) + 1) \div 2
           /\ LevelSize(n, n) = 1
  <1>1. \A k : LevelSize(n, k) = Ceiling(n, Span(k))
    BY DEF LevelSize, Ceiling
  <1>2. \A k \in 0 .. n : Span(k) \in Nat /\ Span(k) >= k + 1
    BY SpanGrows
  <1>3. \A k \in 0 .. n : Span(k) \in Nat /\ Span(k) >= 1
    BY <1>2
  <1>4. \A k \in 0 .. n : LevelSize(n, k) \in Nat /\ LevelSize(n, k) >= 1
    BY <1>1, <1>3, CeilingFacts
  <1>5. LevelSize(n, 0) = n
    BY <1>1, SpanZero, CeilingFacts
  <1>6. LevelSize(n, n) = 1
    <2>1. n \in 0 .. n
      OBVIOUS
    <2>2. Span(n) \in Nat /\ Span(n) >= 1 /\ n <= Span(n)
      BY <1>2, <2>1
    <2> QED BY <1>1, <2>2, CeilingFacts
  <1>7. ASSUME NEW k \in 1 .. n PROVE LevelSize(n, k) = (LevelSize(n, k - 1) + 1) \div 2
    <2>1. k - 1 \in 0 .. n /\ k \in Nat /\ k >= 1
      OBVIOUS
    <2>2. Span(k) = 2 * Span(k - 1)
      BY <2>1, SpanNext
    <2> QED BY <1>1, <1>3, <2>1, <2>2, CeilingHalves
  <1> QED BY <1>4, <1>5, <1>6, <1>7

(* The root's level is the first that has one node.                        *)
LEMMA DepthFacts ==
    ASSUME NEW n \in Nat, n >= 1
    PROVE  /\ Depth(n) \in 0 .. n /\ LevelSize(n, Depth(n)) = 1
           /\ \A j \in 0 .. Depth(n) - 1 : LevelSize(n, j) > 1
  <1> DEFINE T == {k \in 0 .. n : LevelSize(n, k) = 1}
  <1>1. T \subseteq Nat /\ T # {}
    <2>1. n \in T
      BY LevelFacts
    <2> QED BY <2>1
  <1>2. PICK d \in T : \A k \in T : d <= k
    BY <1>1, Doublings!LeastElement
  <1>3. ASSUME NEW j \in 0 .. d - 1 PROVE LevelSize(n, j) > 1
    <2>1. j \in 0 .. n /\ ~(d <= j)
      BY <1>2
    <2>2. LevelSize(n, j) # 1 /\ LevelSize(n, j) \in Nat /\ LevelSize(n, j) >= 1
      BY <1>2, <2>1, LevelFacts
    <2> QED BY <2>2
  <1>4. \E k \in 0 .. n : LevelSize(n, k) = 1 /\ \A j \in 0 .. k - 1 : LevelSize(n, j) > 1
    BY <1>2, <1>3
  <1> QED BY <1>4 DEF Depth

-----------------------------------------------------------------------------
(* The nodes.                                                              *)

NodesAbove(txs, below, k) ==
    [i \in 0 .. LevelSize(Len(txs), k) - 1 |->
        MerklePair(below[2 * i],
                   IF 2 * i + 1 < LevelSize(Len(txs), k - 1)
                   THEN below[2 * i + 1] ELSE below[2 * i])]

LeafNodes(txs) == [i \in 0 .. Len(txs) - 1 |-> TxHash(txs[i + 1])]

Climb == INSTANCE Loops WITH Round <- LAMBDA txs, below, k : NodesAbove(txs, below, k)

IsTree(tree, txs, level) ==
    tree = [k \in 0 .. level |->
               IF k = 0 THEN LeafNodes(txs) ELSE NodesAbove(txs, tree[k - 1], k)]

LEMMA NodeIsChosen ==
    ASSUME NEW txs, NEW level, NEW index
    PROVE  Node(txs, level, index) = (CHOOSE tree : IsTree(tree, txs, level))[level][index]
  BY DEF Node, IsTree, LeafNodes, NodesAbove

LEMMA TreeExists ==
    ASSUME NEW txs, NEW level \in Nat PROVE \E tree : IsTree(tree, txs, level)
  <1> DEFINE counter == [k \in 0 .. level |-> k]
  <1>1. PICK tree : Climb!IsLoop(tree, txs, counter, LeafNodes(txs), level)
    BY Climb!LoopExists
  <1>2. tree = [k \in 0 .. level |->
                   IF k = 0 THEN LeafNodes(txs) ELSE NodesAbove(txs, tree[k - 1], counter[k])]
    BY <1>1 DEF Climb!IsLoop
  <1>3. \A k \in 0 .. level : counter[k] = k
    OBVIOUS
  <1> HIDE DEF counter
  <1>4. IsTree(tree, txs, level)
    BY <1>2, <1>3 DEF IsTree
  <1> QED BY <1>4

IsTreeOf(tree, txs, level) ==
    /\ tree[0] = LeafNodes(txs)
    /\ \A k \in 1 .. level : tree[k] = NodesAbove(txs, tree[k - 1], k)

LEMMA NodeFacts ==
    ASSUME NEW txs, NEW level \in Nat
    PROVE  \E tree : /\ IsTreeOf(tree, txs, level)
                     /\ Node(txs, level, 0) = tree[level][0]
  <1> DEFINE tree == CHOOSE tree : IsTree(tree, txs, level)
  <1>1. IsTree(tree, txs, level)
    BY TreeExists
  <1>2. Node(txs, level, 0) = tree[level][0]
    BY NodeIsChosen
  <1> HIDE DEF tree
  <1>3. \A k \in 0 .. level :
           tree[k] = IF k = 0 THEN LeafNodes(txs) ELSE NodesAbove(txs, tree[k - 1], k)
    BY <1>1 DEF IsTree
  <1>4. tree[0] = LeafNodes(txs)
    BY <1>3
  <1>5. \A k \in 1 .. level : tree[k] = NodesAbove(txs, tree[k - 1], k)
    BY <1>3
  <1> QED BY <1>2, <1>4, <1>5 DEF IsTreeOf

-----------------------------------------------------------------------------
(* A layer that shows the nodes of a level: its positions begin at 1.      *)
Shows(layer, nodes, size) ==
    /\ LayerOk(layer) /\ Len(layer) = size
    /\ \A i \in 1 .. size : layer[i] = nodes[i - 1]

LEMMA LeavesShown ==
    ASSUME NEW txs, IsList(txs), Len(txs) >= 1
    PROVE  Shows(Leaves(txs), LeafNodes(txs), Len(txs))
  <1> DEFINE n == Len(txs)
             leaves == Leaves(txs)
  <1>1. n \in Nat /\ DOMAIN txs = 1 .. n
    BY DEF IsList
  <1>2. leaves = [i \in 1 .. n |-> TxHash(txs[i])]
    BY <1>1 DEF Leaves
  <1> HIDE DEF leaves
  <1>3. leaves = [i \in 1 .. n |-> leaves[i]] /\ \A i \in 1 .. n : leaves[i] = TxHash(txs[i])
    BY <1>2
  <1>4. LayerOk(leaves) /\ Len(leaves) = n
    BY <1>1, <1>3, ListIsLayer
  <1>5. \A i \in 1 .. n : LeafNodes(txs)[i - 1] = TxHash(txs[i])
    BY <1>1 DEF LeafNodes
  <1> QED BY <1>3, <1>4, <1>5 DEF Shows, leaves

LEMMA LevelShown ==
    ASSUME NEW txs, NEW k, NEW below, NEW layer, NEW size \in Nat, size > 1,
           LevelSize(Len(txs), k - 1) = size, Shows(layer, below, size),
           LevelSize(Len(txs), k) = (size + 1) \div 2,
           NEW next, next = HashRound(layer)
    PROVE  Shows(next, NodesAbove(txs, below, k), LevelSize(Len(txs), k))
  <1> DEFINE half == (size + 1) \div 2
  <1>1. LayerOk(layer) /\ Len(layer) = size /\ \A i \in 1 .. size : layer[i] = below[i - 1]
    BY DEF Shows
  <1>2. /\ Len(next) = half /\ LayerOk(next)
        /\ \A i \in 1 .. half : next[i] = PairAt(layer, i)
    BY <1>1, NextLayerFacts
  <1>3. half \in Nat /\ 2 * half <= size + 1
    OBVIOUS
  <1> HIDE DEF half
  <1>4. ASSUME NEW i \in 1 .. half PROVE next[i] = NodesAbove(txs, below, k)[i - 1]
    <2> DEFINE j == i - 1
    <2>1. j \in 0 .. half - 1 /\ 2 * j = 2 * i - 2 /\ 2 * j + 1 = 2 * i - 1
      BY <1>3
    <2>2. NodesAbove(txs, below, k)[j]
             = MerklePair(below[2 * j], IF 2 * j + 1 < size THEN below[2 * j + 1]
                                        ELSE below[2 * j])
      BY <2>1 DEF NodesAbove, half
    <2>3. 2 * i - 1 \in 1 .. size /\ (2 * i - 1) - 1 = 2 * j
      BY <1>3, <2>1
    <2>4. layer[2 * i - 1] = below[2 * j]
      BY <1>1, <2>3
    <2>5. CASE 2 * i <= size
      <3>1. 2 * i \in 1 .. size /\ 2 * i - 1 = 2 * j + 1 /\ 2 * j + 1 < size
        BY <2>1, <2>5
      <3>2. layer[2 * i] = below[2 * j + 1]
        BY <1>1, <3>1
      <3> QED BY <1>1, <1>2, <2>2, <2>4, <2>5, <3>1, <3>2 DEF PairAt
    <2>6. CASE ~(2 * i <= size)
      <3>1. ~(2 * j + 1 < size)
        BY <2>1, <2>6
      <3> QED BY <1>1, <1>2, <2>2, <2>4, <2>6, <3>1 DEF PairAt
    <2> QED BY <2>5, <2>6
  <1> QED BY <1>2, <1>4 DEF Shows, half

(* The loop over layers computes the tree, level by level, and stays at    *)
(* its root.                                                               *)
LEMMA LayersShowTree ==
    ASSUME NEW txs, IsList(txs), Len(txs) >= 1, NEW d, d = Depth(Len(txs)),
           NEW tree, IsTreeOf(tree, txs, d)
    PROVE  \A k \in 0 .. d : Shows(LayerK(txs, k), tree[k], LevelSize(Len(txs), k))
  <1> DEFINE n == Len(txs)
             S == {k \in 0 .. d : Shows(LayerK(txs, k), tree[k], LevelSize(n, k))}
  <1>1. n \in Nat /\ n >= 1
    BY DEF IsList
  <1>2. /\ d \in 0 .. n /\ d \in Nat
        /\ \A j \in 0 .. d - 1 : LevelSize(n, j) > 1
    BY <1>1, DepthFacts
  <1>3. 0 \in S
    <2>1. Shows(Leaves(txs), LeafNodes(txs), n)
      BY LeavesShown
    <2>2. LevelSize(n, 0) = n
      BY <1>1, LevelFacts
    <2>3. 0 \in 0 .. d /\ LayerK(txs, 0) = Leaves(txs)
      BY <1>2, LayerZero
    <2> QED BY <2>1, <2>2, <2>3 DEF IsTreeOf
  <1>4. ASSUME NEW k \in 1 .. d, k - 1 \in S PROVE k \in S
    <2> DEFINE layer == LayerK(txs, k - 1)
               next == LayerK(txs, k)
               size == LevelSize(n, k - 1)
    <2>1. next = HashRound(layer)
      BY <1>2, LayerNext
    <2>2. size \in Nat /\ size > 1 /\ LevelSize(n, k) = (size + 1) \div 2
      <3>1. k - 1 \in 0 .. d - 1 /\ k - 1 \in 0 .. n /\ k \in 1 .. n
        BY <1>2
      <3> QED BY <1>1, <1>2, <3>1, LevelFacts
    <2>3. Shows(layer, tree[k - 1], size)
      BY <1>4
    <2> HIDE DEF layer, next
    <2>4. Shows(next, NodesAbove(txs, tree[k - 1], k), LevelSize(n, k))
      BY <2>1, <2>2, <2>3, LevelShown
    <2> QED BY <2>4 DEF next, IsTreeOf
  <1> HIDE DEF S
  <1>5. \A k \in 0 .. d : k \in S
    BY <1>2, <1>3, <1>4, Doublings!BoundedInduction
  <1> QED BY <1>5 DEF S

LEMMA LayerStays ==
    ASSUME NEW txs, NEW d \in Nat, NEW m \in Nat, Len(LayerK(txs, d)) = 1
    PROVE  LayerK(txs, d + m) = LayerK(txs, d)
  <1> DEFINE last == LayerK(txs, d)
             S == {i \in 0 .. m : LayerK(txs, d + i) = last}
  <1>1. 0 \in S
    OBVIOUS
  <1>2. ASSUME NEW i \in 1 .. m, i - 1 \in S PROVE i \in S
    <2>1. d + i \in Nat /\ d + i >= 1 /\ (d + i) - 1 = d + (i - 1)
      OBVIOUS
    <2>2. LayerK(txs, d + i) = HashRound(LayerK(txs, (d + i) - 1))
      BY <2>1, LayerNext
    <2>3. LayerK(txs, (d + i) - 1) = last
      BY <1>2, <2>1
    <2>4. HashRound(last) = last
      BY DEF HashRound
    <2> QED BY <2>2, <2>3, <2>4
  <1> HIDE DEF S
  <1>3. \A i \in 0 .. m : i \in S
    BY <1>1, <1>2, Doublings!BoundedInduction
  <1>4. m \in S
    BY <1>3
  <1> QED BY <1>4 DEF S

(* What the loop computes is the root of the tree, for every body.         *)
LEMMA RootByPosition ==
    ASSUME NEW txs, IsList(txs)
    PROVE  ComputeTxRoot(txs)
              = IF txs = <<>> THEN ZeroHash ELSE Node(txs, Depth(Len(txs)), 0)
  <1>1. CASE ~(Len(txs) >= 1)
    <2>1. txs = <<>>
      BY <1>1 DEF IsList
    <2> QED BY <2>1, RootIsLoop
  <1>2. CASE Len(txs) >= 1
    <2> DEFINE n == Len(txs)
               d == Depth(n)
               last == LayerK(txs, d)
    <2>1. n \in Nat /\ d \in 0 .. n /\ LevelSize(n, d) = 1 /\ d \in Nat
      BY <1>2, DepthFacts DEF IsList
    <2> HIDE DEF d
    <2>2. PICK tree : IsTreeOf(tree, txs, d) /\ Node(txs, d, 0) = tree[d][0]
      <3>1. d \in Nat
        BY <2>1
      <3> QED BY <3>1, NodeFacts, Zenon
    <2>3. Shows(last, tree[d], 1)
      <3>1. \A k \in 0 .. d : Shows(LayerK(txs, k), tree[k], LevelSize(n, k))
        BY <1>2, <2>2, LayersShowTree DEF d
      <3>2. d \in 0 .. d
        BY <2>1
      <3> QED BY <2>1, <3>1, <3>2
    <2>4. Len(last) = 1 /\ last[1] = tree[d][0]
      BY <2>3 DEF Shows
    <2>5. LayerK(txs, n) = last
      <3>1. n - d \in Nat /\ d + (n - d) = n
        BY <2>1
      <3>2. LayerK(txs, d + (n - d)) = last
        BY <2>1, <2>4, <3>1, LayerStays
      <3> QED BY <3>1, <3>2
    <2>6. txs # <<>> /\ ComputeTxRoot(txs) = LayerK(txs, n)[1]
      BY <1>2, RootIsLoop DEF LayerK
    <2> QED BY <2>2, <2>4, <2>5, <2>6 DEF d
  <1> QED BY <1>1, <1>2

(* The loop over layers computes the tree of the positional definition,    *)
(* for every body: which leaf is repeated, and where, follows from the     *)
(* number of leaves alone.                                                 *)
THEOREM RootFollowsPositions == Spec => []RootIsPositional
  <1>1. ASSUME TransferInv PROVE RootIsPositional
    <2> DEFINE txs == block.transactions
    <2>1. IsList(txs)
      BY <1>1, LenProperties DEF TransferInv, IsSeqOf, IsList
    <2> HIDE DEF txs
    <2>2. ComputeTxRoot(txs)
             = IF txs = <<>> THEN ZeroHash ELSE Node(txs, Depth(Len(txs)), 0)
      BY <2>1, RootByPosition
    <2> QED BY <2>2 DEF RootIsPositional, txs
  <1> QED BY <1>1, TransferInvariance, PTL
===============================================================================
