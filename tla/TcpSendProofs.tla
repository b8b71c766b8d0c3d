--------------------------- MODULE TcpSendProofs ---------------------------
(***************************************************************************)
(* Proofs about TcpSend: the invariants of the sending half of lwIP hold   *)
(* for every stream, segment size, window and number of retransmissions,   *)
(* whatever the network and the TUN device do.                             *)
(***************************************************************************)
EXTENDS TcpSend, InductionLemmas, SequenceTheorems

-----------------------------------------------------------------------------
(* Bytes, the sum over a queue. *)

\* f is the function that Bytes defines for q.
IsSum(f, q) == f = [i \in 0 .. Len(q) |-> IF i = 0 THEN 0 ELSE f[i - 1] + Len(q[i].data)]

\* The length of the data of each segment is a number.
LEMMA DataLen ==
    ASSUME NEW q \in Seq(Segments), NEW i \in 1 .. Len(q)
    PROVE  q[i] \in Segments /\ Len(q[i].data) \in Nat
<1>1. q[i] \in Segments
  BY ElementOfSeq
<1>2. q[i].data \in Seq(0 .. Total - 1)
  BY <1>1 DEF Segments
<1> QED BY <1>1, <1>2, LenProperties

\* There is such a function ...
LEMMA SumExists ==
    ASSUME NEW q \in Seq(Segments)
    PROVE  \E f \in [0 .. Len(q) -> Nat] : IsSum(f, q)
<1> DEFINE P(f, n) == f = [i \in 0 .. n |-> IF i = 0 THEN 0 ELSE f[i - 1] + Len(q[i].data)]
           E(n) == \E f \in [0 .. n -> Nat] : P(f, n)
           S == {n \in Nat : n > Len(q) \/ E(n)}
<1>0. Len(q) \in Nat
  BY LenProperties
<1>1. 0 \in S
  <2>1. P([i \in 0 .. 0 |-> 0], 0) /\ [i \in 0 .. 0 |-> 0] \in [0 .. 0 -> Nat]
    OBVIOUS
  <2> QED BY <2>1
<1>2. ASSUME NEW n \in Nat, n \in S PROVE n + 1 \in S
  <2>1. CASE n + 1 > Len(q)
    BY <2>1
  <2>2. CASE n + 1 <= Len(q)
    <3>0. E(n)
      <4> HIDE DEF E
      <4> QED BY <1>2, <2>2, <1>0
    <3>1. PICK f \in [0 .. n -> Nat] : P(f, n)
      BY <3>0, Zenon
    <3>2. Len(q[n + 1].data) \in Nat
      BY <2>2, <1>0, DataLen
    <3> DEFINE g == [i \in 0 .. n + 1 |-> IF i = n + 1 THEN f[n] + Len(q[n + 1].data) ELSE f[i]]
    <3>3. g \in [0 .. n + 1 -> Nat]
      BY <3>2, SMTT(30)
    <3>4. ASSUME NEW i \in 0 .. n + 1
          PROVE  g[i] = IF i = 0 THEN 0 ELSE g[i - 1] + Len(q[i].data)
      <4>1. CASE i = n + 1
        BY <4>1
      <4>2. CASE i \in 0 .. n
        <5>1. f[i] = IF i = 0 THEN 0 ELSE f[i - 1] + Len(q[i].data)
          BY <3>1, <4>2
        <5>2. g[i] = f[i] /\ (i # 0 => g[i - 1] = f[i - 1])
          BY <4>2
        <5> QED BY <5>1, <5>2
      <4> QED BY <4>1, <4>2
    <3>5. P(g, n + 1)
      <4> HIDE DEF g
      <4> QED BY <3>3, <3>4
    <3>6. E(n + 1)
      <4> HIDE DEF g, P
      <4> QED BY <3>3, <3>5, Zenon
    <3> HIDE DEF E
    <3> QED BY <3>6
  <2> HIDE DEF E
  <2> QED BY <2>1, <2>2, <1>0
<1>3. Len(q) \in S
  <2> HIDE DEF S
  <2> QED BY <1>0, <1>1, <1>2, SetInduction
<1>4. E(Len(q))
  <2> HIDE DEF E
  <2> QED BY <1>0, <1>3
<1> QED BY <1>4, Zenon DEF IsSum

\* ... and only one.
LEMMA SumUnique ==
    ASSUME NEW q \in Seq(Segments), NEW f, NEW g, IsSum(f, q), IsSum(g, q)
    PROVE  f = g
<1> DEFINE S == {n \in Nat : n > Len(q) \/ f[n] = g[n]}
<1>0. Len(q) \in Nat
  BY LenProperties
<1>1. \A i \in 0 .. Len(q) : /\ f[i] = IF i = 0 THEN 0 ELSE f[i - 1] + Len(q[i].data)
                             /\ g[i] = IF i = 0 THEN 0 ELSE g[i - 1] + Len(q[i].data)
  BY DEF IsSum
<1>2. 0 \in S
  BY <1>0, <1>1
<1>3. ASSUME NEW n \in Nat, n \in S PROVE n + 1 \in S
  <2>1. CASE n + 1 > Len(q)
    BY <2>1
  <2>2. CASE n + 1 <= Len(q)
    <3>1. f[n] = g[n]
      BY <1>3, <2>2, <1>0
    <3>2. f[n + 1] = f[n] + Len(q[n + 1].data) /\ g[n + 1] = g[n] + Len(q[n + 1].data)
      BY <1>1, <2>2, <1>0
    <3> QED BY <3>1, <3>2
  <2> QED BY <2>1, <2>2, <1>0
<1>4. \A n \in Nat : n \in S
  <2> HIDE DEF S
  <2> QED BY <1>2, <1>3, SetInduction
<1>5. \A n \in 0 .. Len(q) : f[n] = g[n]
  BY <1>4, <1>0
<1> QED BY <1>5 DEF IsSum

\* Bytes(q) is a number, and the last value of any such function.
LEMMA BytesIs ==
    ASSUME NEW q \in Seq(Segments)
    PROVE  /\ Bytes(q) \in Nat
           /\ \A f : IsSum(f, q) => Bytes(q) = f[Len(q)]
<1>1. PICK f \in [0 .. Len(q) -> Nat] : IsSum(f, q)
  BY SumExists
<1> DEFINE c == CHOOSE g : IsSum(g, q)
<1>2. IsSum(c, q)
  BY <1>1
<1>3. Bytes(q) = c[Len(q)]
  BY DEF Bytes, IsSum
<1>4. \A g : IsSum(g, q) => g = c
  <2> HIDE DEF c
  <2> QED BY <1>2, SumUnique
<1>5. c[Len(q)] \in Nat
  <2> HIDE DEF c
  <2>1. c = f
    BY <1>1, <1>4
  <2>2. Len(q) \in 0 .. Len(q)
    BY LenProperties
  <2> QED BY <2>1, <2>2
<1> HIDE DEF c
<1> QED BY <1>3, <1>4, <1>5

\* The empty queue holds no bytes.
LEMMA BytesEmpty == Bytes(<<>>) = 0
<1>1. <<>> \in Seq(Segments) /\ Len(<<>>) = 0
  BY EmptySeq
<1>2. PICK f \in [0 .. Len(<<>>) -> Nat] : IsSum(f, <<>>)
  BY <1>1, SumExists
<1>3. f[0] = 0
  BY <1>1, <1>2 DEF IsSum
<1> QED BY <1>1, <1>2, <1>3, BytesIs

\* A segment at the end adds its own bytes.
LEMMA BytesAppend ==
    ASSUME NEW q \in Seq(Segments), NEW s \in Segments
    PROVE  Bytes(Append(q, s)) = Bytes(q) + Len(s.data)
<1> DEFINE r == Append(q, s)
<1>0. Len(q) \in Nat
  BY LenProperties
<1>1. /\ r \in Seq(Segments) /\ Len(r) = Len(q) + 1
      /\ \A i \in 1 .. Len(q) : r[i] = q[i]
      /\ r[Len(q) + 1] = s
  BY AppendProperties
<1> HIDE DEF r
<1>2. PICK f \in [0 .. Len(r) -> Nat] : IsSum(f, r)
  BY <1>1, SumExists
<1>3. \A i \in 0 .. Len(q) + 1 : f[i] = IF i = 0 THEN 0 ELSE f[i - 1] + Len(r[i].data)
  BY <1>1, <1>2 DEF IsSum
<1> DEFINE g == [i \in 0 .. Len(q) |-> f[i]]
<1>4. IsSum(g, q)
  <2>1. ASSUME NEW i \in 0 .. Len(q)
        PROVE  g[i] = IF i = 0 THEN 0 ELSE g[i - 1] + Len(q[i].data)
    <3>1. g[i] = f[i] /\ (i # 0 => g[i - 1] = f[i - 1] /\ r[i] = q[i])
      BY <1>0, <1>1
    <3>2. f[i] = IF i = 0 THEN 0 ELSE f[i - 1] + Len(r[i].data)
      BY <1>0, <1>3
    <3> QED BY <3>1, <3>2
  <2> QED BY <2>1 DEF IsSum
<1>5. Bytes(q) = f[Len(q)]
  BY <1>4, <1>0, BytesIs
<1>6. Bytes(r) = f[Len(q) + 1]
  BY <1>1, <1>2, BytesIs
<1>7. f[Len(q) + 1] = f[Len(q)] + Len(s.data)
  BY <1>0, <1>1, <1>3
<1> QED BY <1>5, <1>6, <1>7 DEF r

\* Two queues one after the other hold the bytes of both.
LEMMA BytesConcat ==
    ASSUME NEW q \in Seq(Segments), NEW r \in Seq(Segments)
    PROVE  Bytes(q \o r) = Bytes(q) + Bytes(r)
<1> DEFINE E(n) == \A t \in Seq(Segments) : Len(t) = n => Bytes(q \o t) = Bytes(q) + Bytes(t)
           S == {n \in Nat : E(n)}
<1>1. E(0)
  <2>1. SUFFICES ASSUME NEW t \in Seq(Segments), Len(t) = 0
                 PROVE  Bytes(q \o t) = Bytes(q) + Bytes(t)
    OBVIOUS
  <2>2. t = <<>>
    BY <2>1, EmptySeq
  <2>3. q \o t = q
    BY <2>2, ConcatEmptySeq
  <2>4. Bytes(t) = 0 /\ Bytes(q) \in Nat
    BY <2>2, BytesEmpty, BytesIs
  <2> QED BY <2>3, <2>4
<1>2. ASSUME NEW n \in Nat, E(n) PROVE E(n + 1)
  <2>1. SUFFICES ASSUME NEW t \in Seq(Segments), Len(t) = n + 1
                 PROVE  Bytes(q \o t) = Bytes(q) + Bytes(t)
    OBVIOUS
  <2>2. t # <<>>
    BY <2>1, EmptySeq
  <2>3. PICK u \in Seq(Segments), s \in Segments : t = Append(u, s)
    BY <2>2, SequenceEmptyOrAppend
  <2>4. Len(u) = n
    BY <2>1, <2>3, AppendProperties, LenProperties
  <2>5. Bytes(q \o u) = Bytes(q) + Bytes(u)
    BY <1>2, <2>4
  <2>6. q \o t = Append(q \o u, s)
    <3>1. <<s>> \in Seq(Segments)
      OBVIOUS
    <3>2. t = u \o <<s>>
      BY <2>3, AppendIsConcat
    <3>3. q \o (u \o <<s>>) = (q \o u) \o <<s>>
      BY <3>1, ConcatAssociative
    <3>4. q \o u \in Seq(Segments)
      BY ConcatProperties
    <3> QED BY <3>2, <3>3, <3>4, AppendIsConcat
  <2>7. Bytes(q \o t) = Bytes(q \o u) + Len(s.data)
    <3>1. q \o u \in Seq(Segments)
      BY ConcatProperties
    <3> QED BY <2>6, <3>1, BytesAppend
  <2>8. Bytes(t) = Bytes(u) + Len(s.data)
    BY <2>3, BytesAppend
  <2>9. Bytes(q) \in Nat /\ Bytes(u) \in Nat /\ Len(s.data) \in Nat
    <3>1. s.data \in Seq(0 .. Total - 1)
      BY DEF Segments
    <3> QED BY <3>1, BytesIs, LenProperties
  <2> QED BY ONLY <2>5, <2>7, <2>8, <2>9
<1> HIDE DEF E
<1>3. 0 \in S /\ \A n \in Nat : n \in S => n + 1 \in S
  BY <1>1, <1>2
<1>4. Len(r) \in S
  <2> HIDE DEF S
  <2> QED BY <1>3, SetInduction, LenProperties
<1>5. E(Len(r))
  BY <1>4
<1> QED BY <1>5 DEF E

-----------------------------------------------------------------------------
(* Queues that are merged. *)

\* a holds the segments of q and those of r.
Merges(a, q, r) ==
    /\ a \in Seq(Segments)
    /\ Len(a) = Len(q) + Len(r)
    /\ Range(a) = Range(q) \cup Range(r)
    /\ Bytes(a) = Bytes(q) + Bytes(r)

\* Two queues one after the other are a merge of the two.
LEMMA ConcatMerges ==
    ASSUME NEW q \in Seq(Segments), NEW r \in Seq(Segments)
    PROVE  Merges(q \o r, q, r)
BY ConcatProperties, RangeConcatenation, BytesConcat DEF Merges

\* A queue cut in two is a merge of its parts.
LEMMA CutMerges ==
    ASSUME NEW q \in Seq(Segments), NEW k \in 0 .. Len(q)
    PROVE  /\ SubSeq(q, 1, k) \in Seq(Segments) /\ Len(SubSeq(q, 1, k)) = k
           /\ SubSeq(q, k + 1, Len(q)) \in Seq(Segments)
           /\ Len(SubSeq(q, k + 1, Len(q))) = Len(q) - k
           /\ SubSeq(q, 1, k) \o SubSeq(q, k + 1, Len(q)) = q
           /\ Merges(q, SubSeq(q, 1, k), SubSeq(q, k + 1, Len(q)))
<1>0. Len(q) \in Nat
  BY LenProperties
<1>1. \A i \in 1 .. Len(q) : q[i] \in Segments
  BY ElementOfSeq
<1>2. /\ SubSeq(q, 1, k) \in Seq(Segments) /\ Len(SubSeq(q, 1, k)) = k
  BY <1>0, <1>1, SubSeqProperties
<1>3. /\ SubSeq(q, k + 1, Len(q)) \in Seq(Segments)
      /\ Len(SubSeq(q, k + 1, Len(q))) = Len(q) - k
  BY <1>0, <1>1, SubSeqProperties
<1>4. SubSeq(q, 1, k) \o SubSeq(q, k + 1, Len(q)) = SubSeq(q, 1, Len(q))
  <2>1. 1 \in 1 .. Len(q) + 1 /\ k \in 1 - 1 .. Len(q) /\ Len(q) \in k .. Len(q)
    BY <1>0
  <2> QED BY ONLY <2>1, q \in Seq(Segments), ConcatAdjacentSubSeq, Zenon
<1>5. SubSeq(q, 1, k) \o SubSeq(q, k + 1, Len(q)) = q
  BY <1>4, SubSeqFull
<1>6. Merges(SubSeq(q, 1, k) \o SubSeq(q, k + 1, Len(q)), SubSeq(q, 1, k),
             SubSeq(q, k + 1, Len(q)))
  BY <1>2, <1>3, ConcatMerges
<1> QED BY <1>2, <1>3, <1>5, <1>6

\* A place for s in q: Insert puts it there, Merges counts it.
LEMMA InsertMerges ==
    ASSUME NEW q \in Seq(Segments), NEW s \in Segments
    PROVE  Merges(Insert(q, s), q, <<s>>)
<1> DEFINE K == {i \in 1 .. Len(q) : \A j \in 1 .. i : ByAt(q[j], s)}
           k == Cardinality(K)
           a == SubSeq(q, 1, k)
           b == SubSeq(q, k + 1, Len(q))
<1>0. Len(q) \in Nat
  BY LenProperties
<1>1. k \in 0 .. Len(q)
  <2>1. K \in SUBSET (1 .. Len(q)) /\ \A x \in K : \A i \in 1 .. x : i \in K
    BY <1>0
  <2> HIDE DEF K
  <2> QED BY <1>0, <2>1, PrefixInterval
<1>2. Insert(q, s) = a \o <<s>> \o b
  BY DEF Insert
<1> HIDE DEF K, k
<1>3. /\ a \in Seq(Segments) /\ b \in Seq(Segments) /\ <<s>> \in Seq(Segments)
      /\ Merges(q, a, b)
  <2>1. <<s>> \in Seq(Segments)
    OBVIOUS
  <2> QED BY <1>1, <2>1, CutMerges
<1> HIDE DEF a, b
<1>4. Merges(a \o <<s>>, a, <<s>>) /\ a \o <<s>> \in Seq(Segments)
  BY <1>3, ConcatMerges DEF Merges
<1>5. Merges((a \o <<s>>) \o b, a \o <<s>>, b)
  BY <1>3, <1>4, ConcatMerges
<1>6. Len(a) \in Nat /\ Len(b) \in Nat /\ Len(<<s>>) \in Nat /\ Bytes(a) \in Nat
      /\ Bytes(b) \in Nat /\ Bytes(<<s>>) \in Nat
  BY <1>3, LenProperties, BytesIs
<1>7. Insert(q, s) \in Seq(Segments)
  BY <1>2, <1>5 DEF Merges
<1>8. Len(Insert(q, s)) = Len(q) + Len(<<s>>)
  BY <1>2, <1>3, <1>4, <1>5, <1>6 DEF Merges
<1>9. Range(Insert(q, s)) = Range(q) \cup Range(<<s>>)
  BY <1>2, <1>3, <1>4, <1>5, Zenon DEF Merges
<1>10. Bytes(Insert(q, s)) = Bytes(q) + Bytes(<<s>>)
  BY <1>2, <1>3, <1>4, <1>5, <1>6 DEF Merges
<1> QED BY <1>7, <1>8, <1>9, <1>10 DEF Merges

\* tcp_output puts a segment that it sent into the unacked queue, wherever it goes.
LEMMA JoinedMerges ==
    ASSUME NEW q \in Seq(Segments), NEW s \in Segments
    PROVE  Merges(Joined(q, s), q, <<s>>)
<1>1. Append(q, s) = q \o <<s>>
  BY AppendIsConcat
<1>2. Merges(q \o <<s>>, q, <<s>>)
  <2>1. <<s>> \in Seq(Segments)
    OBVIOUS
  <2> QED BY <2>1, ConcatMerges
<1> QED BY <1>1, <1>2, InsertMerges DEF Joined

\* f is the function that AllJoined defines.
IsJoin(f, q, r) == f = [i \in 0 .. Len(r) |-> IF i = 0 THEN q ELSE Joined(f[i - 1], r[i])]

\* There is a function as AllJoined defines it ...
LEMMA JoinExists ==
    ASSUME NEW q \in Seq(Segments), NEW r \in Seq(Segments)
    PROVE  \E f : IsJoin(f, q, r)
<1> DEFINE P(f, n) == f = [i \in 0 .. n |-> IF i = 0 THEN q ELSE Joined(f[i - 1], r[i])]
           E(n) == \E f : P(f, n)
           S == {n \in Nat : E(n)}
<1>0. Len(r) \in Nat
  BY LenProperties
<1>1. E(0)
  <2>1. P([i \in 0 .. 0 |-> q], 0)
    OBVIOUS
  <2> QED BY <2>1, Zenon
<1>2. ASSUME NEW n \in Nat, E(n) PROVE E(n + 1)
  <2>1. PICK f : P(f, n)
    BY <1>2, Zenon
  <2> DEFINE g == [i \in 0 .. n + 1 |-> IF i = n + 1 THEN Joined(f[n], r[n + 1]) ELSE f[i]]
  <2>2. ASSUME NEW i \in 0 .. n + 1
        PROVE  g[i] = IF i = 0 THEN q ELSE Joined(g[i - 1], r[i])
    <3>1. CASE i = n + 1
      <4>1. g[i] = Joined(f[n], r[n + 1]) /\ g[i - 1] = f[n] /\ i # 0
        BY <3>1
      <4> QED BY <3>1, <4>1
    <3>2. CASE i \in 0 .. n
      <4>1. f[i] = IF i = 0 THEN q ELSE Joined(f[i - 1], r[i])
        BY <2>1, <3>2
      <4>2. g[i] = f[i] /\ (i # 0 => g[i - 1] = f[i - 1])
        BY <3>2
      <4> QED BY <4>1, <4>2
    <3> QED BY <3>1, <3>2
  <2>3. P(g, n + 1)
    <3>1. g = [i \in 0 .. n + 1 |-> g[i]]
      OBVIOUS
    <3> HIDE DEF g
    <3> QED BY <3>1, <2>2
  <2> HIDE DEF g, P
  <2> QED BY <2>3, Zenon
<1> HIDE DEF E
<1>3. 0 \in S /\ \A n \in Nat : n \in S => n + 1 \in S
  BY <1>1, <1>2
<1>4. Len(r) \in S
  <2> HIDE DEF S
  <2> QED BY <1>0, <1>3, SetInduction
<1>5. E(Len(r))
  BY <1>4
<1> QED BY <1>5, Zenon DEF E, IsJoin

\* ... and only one.
LEMMA JoinUnique ==
    ASSUME NEW q, NEW r \in Seq(Segments), NEW f, NEW g, IsJoin(f, q, r), IsJoin(g, q, r)
    PROVE  f = g
<1> DEFINE S == {n \in Nat : n > Len(r) \/ f[n] = g[n]}
<1>0. Len(r) \in Nat
  BY LenProperties
<1>1. \A i \in 0 .. Len(r) : /\ f[i] = IF i = 0 THEN q ELSE Joined(f[i - 1], r[i])
                             /\ g[i] = IF i = 0 THEN q ELSE Joined(g[i - 1], r[i])
  BY DEF IsJoin
<1>2. 0 \in S
  BY <1>0, <1>1
<1>3. ASSUME NEW n \in Nat, n \in S PROVE n + 1 \in S
  <2>1. CASE n + 1 > Len(r)
    BY <2>1
  <2>2. CASE n + 1 <= Len(r)
    <3>1. f[n] = g[n]
      BY <1>3, <2>2, <1>0
    <3>2. f[n + 1] = Joined(f[n], r[n + 1]) /\ g[n + 1] = Joined(g[n], r[n + 1])
      BY <1>1, <2>2, <1>0
    <3> QED BY <3>1, <3>2
  <2> QED BY <2>1, <2>2, <1>0
<1>4. \A n \in Nat : n \in S
  <2> HIDE DEF S
  <2> QED BY <1>2, <1>3, SetInduction
<1>5. \A n \in 0 .. Len(r) : f[n] = g[n]
  BY <1>4, <1>0
<1> QED BY <1>5 DEF IsJoin

\* Each segment of r joins q once.
LEMMA AllJoinedMerges ==
    ASSUME NEW q \in Seq(Segments), NEW r \in Seq(Segments)
    PROVE  Merges(AllJoined(q, r), q, r)
<1> DEFINE c == CHOOSE f : IsJoin(f, q, r)
           E(n) == Merges(c[n], q, SubSeq(r, 1, n))
           S == {n \in Nat : n > Len(r) \/ E(n)}
<1>0. Len(r) \in Nat
  BY LenProperties
<1>1. IsJoin(c, q, r)
  BY JoinExists
<1>2. AllJoined(q, r) = c[Len(r)]
  BY DEF AllJoined, IsJoin
<1> HIDE DEF c
<1>3. \A i \in 0 .. Len(r) : c[i] = IF i = 0 THEN q ELSE Joined(c[i - 1], r[i])
  BY <1>1 DEF IsJoin
<1>4. E(0)
  <2>1. c[0] = q /\ SubSeq(r, 1, 0) = <<>>
    BY <1>0, <1>3, SubSeqEmpty
  <2>2. Merges(q \o <<>>, q, <<>>) /\ q \o <<>> = q
    BY ConcatMerges, EmptySeq, ConcatEmptySeq
  <2> QED BY <2>1, <2>2
<1>5. ASSUME NEW n \in Nat, n + 1 <= Len(r), E(n) PROVE E(n + 1)
  <2>1. c[n + 1] = Joined(c[n], r[n + 1])
    BY <1>0, <1>3, <1>5
  <2>2. r[n + 1] \in Segments
    BY <1>0, <1>5, ElementOfSeq
  <2>3. c[n] \in Seq(Segments)
    BY <1>5 DEF Merges
  <2>4. Merges(c[n + 1], c[n], <<r[n + 1]>>)
    BY <2>1, <2>2, <2>3, JoinedMerges
  <2>5. SubSeq(r, 1, n) \in Seq(Segments)
    BY <1>0, <1>5, CutMerges
  <2>6. SubSeq(r, 1, n + 1) = SubSeq(r, 1, n) \o <<r[n + 1]>>
    <3>1. 1 \in 1 .. Len(r) /\ n + 1 \in 1 .. Len(r)
      BY <1>0, <1>5
    <3>2. SubSeq(r, 1, n + 1) = SubSeq(r, 1, (n + 1) - 1) \o <<r[n + 1]>>
      BY ONLY <3>1, r \in Seq(Segments), SubSeqRecursiveSecond, Zenon
    <3>3. (n + 1) - 1 = n
      OBVIOUS
    <3> QED BY <3>2, <3>3
  <2> DEFINE a == SubSeq(r, 1, n)
             t == <<r[n + 1]>>
  <2>7. t \in Seq(Segments) /\ a \in Seq(Segments)
    BY <2>2, <2>5
  <2>8. Merges(a \o t, a, t)
    BY <2>7, ConcatMerges
  <2>9. Merges(c[n], q, a) /\ Merges(c[n + 1], c[n], t)
    BY <1>5, <2>4
  <2>10. Len(q) \in Nat /\ Len(a) \in Nat /\ Len(t) \in Nat /\ Bytes(q) \in Nat
         /\ Bytes(a) \in Nat /\ Bytes(t) \in Nat
    BY <2>7, LenProperties, BytesIs
  <2>11. SubSeq(r, 1, n + 1) = a \o t
    BY <2>6
  <2> HIDE DEF a, t
  <2>12. c[n + 1] \in Seq(Segments)
    BY <2>9 DEF Merges
  <2>13. Len(c[n + 1]) = Len(q) + Len(a \o t)
    BY <2>8, <2>9, <2>10 DEF Merges
  <2>14. Range(c[n + 1]) = Range(q) \cup Range(a \o t)
    BY <2>8, <2>9, Zenon DEF Merges
  <2>15. Bytes(c[n + 1]) = Bytes(q) + Bytes(a \o t)
    BY <2>8, <2>9, <2>10 DEF Merges
  <2>16. Merges(c[n + 1], q, a \o t)
    BY <2>12, <2>13, <2>14, <2>15 DEF Merges
  <2> QED BY <2>11, <2>16
<1> HIDE DEF E
<1>6. 0 \in S /\ \A n \in Nat : n \in S => n + 1 \in S
  BY <1>0, <1>4, <1>5
<1>7. Len(r) \in S
  <2> HIDE DEF S
  <2> QED BY <1>0, <1>6, SetInduction
<1>8. E(Len(r))
  BY <1>0, <1>7
<1>9. SubSeq(r, 1, Len(r)) = r
  BY SubSeqFull
<1> QED BY <1>2, <1>8, <1>9 DEF E

\* Nothing joins: nothing changes.
LEMMA AllJoinedNone ==
    ASSUME NEW q \in Seq(Segments)
    PROVE  AllJoined(q, <<>>) = q
<1> DEFINE c == CHOOSE f : IsJoin(f, q, <<>>)
<1>1. <<>> \in Seq(Segments) /\ Len(<<>>) = 0
  BY EmptySeq
<1>2. IsJoin(c, q, <<>>)
  BY <1>1, JoinExists
<1>3. AllJoined(q, <<>>) = c[0]
  BY <1>1 DEF AllJoined, IsJoin
<1> HIDE DEF c
<1>4. c[0] = q
  BY <1>1, <1>2 DEF IsJoin
<1> QED BY <1>3, <1>4

-----------------------------------------------------------------------------
(* The sender's half of a pcb. *)

States == {"OPEN", "FIN_WAIT_1", "FIN_WAIT_2", "LAST_ACK", "CLOSED", "REMOVED", "CRASHED"}

\* The fields and their types.
Pcbs ==
    [unsent : Seq(Segments), unacked : Seq(Segments),
     lastack : 0 .. Total + 1, sndNxt : 0 .. Total + 1, lbb : 0 .. Total,
     sndBuf : 0 .. SndBuf, sndWnd : 0 .. PeerWnd, wl2 : Nat, cwnd : Mss .. PeerWnd,
     ssthresh : Mss .. SndBuf + PeerWnd, rtime : BOOLEAN, persist : BOOLEAN,
     probes : 0 .. MaxRtx, nrtx : 0 .. MaxRtx, dupacks : 0 .. DupAcks, infr : BOOLEAN, memerr : BOOLEAN, finq : BOOLEAN,
     closepend : BOOLEAN, state : States]

\* What the queues hold, as a set, as a number of segments and as a number of bytes.
Segs(p) == Range(p.unacked) \cup Range(p.unsent)
Count(p) == Len(p.unacked) + Len(p.unsent)
Held(p) == Bytes(p.unacked) + Bytes(p.unsent)

\* The fields that tcp_output leaves alone.
Alike(p, r) ==
    /\ r.lastack = p.lastack /\ r.lbb = p.lbb /\ r.sndBuf = p.sndBuf
    /\ r.sndWnd = p.sndWnd /\ r.wl2 = p.wl2 /\ r.cwnd = p.cwnd
    /\ r.ssthresh = p.ssthresh /\ r.nrtx = p.nrtx
    /\ r.dupacks = p.dupacks /\ r.infr = p.infr /\ r.finq = p.finq
    /\ r.closepend = p.closepend /\ r.state = p.state

\* What the assumption says of the constants.
LEMMA Constants ==
    /\ Total \in Nat /\ Mss \in Nat /\ SndBuf \in Nat /\ PeerWnd \in Nat
    /\ MaxRtx \in Nat /\ DupAcks \in Nat
    /\ Mss > 0 /\ MaxRtx > 0 /\ DupAcks > 0 /\ 2 * Mss <= PeerWnd /\ Mss <= PeerWnd
    /\ Mss <= SndBuf
BY SendAssumption

-----------------------------------------------------------------------------
(* tcp_output. *)

\* The retransmission timer runs beside data in flight, the persist timer does not.
Timed(p) == /\ p.unacked # <<>> => p.rtime
            /\ p.persist => p.unacked = <<>>
\* What tcp_output leaves in the unsent queue is waited for.
Waiting(p) == p.unsent # <<>> => p.rtime \/ p.persist \/ HeldByCwnd(p)

InWindow(p, s) == s.at - p.lastack + Len(s.data) <= p.sndWnd

\* The fields of a segment, and the numbers that are computed from them.
LEMMA SegFields ==
    ASSUME NEW s \in Segments
    PROVE  /\ s.at \in 0 .. Total /\ s.data \in Seq(0 .. Total - 1) /\ s.fin \in BOOLEAN
           /\ Len(s.data) \in Nat /\ End(s) \in Nat /\ s.at \in Nat
           /\ TcpLen(s) \in Nat /\ s.at + TcpLen(s) \in Nat /\ s.at + TcpLen(s) <= End(s) + 1
           /\ TcpLen(s) >= Len(s.data) /\ End(s) = s.at + Len(s.data)
           /\ s.fin => TcpLen(s) = Len(s.data) + 1
<1>1. s.at \in 0 .. Total /\ s.data \in Seq(0 .. Total - 1) /\ s.fin \in BOOLEAN
  BY DEF Segments
<1>2. Len(s.data) \in Nat
  BY <1>1, LenProperties
<1>3. s.at \in Nat
  BY <1>1
<1>4. End(s) = s.at + Len(s.data) /\ TcpLen(s) = Len(s.data) + (IF s.fin THEN 1 ELSE 0)
  BY DEF End, TcpLen
<1> DEFINE a == s.at
           n == Len(s.data)
           e == End(s)
           l == TcpLen(s)
<1>5. a \in Nat /\ n \in Nat /\ e = a + n /\ l = n + (IF s.fin THEN 1 ELSE 0)
  BY <1>2, <1>3, <1>4
<1> HIDE DEF a, n, e, l
<1>6. /\ e \in Nat /\ l \in Nat /\ a + l \in Nat /\ a + l <= e + 1 /\ l >= n
      /\ s.fin => l = n + 1
  BY <1>5
<1> QED BY <1>1, <1>5, <1>6 DEF a, n, e, l

\* The fields of a pcb.
LEMMA PcbFields ==
    ASSUME NEW p \in Pcbs
    PROVE  /\ p.unsent \in Seq(Segments) /\ p.unacked \in Seq(Segments)
           /\ p.lastack \in 0 .. Total + 1 /\ p.sndNxt \in 0 .. Total + 1
           /\ p.lbb \in 0 .. Total /\ p.sndBuf \in 0 .. SndBuf
           /\ p.sndWnd \in 0 .. PeerWnd /\ p.wl2 \in Nat /\ p.cwnd \in Mss .. PeerWnd
           /\ p.ssthresh \in Mss .. SndBuf + PeerWnd
           /\ p.rtime \in BOOLEAN /\ p.persist \in BOOLEAN /\ p.probes \in 0 .. MaxRtx
           /\ p.nrtx \in 0 .. MaxRtx /\ p.dupacks \in 0 .. DupAcks /\ p.infr \in BOOLEAN
           /\ p.memerr \in BOOLEAN /\ p.finq \in BOOLEAN /\ p.closepend \in BOOLEAN
           /\ p.state \in States
           /\ Len(p.unsent) \in Nat /\ Len(p.unacked) \in Nat
           /\ Bytes(p.unsent) \in Nat /\ Bytes(p.unacked) \in Nat
<1>1. p.unsent \in Seq(Segments) /\ p.unacked \in Seq(Segments)
  BY DEF Pcbs
<1>2. /\ Len(p.unsent) \in Nat /\ Len(p.unacked) \in Nat
      /\ Bytes(p.unsent) \in Nat /\ Bytes(p.unacked) \in Nat
  BY <1>1, LenProperties, BytesIs
<1> QED BY <1>1, <1>2 DEF Pcbs

\* A sequence is in the range of its index.
LEMMA InRange ==
    ASSUME NEW S, NEW q \in Seq(S)
    PROVE  /\ \A i \in 1 .. Len(q) : q[i] \in Range(q)
           /\ \A x \in Range(q) : x \in S /\ \E i \in 1 .. Len(q) : x = q[i]
           /\ q # <<>> => Len(q) \in Nat \ {0} /\ Head(q) = q[1] /\ Last(q) = q[Len(q)]
                          /\ Head(q) \in Range(q) /\ Last(q) \in Range(q)
           /\ Len(q) = 0 => q = <<>>
<1>1. Range(q) = {q[i] : i \in 1 .. Len(q)}
  BY RangeEquality
<1>2. \A i \in 1 .. Len(q) : q[i] \in S
  BY ElementOfSeq
<1>3. q # <<>> => Len(q) \in Nat \ {0}
  BY EmptySeq
<1>4. Len(q) = 0 => q = <<>>
  BY EmptySeq
<1>5. q # <<>> => Head(q) = q[1] /\ Last(q) = q[Len(q)]
  BY DEF Last
<1>6. q # <<>> => 1 \in 1 .. Len(q) /\ Len(q) \in 1 .. Len(q)
  BY <1>3
<1>7. \A i \in 1 .. Len(q) : q[i] \in Range(q)
  BY <1>1
<1>8. \A x \in Range(q) : x \in S /\ \E i \in 1 .. Len(q) : x = q[i]
  BY <1>1, <1>2
<1>9. q # <<>> => Head(q) \in Range(q) /\ Last(q) \in Range(q)
  BY <1>5, <1>6, <1>7
<1> QED BY <1>3, <1>4, <1>5, <1>7, <1>8, <1>9

\* The highest sequence number sent.
LEMMA SndNxt ==
    ASSUME NEW p \in Pcbs, \A s \in Range(p.unsent) : End(s) <= p.lbb,
           NEW k \in 0 .. Len(p.unsent)
    PROVE  Max({p.sndNxt} \cup {p.unsent[i].at + TcpLen(p.unsent[i]) : i \in 1 .. k})
              \in 0 .. Total + 1
<1>0. /\ p.unsent \in Seq(Segments) /\ Len(p.unsent) \in Nat
      /\ p.sndNxt \in 0 .. Total + 1 /\ p.lbb \in 0 .. Total
  BY PcbFields
<1>1. ASSUME NEW i \in 1 .. k
      PROVE  p.unsent[i].at + TcpLen(p.unsent[i]) \in 0 .. Total + 1
  <2>1. i \in 1 .. Len(p.unsent)
    BY <1>0
  <2>2. p.unsent[i] \in Range(p.unsent) /\ p.unsent[i] \in Segments
    BY <1>0, <2>1, InRange, ElementOfSeq
  <2>3. End(p.unsent[i]) <= p.lbb
    BY <2>2
  <2>4. /\ p.unsent[i].at + TcpLen(p.unsent[i]) \in Nat /\ End(p.unsent[i]) \in Nat
        /\ p.unsent[i].at + TcpLen(p.unsent[i]) <= End(p.unsent[i]) + 1
    BY <2>2, SegFields
  <2> DEFINE x == p.unsent[i].at + TcpLen(p.unsent[i])
             e == End(p.unsent[i])
  <2>5. x \in Nat /\ e \in Nat /\ x <= e + 1 /\ e <= p.lbb
    BY <2>3, <2>4
  <2> HIDE DEF x, e
  <2>6. x \in 0 .. Total + 1
    BY <2>5, <1>0, Constants
  <2> QED BY <2>6 DEF x
<1> DEFINE f == [i \in 1 .. k |-> p.unsent[i].at + TcpLen(p.unsent[i])]
           V == {p.sndNxt} \cup {p.unsent[i].at + TcpLen(p.unsent[i]) : i \in 1 .. k}
           W == {p.sndNxt} \cup {f[i] : i \in 1 .. k}
<1>2. \A i \in 1 .. k : f[i] \in 0 .. Total + 1
  BY <1>1
<1>3. V = W
  OBVIOUS
<1>4. W \subseteq 0 .. Total + 1
  <2> HIDE DEF f
  <2> QED BY <1>0, <1>2
<1>5. \E m \in W : \A y \in W : m >= y
  <2>1. \A i \in 1 .. k : f[i] \in Int
    BY <1>2, Constants
  <2>2. k \in Nat /\ p.sndNxt \in Int
    BY <1>0
  <2> HIDE DEF f
  <2> QED BY <2>1, <2>2, MaxExists
<1>6. Max(W) \in W
  <2> HIDE DEF W
  <2> QED BY <1>5 DEF Max
<1> HIDE DEF V, W
<1>7. Max(V) \in 0 .. Total + 1
  BY <1>3, <1>4, <1>6
<1> QED BY <1>7 DEF V

\* Sending the first k segments moves them from one queue to the other.
LEMMA TransmitKeeps ==
    ASSUME NEW p \in Pcbs, \A s \in Range(p.unsent) : End(s) <= p.lbb,
           NEW k \in 0 .. Len(p.unsent), NEW fails \in BOOLEAN, NEW t,
           t = Transmit(p, k, fails)
    PROVE  /\ t \in Pcbs /\ Alike(p, t)
           /\ Segs(t) = Segs(p) /\ Count(t) = Count(p) /\ Held(t) = Held(p)
           /\ t.persist = FALSE /\ t.rtime = (p.rtime \/ k > 0 \/ fails)
           /\ Len(t.unacked) = Len(p.unacked) + k
<1> DEFINE a == SubSeq(p.unsent, 1, k)
           u == SubSeq(p.unsent, k + 1, Len(p.unsent))
           v == AllJoined(p.unacked, a)
           x == Max({p.sndNxt} \cup {p.unsent[i].at + TcpLen(p.unsent[i]) : i \in 1 .. k})
           r == (p.rtime \/ k > 0 \/ fails)
<1>1. p.unsent \in Seq(Segments) /\ p.unacked \in Seq(Segments)
  BY PcbFields
<1>2. a \in Seq(Segments) /\ u \in Seq(Segments) /\ Len(a) = k /\ Merges(p.unsent, a, u)
  BY <1>1, CutMerges
<1>3. x \in 0 .. Total + 1
  BY SndNxt
<1>4. t = [p EXCEPT !.persist = FALSE, !.probes = 0, !.unsent = u, !.unacked = v,
                    !.sndNxt = x, !.rtime = r, !.memerr = fails]
  BY DEF Transmit, Pcbs
<1> HIDE DEF a, u, x
<1>5. Merges(v, p.unacked, a)
  BY <1>1, <1>2, AllJoinedMerges
<1>6. v \in Seq(Segments)
  BY <1>5 DEF Merges
<1>7. r \in BOOLEAN
  OBVIOUS
<1> HIDE DEF v, r
<1>8. /\ t \in Pcbs /\ Alike(p, t)
      /\ t.unsent = u /\ t.unacked = v /\ t.rtime = r /\ t.persist = FALSE
  <2>1. 0 \in 0 .. MaxRtx
    BY Constants
  <2>2. t \in Pcbs
    BY ONLY <1>2, <1>3, <1>4, <1>6, <1>7, <2>1, p \in Pcbs, fails \in BOOLEAN DEF Pcbs
  <2>3. Alike(p, t)
    BY ONLY <1>4, p \in Pcbs DEF Pcbs, Alike
  <2>4. t.unsent = u /\ t.unacked = v /\ t.rtime = r /\ t.persist = FALSE
    BY ONLY <1>4, p \in Pcbs DEF Pcbs
  <2> QED BY ONLY <2>2, <2>3, <2>4
<1>9. /\ Len(p.unsent) \in Nat /\ Len(p.unacked) \in Nat
      /\ Bytes(p.unsent) \in Nat /\ Bytes(p.unacked) \in Nat
      /\ Len(a) \in Nat /\ Len(u) \in Nat /\ Bytes(a) \in Nat /\ Bytes(u) \in Nat
  BY <1>2, PcbFields, LenProperties, BytesIs
<1>10. Segs(t) = Segs(p)
  BY <1>2, <1>5, <1>8, Zenon DEF Merges, Segs
<1>11. Count(t) = Count(p) /\ Len(t.unacked) = Len(p.unacked) + k
  <2>1. /\ Len(t.unacked) = Len(p.unacked) + Len(a) /\ Len(t.unsent) = Len(u)
        /\ Len(p.unsent) = Len(a) + Len(u) /\ Len(a) = k
    BY <1>2, <1>5, <1>8 DEF Merges
  <2>2. Len(p.unacked) + Len(a) + Len(u) = Len(p.unacked) + (Len(a) + Len(u))
    <3>1. \A j, y, z \in Nat : j + y + z = j + (y + z)
      OBVIOUS
    <3>2. Len(p.unacked) \in Nat /\ Len(a) \in Nat /\ Len(u) \in Nat
      BY <1>9
    <3> QED BY ONLY <3>1, <3>2
  <2>3. Count(t) = Count(p)
    BY <2>1, <2>2 DEF Count
  <2> QED BY <2>1, <2>3, Zenon
<1>12. Held(t) = Held(p)
  <2>1. /\ Bytes(t.unacked) = Bytes(p.unacked) + Bytes(a) /\ Bytes(t.unsent) = Bytes(u)
        /\ Bytes(p.unsent) = Bytes(a) + Bytes(u)
    BY <1>2, <1>5, <1>8 DEF Merges
  <2> QED BY ONLY <2>1, <1>9 DEF Held
<1> QED BY <1>8, <1>10, <1>11, <1>12 DEF r

\* Nothing is sent: the queues stay as they are.
LEMMA IdleKeeps ==
    ASSUME NEW p \in Pcbs, NEW t \in Pcbs,
           t.unsent = p.unsent, t.unacked = p.unacked
    PROVE  Segs(t) = Segs(p) /\ Count(t) = Count(p) /\ Held(t) = Held(p)
BY DEF Segs, Count, Held

\* tcp_output keeps a pcb when the window does not take the first segment.
LEMMA BlockedKeeps ==
    ASSUME NEW p \in Pcbs, NEW t, t = Blocked(p)
    PROVE  /\ t \in Pcbs /\ Alike(p, t) /\ t.unsent = p.unsent /\ t.unacked = p.unacked
           /\ t.rtime = p.rtime
           /\ t.persist = (p.persist \/ (p.sndWnd <= p.cwnd /\ p.unacked = <<>> /\ ~ p.persist))
<1> DEFINE b == p.sndWnd <= p.cwnd /\ p.unacked = <<>> /\ ~ p.persist
           e == (p.persist \/ b)
           n == IF b THEN 0 ELSE p.probes
<1>1. b \in BOOLEAN /\ e \in BOOLEAN
  OBVIOUS
<1>2. n \in 0 .. MaxRtx
  BY PcbFields, Constants
<1>3. t = [p EXCEPT !.persist = e, !.probes = n, !.memerr = FALSE]
  BY DEF Blocked, Pcbs
<1> HIDE DEF e, n
<1>4. /\ t \in Pcbs /\ Alike(p, t) /\ t.unsent = p.unsent /\ t.unacked = p.unacked
      /\ t.rtime = p.rtime /\ t.persist = e
  BY ONLY <1>1, <1>2, <1>3, p \in Pcbs DEF Pcbs, Alike
<1> QED BY <1>4 DEF e

\* What Output keeps, and what it leaves.
Kept(p, o) ==
    /\ o.pcb \in Pcbs /\ Alike(p, o.pcb)
    /\ Segs(o.pcb) = Segs(p) /\ Count(o.pcb) = Count(p) /\ Held(o.pcb) = Held(p)
    /\ o.sent \subseteq Range(p.unsent)
    /\ \A s \in o.sent : InWindow(p, s)
    /\ Timed(p) => Timed(o.pcb) /\ Waiting(o.pcb)

\* The parts of a result.
LEMMA ResultFields == ASSUME NEW p, NEW s PROVE Result(p, s).pcb = p /\ Result(p, s).sent = s
BY DEF Result

\* tcp_output only moves segments, and leaves a timer running for what waits.
LEMMA OutputKeeps ==
    ASSUME NEW p \in Pcbs, \A s \in Range(p.unsent) : End(s) <= p.lbb,
           NEW o \in Output(p)
    PROVE  Kept(p, o)
<1> DEFINE K == {k \in 1 .. Len(p.unsent) :
                    \A i \in 1 .. k : Fits(p, p.unsent[i]) /\ MayGo(p, i)}
           n == Cardinality(K)
<1>0. /\ p.unsent \in Seq(Segments) /\ p.unacked \in Seq(Segments)
      /\ Len(p.unsent) \in Nat /\ Len(p.unacked) \in Nat
  BY PcbFields
<1>1. n \in 0 .. Len(p.unsent) /\ K = 1 .. n
  <2>1. K \in SUBSET (1 .. Len(p.unsent)) /\ \A x \in K : \A i \in 1 .. x : i \in K
    BY <1>0
  <2> HIDE DEF K
  <2> QED BY <1>0, <2>1, PrefixInterval
<1>2. CASE p.unsent = <<>>
  <2> DEFINE t == [p EXCEPT !.memerr = FALSE]
  <2>1. o = Result(t, {})
    BY <1>2 DEF Output
  <2>2. /\ t \in Pcbs /\ Alike(p, t) /\ t.unsent = p.unsent /\ t.unacked = p.unacked
        /\ t.rtime = p.rtime /\ t.persist = p.persist
    BY DEF Pcbs, Alike
  <2> HIDE DEF t
  <2>3. o.pcb = t /\ o.sent = {}
    BY <2>1, ResultFields
  <2>4. Segs(t) = Segs(p) /\ Count(t) = Count(p) /\ Held(t) = Held(p)
    BY <2>2, IdleKeeps
  <2>5. Timed(p) => Timed(t)
    BY <2>2 DEF Timed
  <2>6. Waiting(t)
    BY <1>2, <2>2 DEF Waiting
  <2> QED BY <2>2, <2>3, <2>4, <2>5, <2>6 DEF Kept
<1>3. CASE p.unsent # <<>> /\ ~ Fits(p, Head(p.unsent))
  <2> DEFINE t == Blocked(p)
  <2>1. o = Result(t, {})
    BY <1>3 DEF Output
  <2>2. /\ t \in Pcbs /\ Alike(p, t) /\ t.unsent = p.unsent /\ t.unacked = p.unacked
        /\ t.rtime = p.rtime
        /\ t.persist = (p.persist \/ (p.sndWnd <= p.cwnd /\ p.unacked = <<>> /\ ~ p.persist))
    BY BlockedKeeps
  <2> HIDE DEF t
  <2>3. o.pcb = t /\ o.sent = {}
    BY <2>1, ResultFields
  <2>4. Segs(t) = Segs(p) /\ Count(t) = Count(p) /\ Held(t) = Held(p)
    BY <2>2, IdleKeeps
  <2>5. Timed(p) => Timed(t)
    BY <2>2 DEF Timed
  <2>6. Timed(p) => Waiting(t)
    <3>1. CASE p.unacked # <<>>
      BY <3>1, <2>2 DEF Timed, Waiting
    <3>2. CASE p.unacked = <<>> /\ (p.sndWnd <= p.cwnd \/ p.persist)
      BY <3>2, <2>2 DEF Waiting
    <3>3. CASE p.unacked = <<>> /\ ~ (p.sndWnd <= p.cwnd)
      <4>1. t.cwnd < t.sndWnd
        <5>1. p.cwnd \in Nat /\ p.sndWnd \in Nat
          BY PcbFields, Constants
        <5>2. t.cwnd = p.cwnd /\ t.sndWnd = p.sndWnd
          BY <2>2 DEF Alike
        <5> QED BY <5>1, <5>2, <3>3
      <4>2. ~ Fits(t, Head(t.unsent))
        BY <1>3, <2>2 DEF Fits, Alike
      <4> QED BY <4>1, <4>2, <3>3, <2>2 DEF Waiting, HeldByCwnd
    <3> QED BY <3>1, <3>2, <3>3
  <2> QED BY <2>2, <2>3, <2>4, <2>5, <2>6 DEF Kept
<1>4. CASE p.unsent # <<>> /\ Fits(p, Head(p.unsent))
  <2>1. \E k \in 0 .. n : o = Result(Transmit(p, k, k < n), {p.unsent[i] : i \in 1 .. k})
    BY <1>4 DEF Output
  <2> HIDE DEF n
  <2>2. PICK k \in 0 .. n : o = Result(Transmit(p, k, k < n), {p.unsent[i] : i \in 1 .. k})
    BY <2>1
  <2> DEFINE f == k < n
             t == Transmit(p, k, f)
  <2>3. k \in 0 .. Len(p.unsent) /\ k \in Nat /\ n \in Nat /\ f \in BOOLEAN
    BY <1>0, <1>1
  <2>4. o.pcb = t /\ o.sent = {p.unsent[i] : i \in 1 .. k}
    BY <2>2, ResultFields
  <2> HIDE DEF f
  <2>5. /\ t \in Pcbs /\ Alike(p, t)
        /\ Segs(t) = Segs(p) /\ Count(t) = Count(p) /\ Held(t) = Held(p)
        /\ t.persist = FALSE /\ t.rtime = (p.rtime \/ k > 0 \/ f)
        /\ Len(t.unacked) = Len(p.unacked) + k
    BY <2>3, TransmitKeeps, ZenonT(30)
  <2> HIDE DEF t
  <2>6. ASSUME NEW s \in o.sent PROVE s \in Range(p.unsent) /\ InWindow(p, s)
    <3>1. PICK i \in 1 .. k : s = p.unsent[i]
      BY <2>4, <2>6
    <3>2. i \in 1 .. Len(p.unsent) /\ i \in K
      BY <1>0, <1>1, <2>3
    <3>3. Fits(p, p.unsent[i])
      BY <3>2
    <3>4. p.unsent[i] \in Range(p.unsent)
      BY <1>0, <3>2, InRange
    <3>5. s \in Segments
      BY <1>0, <3>1, <3>2, ElementOfSeq
    <3>6. InWindow(p, s)
      <4> DEFINE x == s.at - p.lastack + Len(s.data)
      <4>1. x \in 0 .. Smaller(p.sndWnd, p.cwnd)
        BY <3>1, <3>3 DEF Fits
      <4>2. s.at \in Nat /\ Len(s.data) \in Nat /\ p.lastack \in Nat
            /\ p.sndWnd \in Nat /\ p.cwnd \in Nat
        BY <3>5, SegFields, PcbFields, Constants, SMTT(30)
      <4>3. x \in Int
        BY <4>2
      <4> HIDE DEF x
      <4>4. x <= p.sndWnd
        BY <4>1, <4>2, <4>3 DEF Smaller
      <4> QED BY <4>4 DEF x, InWindow
    <3> QED BY <3>1, <3>4, <3>6
  <2>7. k = 0 => t.unacked = p.unacked
    <3>1. SUFFICES ASSUME k = 0 PROVE t.unacked = p.unacked
      OBVIOUS
    <3>2. t.unacked = AllJoined(p.unacked, SubSeq(p.unsent, 1, 0))
      BY <3>1 DEF t, Transmit, Pcbs
    <3>3. SubSeq(p.unsent, 1, 0) = <<>>
      BY SubSeqEmpty
    <3> QED BY <3>2, <3>3, <1>0, AllJoinedNone
  <2>8. Timed(p) => Timed(t)
    <3>1. k = 0 \/ k > 0
      BY <2>3
    <3> QED BY <3>1, <2>5, <2>7, Zenon DEF Timed
  <2>9. Timed(p) => Waiting(t)
    <3>1. CASE k > 0
      BY <3>1, <2>5 DEF Waiting
    <3>2. CASE k = 0 /\ n > 0
      <4>1. f
        BY <3>2 DEF f
      <4> QED BY <4>1, <2>5 DEF Waiting
    <3>3. CASE n = 0
      <4>1. 1 \notin K
        BY <3>3, <1>1
      <4>2. Head(p.unsent) = p.unsent[1] /\ 1 \in 1 .. Len(p.unsent)
        BY <1>0, <1>4, InRange
      <4>3. ~ MayGo(p, 1)
        <5>1. \A i \in 1 .. 1 : i = 1
          OBVIOUS
        <5>2. ~ (Fits(p, p.unsent[1]) /\ MayGo(p, 1))
          BY <4>1, <4>2, <5>1
        <5> QED BY <5>2, <4>2, <1>4
      <4>4. p.unacked # <<>>
        BY <4>3 DEF MayGo
      <4> QED BY <4>4, <2>5 DEF Timed, Waiting
    <3>4. k > 0 \/ (k = 0 /\ n > 0) \/ n = 0
      BY <2>3
    <3> QED BY <3>1, <3>2, <3>3, <3>4
  <2> QED BY <2>4, <2>5, <2>6, <2>8, <2>9 DEF Kept
<1> QED BY <1>2, <1>3, <1>4

-----------------------------------------------------------------------------
(* The invariant of a pcb, given what the other end has. *)

\* A segment that is queued or on its way, in a stream of lbb bytes.  In a stream
\* that is not mangled it carries the bytes of its positions, and the FIN is at
\* the end.
Good(s, lbb, finq, m) ==
    /\ s \in Segments
    /\ Len(s.data) <= Mss /\ End(s) <= lbb
    /\ Len(s.data) > 0 \/ s.fin
    /\ s.fin => finq
    /\ m \/ /\ s.data = Positions(s.at, Len(s.data))
            /\ s.fin => End(s) = lbb

\* The bytes from h on and, unless the other end has it, the FIN are in S.
Covers(S, h, lbb) == \A b \in h .. lbb - 1 : \E s \in S : s.at <= b /\ b < End(s)
HasFin(S) == \E s \in S : s.fin

\* h bytes have been taken, e tells whether the FIN has, m whether the stream is
\* mangled.
Fine(p, m, h, e) ==
    /\ p \in Pcbs
    /\ \A s \in Segs(p) : Good(s, p.lbb, p.finq, m)
    /\ p.finq => p.state # "OPEN"
    /\ Live(p) => /\ p.sndBuf + Held(p) = SndBuf
                  /\ Timed(p)
                  /\ m \/ /\ Covers(Segs(p), h, p.lbb)
                          /\ p.finq /\ ~ e => HasFin(Segs(p))

\* What tcp_output has written to the device.
SentGood(S, p, m) == \A s \in S : Good(s, p.lbb, p.finq, m) /\ (InWindow(p, s) \/ TcpLen(s) = 1)

\* tcp_output keeps a sound pcb sound, and sends only what is sound.
LEMMA OutputFine ==
    ASSUME NEW m \in BOOLEAN, NEW h, NEW e, NEW p, Fine(p, m, h, e), NEW o \in Output(p)
    PROVE  /\ Fine(o.pcb, m, h, e) /\ Alike(p, o.pcb) /\ Count(o.pcb) = Count(p)
           /\ Live(p) => Waiting(o.pcb)
           /\ SentGood(o.sent, p, m)
<1>1. p \in Pcbs
  BY DEF Fine
<1>2. \A s \in Range(p.unsent) : Good(s, p.lbb, p.finq, m)
  BY DEF Fine, Segs
<1>3. \A s \in Range(p.unsent) : End(s) <= p.lbb
  BY <1>2 DEF Good
<1>4. Kept(p, o)
  BY <1>1, <1>3, OutputKeeps
<1>5. Alike(p, o.pcb) /\ Count(o.pcb) = Count(p) /\ Segs(o.pcb) = Segs(p)
      /\ Held(o.pcb) = Held(p) /\ o.pcb \in Pcbs
  BY <1>4 DEF Kept
<1>6. /\ o.pcb.lbb = p.lbb /\ o.pcb.finq = p.finq /\ o.pcb.state = p.state
      /\ o.pcb.sndBuf = p.sndBuf
  BY <1>5 DEF Alike
<1>7. Live(o.pcb) = Live(p)
  BY <1>6 DEF Live
<1>8. Live(p) => Timed(o.pcb) /\ Waiting(o.pcb)
  BY <1>4 DEF Kept, Fine
<1>9. Fine(o.pcb, m, h, e)
  BY <1>5, <1>6, <1>7, <1>8, Zenon DEF Fine
<1>10. SentGood(o.sent, p, m)
  BY <1>2, <1>4 DEF Kept, SentGood
<1> QED BY <1>5, <1>8, <1>9, <1>10

-----------------------------------------------------------------------------
(* Arithmetic of segments. *)

\* The division that rounds up to whole segments.
LEMMA DivFacts ==
    ASSUME NEW x \in Nat, NEW M \in Nat, M > 0
    PROVE  /\ x \div M \in Nat
           /\ (x \div M) * M <= x
           /\ x < (x \div M) * M + M
<1>1. x = M * (x \div M) + (x % M) /\ x % M \in 0 .. M - 1 /\ x \div M \in Int
  <2>1. x = M * (x \div M) + (x % M)
    BY SMTT(30)
  <2>2. x % M \in 0 .. M - 1
    OBVIOUS
  <2>3. x \div M \in Int
    OBVIOUS
  <2> QED BY <2>1, <2>2, <2>3
<1>2. x \div M \in Nat
  OBVIOUS
<1> DEFINE d == x \div M
           r == x % M
<1>3. x = M * d + r /\ r \in 0 .. M - 1 /\ d \in Nat
  BY <1>1, <1>2
<1> HIDE DEF d, r
<1>4. d * M <= x /\ x < d * M + M
  BY <1>3
<1> QED BY <1>3, <1>4 DEF d

\* Products of numbers are ordered as their first factors.
LEMMA MulMonotone ==
    ASSUME NEW a \in Nat, NEW b \in Nat, NEW M \in Nat, a <= b
    PROVE  a * M <= b * M /\ a * M \in Nat /\ b * M \in Nat
<1>1. PICK c \in Nat : b = a + c
  <2>1. b - a \in Nat /\ b = a + (b - a)
    OBVIOUS
  <2> QED BY <2>1
<1>2. b * M = a * M + c * M /\ c * M \in Nat /\ a * M \in Nat
  BY <1>1
<1> QED BY <1>2

\* The number of segments of at most M bytes that x bytes are cut into.
LEMMA PiecesFacts ==
    ASSUME NEW x \in Nat, NEW M \in Nat, M > 0, NEW d, d = (x + M - 1) \div M
    PROVE  /\ d \in Nat
           /\ x <= d * M
           /\ \A i \in 1 .. d : (i - 1) * M \in Nat /\ (i - 1) * M < x
<1>1. x + M - 1 \in Nat
  OBVIOUS
<1>2. d \in Nat /\ d * M <= x + M - 1 /\ x + M - 1 < d * M + M
  BY <1>1, DivFacts
<1>3. x <= d * M
  <2>1. PICK p \in Int : p = d * M
    BY <1>2
  <2> QED BY <2>1, <1>2
<1>4. ASSUME NEW i \in 1 .. d PROVE (i - 1) * M \in Nat /\ (i - 1) * M < x
  <2>1. i - 1 \in Nat /\ d - 1 \in Nat /\ i - 1 <= d - 1
    BY <1>2
  <2>2. (i - 1) * M <= (d - 1) * M /\ (i - 1) * M \in Nat /\ (d - 1) * M \in Nat
    BY <2>1, MulMonotone
  <2>3. (d - 1) * M = d * M - M
    BY <1>2
  <2> QED BY <1>2, <2>2, <2>3
<1> QED BY <1>2, <1>3, <1>4

\* The bytes of n positions from a on.
LEMMA PositionsType ==
    ASSUME NEW a \in Nat, NEW n \in Nat, a + n <= Total
    PROVE  Positions(a, n) \in Seq(0 .. Total - 1)
<1>1. \A i \in 1 .. n : a + i - 1 \in 0 .. Total - 1
  BY Constants
<1> QED BY <1>1 DEF Positions

\* The length and the elements of Positions.
LEMMA PositionsLen ==
    ASSUME NEW a \in Nat, NEW n \in Nat
    PROVE  /\ Positions(a, n) \in Seq(Nat) /\ Len(Positions(a, n)) = n
           /\ \A i \in 1 .. n : Positions(a, n)[i] = a + i - 1
<1>1. \A i \in 1 .. n : a + i - 1 \in Nat
  OBVIOUS
<1> QED BY <1>1 DEF Positions

\* Adjacent runs of positions make one.
LEMMA PositionsConcat ==
    ASSUME NEW a \in Nat, NEW k \in Nat, NEW n \in Nat
    PROVE  Positions(a, k) \o Positions(a + k, n) = Positions(a, k + n)
<1> DEFINE s == Positions(a, k)
           t == Positions(a + k, n)
           u == Positions(a, k + n)
<1>1. /\ s \in Seq(Nat) /\ Len(s) = k /\ \A i \in 1 .. k : s[i] = a + i - 1
      /\ t \in Seq(Nat) /\ Len(t) = n /\ \A i \in 1 .. n : t[i] = a + k + i - 1
      /\ u \in Seq(Nat) /\ Len(u) = k + n /\ \A i \in 1 .. k + n : u[i] = a + i - 1
  <2>1. a + k \in Nat /\ k + n \in Nat
    OBVIOUS
  <2>2. s \in Seq(Nat) /\ Len(s) = k /\ \A i \in 1 .. k : s[i] = a + i - 1
    BY PositionsLen
  <2>3. t \in Seq(Nat) /\ Len(t) = n /\ \A i \in 1 .. n : t[i] = (a + k) + i - 1
    BY <2>1, PositionsLen
  <2>4. u \in Seq(Nat) /\ Len(u) = k + n /\ \A i \in 1 .. k + n : u[i] = a + i - 1
    BY <2>1, PositionsLen
  <2> QED BY <2>2, <2>3, <2>4
<1> HIDE DEF s, t, u
<1>2. /\ s \o t \in Seq(Nat) /\ Len(s \o t) = k + n
      /\ \A i \in 1 .. k + n : (s \o t)[i] = IF i <= k THEN s[i] ELSE t[i - k]
  BY <1>1, ConcatProperties
<1>3. ASSUME NEW i \in 1 .. k + n PROVE (s \o t)[i] = u[i]
  <2>1. CASE i <= k
    BY <2>1, <1>1, <1>2
  <2>2. CASE ~ (i <= k)
    <3>1. i - k \in 1 .. n
      BY <2>2
    <3>2. t[i - k] = a + k + (i - k) - 1
      BY <1>1, <3>1
    <3> QED BY <2>2, <1>1, <1>2, <3>2, SMTT(30)
  <2> QED BY <2>1, <2>2
<1>4. s \o t = u
  BY <1>1, <1>2, <1>3, SeqEqual
<1> QED BY <1>4 DEF s, t, u

SubIs(a, n, i, j) == SubSeq(Positions(a, n), i, j) = Positions(a + i - 1, j - i + 1)

\* A part of a run of positions is a run of positions ...
LEMMA PositionsSub ==
    ASSUME NEW a \in Nat, NEW n \in Nat, NEW i \in Nat, NEW j \in Nat,
           1 <= i, i <= j + 1, j <= n
    PROVE  SubIs(a, n, i, j)
<1> DEFINE s == Positions(a, n)
           t == Positions(a + i - 1, j - i + 1)
<1>1. a + i - 1 \in Nat /\ j - i + 1 \in Nat
  OBVIOUS
<1>2. s \in Seq(Nat) /\ Len(s) = n /\ \A l \in 1 .. n : s[l] = a + l - 1
  BY PositionsLen
<1>3. t \in Seq(Nat) /\ Len(t) = j - i + 1
      /\ \A l \in 1 .. j - i + 1 : t[l] = (a + i - 1) + l - 1
  BY <1>1, PositionsLen
<1> HIDE DEF s, t
<1>4. \A l \in i .. j : s[l] \in Nat
  BY <1>2
<1>5. /\ SubSeq(s, i, j) \in Seq(Nat)
      /\ Len(SubSeq(s, i, j)) = j - i + 1
      /\ \A l \in 1 .. j - i + 1 : SubSeq(s, i, j)[l] = s[i + l - 1]
  BY <1>4, SubSeqProperties
<1>6. ASSUME NEW l \in 1 .. j - i + 1 PROVE SubSeq(s, i, j)[l] = t[l]
  <2>1. i + l - 1 \in 1 .. n
    OBVIOUS
  <2> QED BY <2>1, <1>2, <1>3, <1>5
<1>7. SubSeq(s, i, j) = t
  BY <1>3, <1>5, <1>6, SeqEqual
<1> QED BY <1>7 DEF s, t, SubIs

\* ... and so is its beginning.
LEMMA PositionsPrefix ==
    ASSUME NEW a \in Nat, NEW n \in Nat, NEW j \in Nat, j <= n
    PROVE  SubSeq(Positions(a, n), 1, j) = Positions(a, j)
<1>1. SubIs(a, n, 1, j)
  BY PositionsSub
<1>2. a + 1 - 1 = a /\ j - 1 + 1 = j
  OBVIOUS
<1> QED BY ONLY <1>1, <1>2, Zenon DEF SubIs

\* Another last segment.
WithLast(q, x) == [q EXCEPT ![Len(q)] = x]

\* What a queue holds with another last segment.
LEMMA ReplaceLast ==
    ASSUME NEW q \in Seq(Segments), q # <<>>, NEW x \in Segments
    PROVE  /\ WithLast(q, x) \in Seq(Segments) /\ Len(WithLast(q, x)) = Len(q)
           /\ WithLast(q, x) # <<>>
           /\ \E r \in Seq(Segments) :
                 /\ Range(q) = Range(r) \cup {Last(q)}
                 /\ Range(WithLast(q, x)) = Range(r) \cup {x}
                 /\ Bytes(q) = Bytes(r) + Len(Last(q).data)
                 /\ Bytes(WithLast(q, x)) = Bytes(r) + Len(x.data)
<1> DEFINE f == WithLast(q, x)
<1>0. Len(q) \in Nat \ {0} /\ Last(q) = q[Len(q)] /\ Last(q) \in Segments
  BY InRange
<1>1. PICK r \in Seq(Segments), z \in Segments : q = Append(r, z)
  BY SequenceEmptyOrAppend
<1>2. /\ Len(q) = Len(r) + 1 /\ q[Len(r) + 1] = z /\ \A i \in 1 .. Len(r) : q[i] = r[i]
      /\ Len(r) \in Nat
  BY <1>1, AppendProperties, LenProperties
<1>3. z = Last(q)
  BY <1>0, <1>2
<1>4. Len(q) \in 1 .. Len(q)
  BY <1>0
<1>5. /\ f \in Seq(Segments) /\ Len(f) = Len(q)
      /\ \A j \in 1 .. Len(q) : f[j] = IF j = Len(q) THEN x ELSE q[j]
  BY <1>4, ExceptSeq DEF WithLast
<1> HIDE DEF f
<1>6. f = Append(r, x)
  <2>1. /\ Append(r, x) \in Seq(Segments) /\ Len(Append(r, x)) = Len(q)
        /\ \A i \in 1 .. Len(r) : Append(r, x)[i] = r[i]
        /\ Append(r, x)[Len(r) + 1] = x
    BY <1>2, AppendProperties
  <2>2. \A j \in 1 .. Len(q) : f[j] = Append(r, x)[j]
    BY <1>2, <1>5, <2>1
  <2> QED BY <1>5, <2>1, <2>2, SeqEqual
<1>7. \A y \in Segments : /\ Range(Append(r, y)) = Range(r) \cup {y}
                          /\ Bytes(Append(r, y)) = Bytes(r) + Len(y.data)
  <2>1. SUFFICES ASSUME NEW y \in Segments
                 PROVE  Range(Append(r, y)) = Range(r) \cup {y}
    BY BytesAppend
  <2>2. <<y>> \in Seq(Segments)
    OBVIOUS
  <2>3. Append(r, y) = r \o <<y>> /\ Range(r \o <<y>>) = Range(r) \cup Range(<<y>>)
    BY <2>2, AppendIsConcat, RangeConcatenation, ZenonT(30)
  <2>4. Range(<<y>>) = {y}
    <3>1. Range(<<y>>) = {<<y>>[i] : i \in 1 .. Len(<<y>>)}
      BY <2>2, RangeEquality
    <3>2. Len(<<y>>) = 1 /\ <<y>>[1] = y
      OBVIOUS
    <3> QED BY <3>1, <3>2
  <2> QED BY <2>3, <2>4
<1>8. f # <<>>
  BY <1>0, <1>5, EmptySeq
<1> QED BY <1>1, <1>3, <1>5, <1>6, <1>7, <1>8 DEF f

-----------------------------------------------------------------------------
(* tcp_write. *)

\* The piece of x bytes, from position a on, that starts after o of them.
Piece(a, x, o) == [at |-> a + o, fin |-> FALSE, data |-> Positions(a + o, Smaller(Mss, x - o))]

\* One of the segments into which tcp_write cuts its data is sound.
LEMMA PieceGood ==
    ASSUME NEW a \in Nat, NEW x \in Nat, a + x <= Total, NEW o \in Nat, o < x
    PROVE  /\ Piece(a, x, o) \in Segments
           /\ Piece(a, x, o).fin = FALSE /\ Piece(a, x, o).at = a + o
           /\ Len(Piece(a, x, o).data) = Smaller(Mss, x - o)
           /\ Smaller(Mss, x - o) \in 1 .. Mss
           /\ Piece(a, x, o).data = Positions(a + o, Smaller(Mss, x - o))
           /\ End(Piece(a, x, o)) = a + o + Smaller(Mss, x - o)
           /\ a + o + Smaller(Mss, x - o) <= a + x
<1> DEFINE n == Smaller(Mss, x - o)
           d == Positions(a + o, n)
<1>1. n \in 1 .. Mss /\ n \in Nat /\ a + o \in Nat /\ a + o + n <= a + x /\ a + o + n <= Total
      /\ a + o \in 0 .. Total
  BY Constants DEF Smaller
<1> HIDE DEF n
<1>2. d \in Seq(0 .. Total - 1)
  BY <1>1, PositionsType
<1>3. Len(d) = n
  BY <1>1, PositionsLen
<1> HIDE DEF d
<1>4. Piece(a, x, o) = [at |-> a + o, fin |-> FALSE, data |-> d]
  BY DEF Piece, n, d
<1>5. Piece(a, x, o) \in Segments
  BY <1>1, <1>2, <1>4 DEF Segments
<1> QED BY <1>1, <1>3, <1>4, <1>5 DEF End, n, d

Cut(a, x) == [i \in 1 .. (x + Mss - 1) \div Mss |-> Piece(a, x, (i - 1) * Mss)]

\* The cut has all of the x bytes, each piece its own.
LEMMA CutFacts ==
    ASSUME NEW a \in Nat, NEW x \in Nat, a + x <= Total
    PROVE  /\ Cut(a, x) \in Seq(Segments)
           /\ Bytes(Cut(a, x)) = x
           /\ \A s \in Range(Cut(a, x)) :
                 /\ s.fin = FALSE /\ Len(s.data) \in 1 .. Mss /\ End(s) <= a + x
                 /\ s.data = Positions(s.at, Len(s.data))
           /\ \A b \in a .. a + x - 1 :
                 \E s \in Range(Cut(a, x)) : s.at <= b /\ b < End(s)
<1> SUFFICES ASSUME NEW d, d = (x + Mss - 1) \div Mss,
                    NEW cut, cut = [i \in 1 .. d |-> Piece(a, x, (i - 1) * Mss)]
             PROVE  /\ cut \in Seq(Segments)
                    /\ Bytes(cut) = x
                    /\ \A s \in Range(cut) :
                          /\ s.fin = FALSE /\ Len(s.data) \in 1 .. Mss /\ End(s) <= a + x
                          /\ s.data = Positions(s.at, Len(s.data))
                    /\ \A b \in a .. a + x - 1 :
                          \E s \in Range(cut) : s.at <= b /\ b < End(s)
  BY Zenon DEF Cut
<1>0. Mss \in Nat /\ Mss > 0
  BY Constants
<1>1. /\ d \in Nat /\ x <= d * Mss
      /\ \A i \in 1 .. d : (i - 1) * Mss \in Nat /\ (i - 1) * Mss < x
  BY <1>0, PiecesFacts
<1>2. \A i \in 1 .. d : cut[i] \in Segments
  BY <1>1, PieceGood
<1>3. cut \in Seq(Segments) /\ Len(cut) = d
  <2>1. cut \in [1 .. d -> Segments]
    <3>1. DOMAIN cut = 1 .. d /\ cut = [i \in 1 .. d |-> cut[i]]
      OBVIOUS
    <3> QED BY ONLY <3>1, <1>2
  <2> QED BY ONLY <2>1, <1>1
<1>4. Bytes(cut) = x
  <2> DEFINE f == [i \in 0 .. Len(cut) |-> Smaller(i * Mss, x)]
  <2>1. ASSUME NEW i \in 0 .. d, i # 0
        PROVE  Smaller(i * Mss, x) = Smaller((i - 1) * Mss, x) + Len(cut[i].data)
    <3>1. i \in 1 .. d
      BY <1>1, <2>1
    <3>2. PICK o \in Nat : o = (i - 1) * Mss /\ o < x
      BY <3>1, <1>1
    <3>3. i * Mss = o + Mss
      BY <1>0, <1>1, <3>1, <3>2
    <3>4. Len(cut[i].data) = Smaller(Mss, x - o)
      BY <3>1, <3>2, PieceGood
    <3>5. Smaller(o + Mss, x) = Smaller(o, x) + Smaller(Mss, x - o)
      BY <1>0, <3>2 DEF Smaller
    <3> QED BY ONLY <3>2, <3>3, <3>4, <3>5
  <2>2. Smaller(0 * Mss, x) = 0
    BY <1>0 DEF Smaller
  <2>3. \A i \in 0 .. d : f[i] = IF i = 0 THEN 0 ELSE f[i - 1] + Len(cut[i].data)
    <3>1. \A i \in 0 .. d : f[i] = Smaller(i * Mss, x)
      BY ONLY <1>1, <1>3
    <3>2. SUFFICES ASSUME NEW i \in 0 .. d
                   PROVE  f[i] = IF i = 0 THEN 0 ELSE f[i - 1] + Len(cut[i].data)
      OBVIOUS
    <3> HIDE DEF f
    <3>3. CASE i = 0
      BY ONLY <3>1, <3>3, <2>2, <1>1
    <3>4. CASE i # 0
      <4>1. i - 1 \in 0 .. d
        BY <1>1, <3>4
      <4>2. f[i] = Smaller(i * Mss, x) /\ f[i - 1] = Smaller((i - 1) * Mss, x)
        BY ONLY <3>1, <4>1, i \in 0 .. d
      <4> QED BY <4>2, <2>1, <3>4
    <3> QED BY <3>3, <3>4
  <2>4. IsSum(f, cut)
    <3>1. f = [i \in 0 .. Len(cut) |-> f[i]]
      OBVIOUS
    <3> HIDE DEF f
    <3> QED BY <3>1, <2>3, <1>3 DEF IsSum
  <2>5. f[Len(cut)] = x
    <3>1. f[Len(cut)] = Smaller(d * Mss, x)
      BY <1>1, <1>3
    <3>2. PICK y \in Int : y = d * Mss
      BY <1>0, <1>1
    <3>3. Smaller(y, x) = x
      BY <3>2, <1>1 DEF Smaller
    <3> QED BY <3>1, <3>2, <3>3
  <2> HIDE DEF f
  <2> QED BY <2>4, <2>5, <1>3, BytesIs
<1>5. ASSUME NEW s \in Range(cut)
      PROVE  /\ s.fin = FALSE /\ Len(s.data) \in 1 .. Mss /\ End(s) <= a + x
             /\ s.data = Positions(s.at, Len(s.data))
  <2>1. PICK i \in 1 .. d : s = cut[i]
    BY <1>3, InRange
  <2>2. PICK o \in Nat : o = (i - 1) * Mss /\ o < x
    BY <1>1
  <2>3. s = Piece(a, x, o)
    BY <2>1, <2>2
  <2>4. /\ s.fin = FALSE /\ s.at = a + o /\ Len(s.data) = Smaller(Mss, x - o)
        /\ Smaller(Mss, x - o) \in 1 .. Mss /\ s.data = Positions(a + o, Smaller(Mss, x - o))
        /\ End(s) = a + o + Smaller(Mss, x - o) /\ a + o + Smaller(Mss, x - o) <= a + x
    <3>1. o \in Nat /\ o < x
      BY <2>2
    <3> QED BY <3>1, <2>3, PieceGood, ZenonT(40)
  <2> QED BY ONLY <2>4
<1>6. ASSUME NEW b \in a .. a + x - 1
      PROVE  \E s \in Range(cut) : s.at <= b /\ b < End(s)
  <2>1. PICK y \in Nat : y = b - a /\ y < x
    OBVIOUS
  <2>2. PICK c \in Nat : c = y \div Mss /\ c * Mss <= y /\ y < c * Mss + Mss
    BY <1>0, DivFacts
  <2>3. PICK o \in Nat : o = c * Mss
    BY <1>0, <2>2
  <2>4. c < d
    <3>1. CASE d <= c
      <4>1. d * Mss <= c * Mss
        BY <3>1, <1>0, <1>1, MulMonotone
      <4>2. PICK z \in Int : z = d * Mss
        BY <1>0, <1>1
      <4> QED BY ONLY <4>1, <4>2, <2>1, <2>2, <2>3, <1>1, x \in Nat
    <3> QED BY <3>1, <1>1
  <2>5. c + 1 \in 1 .. d /\ (c + 1) - 1 = c
    BY <2>4, <1>1
  <2>6. cut[c + 1] = Piece(a, x, o)
    BY <2>3, <2>5
  <2>7. o < x /\ y < o + Mss /\ o <= y
    BY <2>1, <2>2, <2>3
  <2>8. Piece(a, x, o).at <= b /\ b < End(Piece(a, x, o))
    <3>1. /\ Piece(a, x, o).at = a + o
          /\ End(Piece(a, x, o)) = a + o + Smaller(Mss, x - o)
      <4>1. o \in Nat /\ o < x /\ a \in Nat /\ x \in Nat /\ a + x <= Total
        BY <2>7
      <4>2. Piece(a, x, o).at = a + o
        BY ONLY <4>1, PieceGood, ZenonT(60)
      <4>3. End(Piece(a, x, o)) = a + o + Smaller(Mss, x - o)
        BY ONLY <4>1, PieceGood, ZenonT(60)
      <4> QED BY ONLY <4>2, <4>3
    <3>2. a + o <= b /\ b < a + o + Smaller(Mss, x - o)
      BY <2>1, <2>7, <1>0 DEF Smaller
    <3> QED BY <3>1, <3>2
  <2>9. cut[c + 1] \in Range(cut)
    BY <2>5, <1>3, InRange
  <2> QED BY <2>6, <2>8, <2>9
<1> QED BY <1>3, <1>4, <1>5, <1>6

\* The last segment with n more bytes.
Fill(s, b, n) == [s EXCEPT !.data = @ \o Positions(b, n)]

FilledFrom(x, s, b, n) ==
    /\ x \in Segments /\ x.at = s.at /\ x.fin = s.fin
    /\ Len(x.data) = Len(s.data) + n /\ End(x) = End(s) + n
    /\ s.data = Positions(s.at, Len(s.data)) /\ End(s) = b
       => x.data = Positions(x.at, Len(x.data))

\* A last segment that is filled up.
LEMMA Filled ==
    ASSUME NEW s \in Segments, NEW b \in Nat, NEW n \in Nat, b + n <= Total
    PROVE  FilledFrom(Fill(s, b, n), s, b, n)
<1> DEFINE x == Fill(s, b, n)
<1>1. /\ s.at \in Nat /\ s.data \in Seq(0 .. Total - 1) /\ Len(s.data) \in Nat
      /\ End(s) = s.at + Len(s.data)
  BY SegFields
<1> DEFINE d == Positions(b, n)
<1>2. d \in Seq(0 .. Total - 1) /\ Len(d) = n
  BY PositionsType, PositionsLen
<1>3. ASSUME s.data = Positions(s.at, Len(s.data)), End(s) = b
      PROVE  s.data \o d = Positions(s.at, Len(s.data) + n)
  <2>1. b = s.at + Len(s.data)
    BY <1>1, <1>3
  <2>2. Positions(s.at, Len(s.data)) \o Positions(s.at + Len(s.data), n)
          = Positions(s.at, Len(s.data) + n)
    BY <1>1, PositionsConcat
  <2> QED BY ONLY <2>1, <2>2, <1>3
<1> HIDE DEF d
<1>4. s.data \o d \in Seq(0 .. Total - 1) /\ Len(s.data \o d) = Len(s.data) + n
  BY <1>1, <1>2, ConcatProperties
<1>5. x = [s EXCEPT !.data = s.data \o d]
  BY DEF d, Segments, Fill
<1> HIDE DEF x
<1>6. x \in Segments /\ x.at = s.at /\ x.fin = s.fin /\ x.data = s.data \o d
  BY ONLY <1>4, <1>5, s \in Segments DEF Segments
<1>7. End(x) = End(s) + n
  <2>1. End(x) = s.at + Len(s.data \o d)
    BY <1>6 DEF End
  <2> QED BY ONLY <1>1, <1>4, <2>1, n \in Nat
<1>8. FilledFrom(x, s, b, n)
  BY ONLY <1>3, <1>4, <1>6, <1>7 DEF FilledFrom
<1> QED BY <1>8 DEF x

Full(q, b, n) == IF n = 0 THEN q ELSE [q EXCEPT ![Len(q)].data = @ \o Positions(b, n)]

\* The unsent queue q of a stream of b bytes, its last segment filled with n more.
FullFrom(f, q, b, n, l, M) ==
    /\ f \in Seq(Segments) /\ Bytes(f) = Bytes(q) + n
    /\ \A s \in Range(f) : Good(s, l, FALSE, M)
    /\ \A s \in Range(q) : \E t \in Range(f) : t.at = s.at /\ End(s) <= End(t)
    /\ M \/ \A i \in b .. b + n - 1 : \E t \in Range(f) : t.at <= i /\ i < End(t)

\* The unsent queue with its last segment filled up.
LEMMA FullFacts ==
    ASSUME NEW q \in Seq(Segments), NEW b \in Nat, NEW n \in Nat, NEW l \in Nat,
           b + n <= l, l <= Total,
           NEW m \in BOOLEAN, NEW M \in BOOLEAN,
           \A s \in Range(q) : Good(s, b, FALSE, m),
           m => M, q # <<>> /\ End(Last(q)) # b => M,
           n > 0 => q # <<>> /\ n + Len(Last(q).data) <= Mss
    PROVE  FullFrom(Full(q, b, n), q, b, n, l, M)
<1> SUFFICES ASSUME NEW f, f = Full(q, b, n)
             PROVE  /\ f \in Seq(Segments) /\ Bytes(f) = Bytes(q) + n
                    /\ \A s \in Range(f) : Good(s, l, FALSE, M)
                    /\ \A s \in Range(q) : \E t \in Range(f) : t.at = s.at /\ End(s) <= End(t)
                    /\ M \/ \A i \in b .. b + n - 1 :
                               \E t \in Range(f) : t.at <= i /\ i < End(t)
  BY Zenon DEF FullFrom
<1>0. \A s \in Range(q) : Good(s, l, FALSE, M)
  <2>1. SUFFICES ASSUME NEW s \in Range(q) PROVE Good(s, l, FALSE, M)
    OBVIOUS
  <2>2. Good(s, b, FALSE, m)
    OBVIOUS
  <2>3. s \in Segments /\ End(s) \in Nat
    BY <2>2, SegFields DEF Good
  <2> QED BY <2>2, <2>3 DEF Good
<1>1. Bytes(q) \in Nat
  BY BytesIs
<1>2. \A s \in Range(q) : End(s) \in Nat /\ s \in Segments
  BY SegFields, InRange
<1>3. CASE n = 0
  <2>1. f = q
    BY <1>3 DEF Full
  <2>2. b .. b + n - 1 = {}
    BY <1>3
  <2>3. \A s \in Range(q) : \E t \in Range(f) : t.at = s.at /\ End(s) <= End(t)
    BY <2>1, <1>2
  <2>4. f \in Seq(Segments) /\ \A s \in Range(f) : Good(s, l, FALSE, M)
    BY ONLY <2>1, <1>0, q \in Seq(Segments)
  <2>5. Bytes(f) = Bytes(q) + n
    BY ONLY <2>1, <1>1, <1>3
  <2>6. \A i \in b .. b + n - 1 : \E t \in Range(f) : t.at <= i /\ i < End(t)
    BY ONLY <2>2
  <2> QED BY ONLY <2>3, <2>4, <2>5, <2>6
<1>4. CASE n > 0
  <2> DEFINE s == Last(q)
             x == Fill(s, b, n)
  <2>1. q # <<>> /\ n + Len(s.data) <= Mss
    BY <1>4
  <2>2. s \in Range(q) /\ s = q[Len(q)] /\ s \in Segments /\ Len(q) \in 1 .. Len(q)
    BY <2>1, InRange
  <2>3. b + n <= Total
    BY Constants
  <2>4. /\ x \in Segments /\ x.at = s.at /\ x.fin = s.fin
        /\ Len(x.data) = Len(s.data) + n /\ End(x) = End(s) + n
        /\ s.data = Positions(s.at, Len(s.data)) /\ End(s) = b
           => x.data = Positions(x.at, Len(x.data))
    <3> HIDE DEF s
    <3>1. FilledFrom(x, s, b, n)
      BY <2>2, <2>3, Filled
    <3> HIDE DEF x
    <3> QED BY <3>1 DEF FilledFrom
  <2>5. f = WithLast(q, x)
    <3>1. f = [q EXCEPT ![Len(q)].data = @ \o Positions(b, n)]
      BY <1>4 DEF Full
    <3>2. [q EXCEPT ![Len(q)].data = @ \o Positions(b, n)]
            = WithLast(q, Fill(q[Len(q)], b, n))
      BY <2>2 DEF WithLast, Fill
    <3> QED BY <3>1, <3>2, <2>2
  <2> HIDE DEF x, s
  <2>6. PICK r \in Seq(Segments) :
               /\ Range(q) = Range(r) \cup {s} /\ Range(f) = Range(r) \cup {x}
               /\ Bytes(q) = Bytes(r) + Len(s.data)
               /\ Bytes(f) = Bytes(r) + Len(x.data)
    <3>1. \E r \in Seq(Segments) :
                 /\ Range(q) = Range(r) \cup {Last(q)}
                 /\ Range(WithLast(q, x)) = Range(r) \cup {x}
                 /\ Bytes(q) = Bytes(r) + Len(Last(q).data)
                 /\ Bytes(WithLast(q, x)) = Bytes(r) + Len(x.data)
      BY <2>1, <2>4, ReplaceLast
    <3> QED BY ONLY <3>1, <2>5, Zenon DEF s
  <2>7. f \in Seq(Segments)
    BY <2>1, <2>4, <2>5, ReplaceLast
  <2>8. /\ s.at \in Nat /\ Len(s.data) \in Nat /\ End(s) \in Nat /\ Bytes(r) \in Nat
        /\ End(s) = s.at + Len(s.data)
    BY <2>2, SegFields, BytesIs
  <2>9. Bytes(f) = Bytes(q) + n
    BY <2>4, <2>6, <2>8
  <2>10. Good(s, b, FALSE, m) /\ Good(s, l, FALSE, M)
    BY <2>2, <1>0
  <2>11. Good(x, l, FALSE, M)
    <3>1. End(s) <= b /\ s.fin = FALSE
      <4>1. s.fin \in BOOLEAN
        BY <2>2, SegFields
      <4> QED BY <4>1, <2>10 DEF Good
    <3>2. End(x) <= l /\ Len(x.data) <= Mss /\ Len(x.data) > 0 /\ x.fin = FALSE
      BY ONLY <3>1, <2>1, <2>4, <2>8, <1>4, b \in Nat, n \in Nat, l \in Nat, b + n <= l, Constants
    <3>3. M \/ x.data = Positions(x.at, Len(x.data))
      <4>1. M \/ (End(s) = b /\ ~ m)
        BY <2>1 DEF s
      <4>2. M \/ s.data = Positions(s.at, Len(s.data))
        BY <2>10 DEF Good
      <4> QED BY <4>1, <4>2, <2>4
    <3> QED BY <3>2, <3>3, <2>4 DEF Good
  <2>12. \A t \in Range(f) : Good(t, l, FALSE, M)
    BY <2>6, <2>11, <1>0
  <2>13. \A y \in Range(q) : \E t \in Range(f) : t.at = y.at /\ End(y) <= End(t)
    <3>1. SUFFICES ASSUME NEW y \in Range(q)
                   PROVE  \E t \in Range(f) : t.at = y.at /\ End(y) <= End(t)
      OBVIOUS
    <3>2. CASE y = s
      <4>1. x.at = s.at /\ End(s) <= End(x)
        BY ONLY <2>4, <2>8, n \in Nat
      <4>2. x \in Range(f)
        BY ONLY <2>6
      <4> QED BY ONLY <3>2, <4>1, <4>2, Zenon
    <3>3. CASE y \in Range(r)
      <4>1. End(y) <= End(y) /\ y \in Range(f)
        <5>1. End(y) \in Nat
          BY <1>2
        <5>2. y \in Range(f)
          BY ONLY <2>6, <3>3
        <5> QED BY ONLY <5>1, <5>2
      <4> QED BY <4>1, Zenon
    <3> QED BY <3>2, <3>3, <2>6
  <2>14. M \/ \A i \in b .. b + n - 1 : \E t \in Range(f) : t.at <= i /\ i < End(t)
    <3>1. CASE M
      BY <3>1
    <3>2. CASE End(s) = b
      <4>1. \A i \in b .. b + n - 1 : x.at <= i /\ i < End(x)
        BY ONLY <3>2, <2>4, <2>8, n \in Nat, b \in Nat, SMTT(30)
      <4>2. x \in Range(f)
        BY ONLY <2>6
      <4> QED BY ONLY <4>1, <4>2, Zenon
    <3> QED BY <3>1, <3>2, <2>1 DEF s
  <2> QED BY ONLY <2>7, <2>9, <2>12, <2>13, <2>14, Zenon
<1>5. n = 0 \/ n > 0
  OBVIOUS
<1> QED BY ONLY <1>3, <1>4, <1>5, Zenon

\* What a handler leaves alone outside the queues.
SameEdges(p, r) == r.lastack = p.lastack /\ r.wl2 = p.wl2 /\ r.sndWnd = p.sndWnd

\* What tcp_write has made of p.
WrittenFrom(w, p, n, m, h, e) ==
    /\ Fine(w, m, h, e) /\ SameEdges(p, w) /\ w.state = "OPEN" /\ w.finq = p.finq
    /\ w.lbb = p.lbb + n

\* A write leaves a sound pcb, unless the last unsent segment is not the end of the
\* stream.
LEMMA WrittenFine ==
    ASSUME NEW m \in BOOLEAN, NEW h \in Nat, NEW e \in BOOLEAN, NEW p, Fine(p, m, h, e),
           p.state = "OPEN",
           NEW n, n \in 1 .. Smaller(p.sndBuf, Total - p.lbb),
           NEW M \in BOOLEAN, m => M, TailMoved(p) => M
    PROVE  WrittenFrom(Written(p, n), p, n, M, h, e)
<1> SUFFICES ASSUME NEW w, w = Written(p, n)
             PROVE  /\ Fine(w, M, h, e) /\ SameEdges(p, w) /\ w.state = "OPEN"
                    /\ w.finq = p.finq /\ w.lbb = p.lbb + n
  BY Zenon DEF WrittenFrom
<1> DEFINE q == p.unsent
           fill == IF q = <<>> THEN 0 ELSE Smaller(n, Mss - Len(Last(q).data))
           from == p.lbb + fill
           x == n - fill
           cut == Cut(from, x)
           full == Full(q, p.lbb, fill)
           l == p.lbb + n
<1>1. p \in Pcbs /\ ~ p.finq /\ Live(p) /\ p.sndBuf + Held(p) = SndBuf /\ Timed(p)
  BY DEF Fine, Live
<1>2. /\ q \in Seq(Segments) /\ p.unacked \in Seq(Segments) /\ p.lbb \in Nat /\ p.lbb <= Total
      /\ p.sndBuf \in Nat /\ Bytes(q) \in Nat /\ Bytes(p.unacked) \in Nat
      /\ p.sndBuf <= SndBuf
  BY <1>1, PcbFields, Constants
<1>3. n \in Nat /\ n > 0 /\ n <= p.sndBuf /\ l <= Total /\ l \in Nat
  <2> DEFINE k == p.sndBuf
             b == p.lbb
  <2>1. n \in 1 .. Smaller(k, Total - b) /\ k \in Nat /\ b \in Nat /\ l = b + n
    BY <1>2
  <2>2. b <= Total
    BY <1>2
  <2> HIDE DEF k, b, l
  <2>3. n \in Nat /\ n > 0 /\ n <= k /\ l <= Total /\ l \in Nat
    BY ONLY <2>1, <2>2, Constants DEF Smaller
  <2> QED BY <2>3 DEF k
<1>4. \A s \in Segs(p) : Good(s, p.lbb, FALSE, m)
  <2>1. p.finq = FALSE
    BY <1>1, PcbFields
  <2> QED BY <2>1 DEF Fine
<1>5. \A s \in Range(q) : Good(s, p.lbb, FALSE, m)
  BY <1>4 DEF Segs
<1>6. /\ fill \in Nat /\ fill <= n
      /\ fill > 0 => q # <<>> /\ fill + Len(Last(q).data) <= Mss
  <2>1. CASE q = <<>>
    BY <2>1, <1>3
  <2>2. CASE q # <<>>
    <3>1. Last(q) \in Range(q)
      BY <1>2, <2>2, InRange
    <3>2. Good(Last(q), p.lbb, FALSE, m)
      BY <3>1, <1>5
    <3>3. Len(Last(q).data) <= Mss /\ Last(q) \in Segments
      BY <3>2 DEF Good
    <3>4. Len(Last(q).data) \in Nat
      BY <3>3, SegFields
    <3> DEFINE k == Len(Last(q).data)
    <3>5. k \in Nat /\ k <= Mss
      BY <3>3, <3>4
    <3>6. fill = Smaller(n, Mss - k)
      BY <2>2
    <3> HIDE DEF k, fill
    <3>7. fill \in Nat /\ fill <= n /\ fill + k <= Mss
      BY ONLY <3>5, <3>6, <1>3, Constants DEF Smaller
    <3> QED BY <2>2, <3>7 DEF k
  <2> QED BY <2>1, <2>2
<1>7. w = [p EXCEPT !.unsent = full \o cut, !.lbb = l, !.sndBuf = p.sndBuf - n]
  BY DEF Written, Cut, Full, Piece
<1>8. from \in Nat /\ x \in Nat /\ from + x = l /\ from + x <= Total /\ p.lbb + fill <= l
  <2> HIDE DEF fill
  <2> QED BY <1>2, <1>3, <1>6, SMTT(30)
<1>9. /\ cut \in Seq(Segments) /\ Bytes(cut) = x
      /\ \A s \in Range(cut) : /\ s.fin = FALSE /\ Len(s.data) \in 1 .. Mss /\ End(s) <= l
                               /\ s.data = Positions(s.at, Len(s.data))
      /\ \A b \in from .. l - 1 : \E s \in Range(cut) : s.at <= b /\ b < End(s)
  <2> HIDE DEF x, from
  <2>3. /\ cut \in Seq(Segments)
        /\ Bytes(cut) = x
        /\ \A s \in Range(cut) :
              /\ s.fin = FALSE /\ Len(s.data) \in 1 .. Mss /\ End(s) <= from + x
              /\ s.data = Positions(s.at, Len(s.data))
        /\ \A b \in from .. from + x - 1 : \E s \in Range(cut) : s.at <= b /\ b < End(s)
    BY ONLY <1>8, CutFacts
  <2> HIDE DEF l
  <2> QED BY ONLY <2>3, <1>8
<1>10. /\ full \in Seq(Segments) /\ Bytes(full) = Bytes(q) + fill
       /\ \A s \in Range(full) : Good(s, l, FALSE, M)
       /\ \A s \in Range(q) : \E t \in Range(full) : t.at = s.at /\ End(s) <= End(t)
       /\ M \/ \A i \in p.lbb .. p.lbb + fill - 1 :
                  \E t \in Range(full) : t.at <= i /\ i < End(t)
  <2>1. m => M
    OBVIOUS
  <2>2. q # <<>> /\ End(Last(q)) # p.lbb => M
    BY DEF TailMoved
  <2> HIDE DEF fill, l
  <2>4. q \in Seq(Segments) /\ p.lbb \in Nat /\ fill \in Nat /\ l \in Nat /\ p.lbb + fill <= l
        /\ l <= Total
    BY <1>2, <1>3, <1>6, <1>8
  <2>5. fill > 0 => q # <<>> /\ fill + Len(Last(q).data) <= Mss
    BY <1>6
  <2> HIDE DEF q
  <2>6. FullFrom(full, q, p.lbb, fill, l, M)
    BY <2>1, <2>2, <2>4, <2>5, <1>5, FullFacts
  <2> HIDE DEF full
  <2> QED BY ONLY <2>6 DEF FullFrom
<1> HIDE DEF fill, full, cut, x, from, l
<1>11. Merges(full \o cut, full, cut)
  BY <1>9, <1>10, ConcatMerges
<1>12. /\ full \o cut \in Seq(Segments) /\ Range(full \o cut) = Range(full) \cup Range(cut)
       /\ Bytes(full \o cut) = Bytes(q) + n
  <2>1. /\ full \o cut \in Seq(Segments) /\ Range(full \o cut) = Range(full) \cup Range(cut)
        /\ Bytes(full \o cut) = Bytes(full) + Bytes(cut)
    BY <1>11 DEF Merges
  <2>2. Bytes(full \o cut) = (Bytes(q) + fill) + (n - fill)
    BY ONLY <2>1, <1>9, <1>10 DEF x
  <2> QED BY ONLY <2>1, <2>2, <1>2, <1>3, <1>6
<1> DEFINE u == full \o cut
<1> HIDE DEF u
<1>13. /\ w \in Pcbs /\ SameEdges(p, w) /\ w.state = "OPEN" /\ w.finq = p.finq /\ w.lbb = l
       /\ w.unsent = u /\ w.unacked = p.unacked /\ w.sndBuf = p.sndBuf - n
       /\ w.rtime = p.rtime /\ w.persist = p.persist
  <2>1. w = [p EXCEPT !.unsent = u, !.lbb = l, !.sndBuf = p.sndBuf - n]
    BY <1>7 DEF u
  <2>2. u \in Seq(Segments) /\ l \in 0 .. Total /\ p.sndBuf - n \in 0 .. SndBuf
    BY <1>2, <1>3, <1>12, Constants, SMTT(30) DEF u
  <2> QED BY ONLY <2>1, <2>2, <1>1, p.state = "OPEN" DEF Pcbs, SameEdges
<1>14. ASSUME NEW s \in Segs(w) PROVE Good(s, w.lbb, w.finq, M)
  <2>0. w.finq = FALSE /\ w.lbb = l
    BY <1>1, <1>13, PcbFields
  <2>1. CASE s \in Range(full)
    BY <2>0, <2>1, <1>10
  <2>2. CASE s \in Range(cut)
    <3>1. s \in Segments
      BY <2>2, <1>9, InRange
    <3>2. /\ s.fin = FALSE /\ Len(s.data) \in 1 .. Mss /\ End(s) <= l
          /\ s.data = Positions(s.at, Len(s.data))
      BY <2>2, <1>9
    <3>3. Good(s, l, FALSE, M)
      BY ONLY <3>1, <3>2, Constants DEF Good
    <3> QED BY <3>3, <2>0
  <2>3. CASE s \in Range(p.unacked)
    <3>1. Good(s, p.lbb, FALSE, m)
      BY <2>3, <1>4 DEF Segs
    <3>2. s \in Segments /\ End(s) \in Nat
      BY <3>1, SegFields DEF Good
    <3>3. End(s) <= l
      BY <3>1, <3>2, <1>2, <1>3 DEF Good, l
    <3>4. Good(s, l, FALSE, M)
      BY ONLY <3>1, <3>3, m => M, TailMoved(p) => M DEF Good
    <3> QED BY <3>4, <2>0
  <2> QED BY <2>1, <2>2, <2>3, <1>12, <1>13 DEF Segs, u
<1>15. w.sndBuf + Held(w) = SndBuf
  <2>1. Held(w) = Bytes(p.unacked) + (Bytes(q) + n)
    BY <1>12, <1>13 DEF Held, u
  <2>2. Held(p) = Bytes(p.unacked) + Bytes(q)
    BY DEF Held
  <2>3. w.sndBuf = p.sndBuf - n
    BY <1>13
  <2> HIDE DEF q
  <2> QED BY ONLY <2>1, <2>2, <2>3, <1>1, <1>2, <1>3
<1>16. Timed(w)
  BY <1>1, <1>13 DEF Timed
<1>17. M \/ Covers(Segs(w), h, w.lbb)
  <2>1. SUFFICES ASSUME ~ M, NEW b \in h .. l - 1
                 PROVE  \E s \in Segs(w) : s.at <= b /\ b < End(s)
    BY <1>13 DEF Covers
  <2>2. b \in Nat
    BY <1>3
  <2>3. Segs(w) = Range(p.unacked) \cup (Range(full) \cup Range(cut))
    BY <1>12, <1>13 DEF Segs, u
  <2>4. CASE b < p.lbb
    <3>1. b \in h .. p.lbb - 1
      BY <2>4, <1>2, <1>3
    <3>2. PICK s \in Segs(p) : s.at <= b /\ b < End(s)
      BY <2>1, <3>1, <1>1 DEF Fine, Covers
    <3>3. CASE s \in Range(p.unacked)
      BY <3>2, <3>3, <2>3
    <3>4. CASE s \in Range(q)
      <4>1. PICK t \in Range(full) : t.at = s.at /\ End(s) <= End(t)
        BY <3>4, <1>10
      <4>2. End(s) \in Nat /\ End(t) \in Nat
        BY <4>1, <3>4, <1>2, <1>10, InRange, SegFields
      <4>3. t.at <= b /\ b < End(t)
        BY ONLY <4>1, <4>2, <3>2, <2>2
      <4> QED BY <4>3, <2>3
    <3> QED BY <3>3, <3>4 DEF Segs
  <2>5. CASE p.lbb <= b /\ b < p.lbb + fill
    <3>1. b \in p.lbb .. p.lbb + fill - 1
      BY <2>2, <2>5, <1>2, <1>6
    <3>2. \E t \in Range(full) : t.at <= b /\ b < End(t)
      BY <3>1, <2>1, <1>10
    <3> QED BY <3>2, <2>3
  <2>6. CASE p.lbb + fill <= b
    <3>1. b \in from .. l - 1
      BY <2>2, <2>6, <1>3, <1>8 DEF from
    <3>2. \E s \in Range(cut) : s.at <= b /\ b < End(s)
      BY <3>1, <1>9
    <3> QED BY <3>2, <2>3
  <2> QED BY ONLY <2>2, <2>4, <2>5, <2>6, <1>2, <1>6
<1>18. Fine(w, M, h, e)
  BY ONLY <1>1, <1>13, <1>14, <1>15, <1>16, <1>17, Zenon DEF Fine
<1> QED BY <1>13, <1>18 DEF l

-----------------------------------------------------------------------------
(* tcp_send_fin. *)

WithFin(s) == [s EXCEPT !.fin = TRUE]

\* The FIN changes neither the place nor the data of a segment.
LEMMA FinSegment ==
    ASSUME NEW s \in Segments
    PROVE  /\ WithFin(s) \in Segments /\ WithFin(s).at = s.at /\ WithFin(s).data = s.data
           /\ WithFin(s).fin = TRUE /\ End(WithFin(s)) = End(s)
BY DEF WithFin, Segments, End

\* The unsent queue of Fin.
FinQueue(q, b) == IF q # <<>> THEN [q EXCEPT ![Len(q)].fin = TRUE]
                  ELSE <<[at |-> b, data |-> <<>>, fin |-> TRUE]>>

FinFrom(f, q, b, M) ==
    /\ f \in Seq(Segments) /\ Bytes(f) = Bytes(q)
    /\ \A s \in Range(f) : Good(s, b, TRUE, M)
    /\ \A s \in Range(q) : \E t \in Range(f) : t.at = s.at /\ End(s) = End(t)
    /\ \E t \in Range(f) : t.fin

\* The unsent queue that tcp_send_fin leaves.
LEMMA FinFacts ==
    ASSUME NEW q \in Seq(Segments), NEW b \in Nat, b <= Total,
           NEW m \in BOOLEAN, NEW M \in BOOLEAN,
           \A s \in Range(q) : Good(s, b, FALSE, m),
           m => M, q # <<>> /\ End(Last(q)) # b => M
    PROVE  FinFrom(FinQueue(q, b), q, b, M)
<1> DEFINE f == FinQueue(q, b)
<1>0. \A s \in Range(q) : Good(s, b, TRUE, M) /\ s.fin = FALSE
  <2>1. SUFFICES ASSUME NEW s \in Range(q) PROVE Good(s, b, TRUE, M) /\ s.fin = FALSE
    OBVIOUS
  <2>2. Good(s, b, FALSE, m)
    OBVIOUS
  <2>3. s.fin \in BOOLEAN
    BY <2>2, SegFields DEF Good
  <2> QED BY <2>2, <2>3 DEF Good
<1>1. CASE q = <<>>
  <2> DEFINE s == [at |-> b, data |-> <<>>, fin |-> TRUE]
  <2>1. f = <<s>>
    BY <1>1 DEF FinQueue
  <2>2. s \in Segments
    <3>1. <<>> \in Seq(0 .. Total - 1)
      BY EmptySeq
    <3> QED BY <3>1, Constants DEF Segments
  <2>3. s.at = b /\ s.data = <<>> /\ s.fin = TRUE /\ Len(s.data) = 0
    BY EmptySeq
  <2>4. Positions(b, 0) = <<>>
    <3>1. Positions(b, 0) \in Seq(Nat) /\ Len(Positions(b, 0)) = 0
      BY PositionsLen
    <3> QED BY <3>1, EmptySeq
  <2> HIDE DEF s, f
  <2>5. End(s) = b
    BY <2>3 DEF End
  <2>6. Good(s, b, TRUE, M)
    BY <2>2, <2>3, <2>4, <2>5, Constants DEF Good
  <2>7. <<s>> \in Seq(Segments)
    BY <2>2
  <2>8. Range(<<s>>) = {s}
    <3>1. Range(<<s>>) = {<<s>>[i] : i \in 1 .. Len(<<s>>)}
      BY <2>7, RangeEquality
    <3>2. Len(<<s>>) = 1 /\ <<s>>[1] = s
      OBVIOUS
    <3> QED BY <3>1, <3>2
  <2>9. Bytes(f) = 0 /\ Bytes(q) = 0
    <3>1. Bytes(Append(<<>>, s)) = Bytes(<<>>) + Len(s.data)
      BY <2>2, EmptySeq, BytesAppend
    <3>2. Append(<<>>, s) = <<s>>
      OBVIOUS
    <3> QED BY <3>1, <3>2, <2>1, <2>3, <1>1, BytesEmpty
  <2>10. Range(q) = {}
    <3>1. Range(q) = {q[i] : i \in 1 .. Len(q)}
      BY RangeEquality
    <3>2. Len(q) = 0
      BY <1>1, EmptySeq
    <3>3. 1 .. Len(q) = {}
      BY <3>2
    <3> QED BY ONLY <3>1, <3>3
  <2>11. FinFrom(f, q, b, M)
    BY ONLY <2>1, <2>3, <2>6, <2>7, <2>8, <2>9, <2>10 DEF FinFrom
  <2> QED BY <2>11 DEF f
<1>2. CASE q # <<>>
  <2> DEFINE s == Last(q)
             x == WithFin(s)
  <2>1. s \in Range(q) /\ s = q[Len(q)] /\ s \in Segments /\ Len(q) \in 1 .. Len(q)
    BY <1>2, InRange
  <2>2. x \in Segments /\ x.at = s.at /\ x.data = s.data /\ x.fin = TRUE /\ End(x) = End(s)
    <3> HIDE DEF s
    <3> QED BY <2>1, FinSegment
  <2>3. f = WithLast(q, x)
    <3>1. f = [q EXCEPT ![Len(q)].fin = TRUE]
      BY <1>2 DEF FinQueue
    <3>2. [q EXCEPT ![Len(q)].fin = TRUE] = WithLast(q, WithFin(q[Len(q)]))
      BY <2>1 DEF WithLast, WithFin
    <3> QED BY <3>1, <3>2, <2>1
  <2> HIDE DEF x, s, f
  <2>4. PICK r \in Seq(Segments) :
               /\ Range(q) = Range(r) \cup {s} /\ Range(f) = Range(r) \cup {x}
               /\ Bytes(q) = Bytes(r) + Len(s.data)
               /\ Bytes(f) = Bytes(r) + Len(x.data)
    <3>1. \E r \in Seq(Segments) :
                 /\ Range(q) = Range(r) \cup {Last(q)}
                 /\ Range(WithLast(q, x)) = Range(r) \cup {x}
                 /\ Bytes(q) = Bytes(r) + Len(Last(q).data)
                 /\ Bytes(WithLast(q, x)) = Bytes(r) + Len(x.data)
      BY <1>2, <2>2, ReplaceLast
    <3> QED BY ONLY <3>1, <2>3, Zenon DEF s
  <2>5. f \in Seq(Segments)
    BY <1>2, <2>2, <2>3, ReplaceLast
  <2>6. Good(x, b, TRUE, M)
    <3>1. Good(s, b, TRUE, M) /\ (M \/ End(s) = b)
      BY <1>0, <2>1, <1>2 DEF s
    <3> QED BY ONLY <3>1, <2>2 DEF Good
  <2>7. \A t \in Range(f) : Good(t, b, TRUE, M)
    BY <1>0, <2>4, <2>6
  <2>8. \A y \in Range(q) : \E t \in Range(f) : t.at = y.at /\ End(y) = End(t)
    BY ONLY <2>2, <2>4, Zenon
  <2>9. \E t \in Range(f) : t.fin
    BY ONLY <2>2, <2>4, Zenon
  <2>10. Bytes(f) = Bytes(q)
    BY <2>2, <2>4
  <2>11. FinFrom(f, q, b, M)
    BY ONLY <2>5, <2>7, <2>8, <2>9, <2>10, Zenon DEF FinFrom
  <2> QED BY <2>11 DEF f
<1> QED BY <1>1, <1>2

\* What tcp_send_fin has made of p.
FinishedFrom(w, p, m, h, e) ==
    /\ Fine(w, m, h, e) /\ SameEdges(p, w) /\ w.finq = TRUE /\ w.lbb = p.lbb
    /\ Live(w) /\ Live(p) /\ p.finq = FALSE

\* The FIN leaves a sound pcb, unless the last unsent segment is not the end of the
\* stream.
LEMMA FinFine ==
    ASSUME NEW m \in BOOLEAN, NEW h \in Nat, NEW e \in BOOLEAN, NEW p, Fine(p, m, h, e),
           p.state = "OPEN", NEW next, next \in {"FIN_WAIT_1", "LAST_ACK"},
           NEW M \in BOOLEAN, m => M, TailMoved(p) => M
    PROVE  FinishedFrom(Fin(p, next), p, M, h, e)
<1> SUFFICES ASSUME NEW w, w = Fin(p, next)
             PROVE  /\ Fine(w, M, h, e) /\ SameEdges(p, w) /\ w.finq = TRUE
                    /\ w.lbb = p.lbb /\ Live(w) /\ Live(p) /\ p.finq = FALSE
  BY Zenon DEF FinishedFrom
<1> DEFINE q == p.unsent
           u == FinQueue(q, p.lbb)
<1>1. p \in Pcbs /\ p.finq = FALSE /\ Live(p) /\ p.sndBuf + Held(p) = SndBuf /\ Timed(p)
  BY PcbFields DEF Fine, Live
<1>2. /\ q \in Seq(Segments) /\ p.unacked \in Seq(Segments) /\ p.lbb \in Nat /\ p.lbb <= Total
  BY <1>1, PcbFields, Constants
<1>3. \A s \in Segs(p) : Good(s, p.lbb, FALSE, m)
  BY <1>1 DEF Fine
<1>4. \A s \in Range(q) : Good(s, p.lbb, FALSE, m)
  BY <1>3 DEF Segs
<1>5. FinFrom(u, q, p.lbb, M)
  <2>1. q # <<>> /\ End(Last(q)) # p.lbb => M
    BY DEF TailMoved
  <2> HIDE DEF q
  <2> QED BY <2>1, <1>2, <1>4, FinFacts
<1>6. w = [p EXCEPT !.unsent = u, !.finq = TRUE, !.closepend = FALSE, !.state = next]
  BY DEF Fin, FinQueue
<1> HIDE DEF u
<1>7. u \in Seq(Segments)
  BY <1>5 DEF FinFrom
<1>8. /\ w \in Pcbs /\ SameEdges(p, w) /\ w.state = next /\ w.finq = TRUE /\ w.lbb = p.lbb
      /\ w.unsent = u /\ w.unacked = p.unacked /\ w.sndBuf = p.sndBuf
      /\ w.rtime = p.rtime /\ w.persist = p.persist
  BY ONLY <1>1, <1>6, <1>7, next \in {"FIN_WAIT_1", "LAST_ACK"} DEF Pcbs, SameEdges, States
<1>9. Segs(w) = Range(p.unacked) \cup Range(u)
  BY <1>8 DEF Segs
<1>10. ASSUME NEW s \in Segs(w) PROVE Good(s, w.lbb, w.finq, M)
  <2>1. CASE s \in Range(u)
    BY <2>1, <1>5, <1>8 DEF FinFrom
  <2>2. CASE s \in Range(p.unacked)
    <3>1. Good(s, p.lbb, FALSE, m)
      BY <2>2, <1>3 DEF Segs
    <3>2. Good(s, p.lbb, TRUE, M)
      BY ONLY <3>1, m => M DEF Good
    <3> QED BY <3>2, <1>8
  <2> QED BY <2>1, <2>2, <1>9
<1>11. w.sndBuf + Held(w) = SndBuf
  <2>1. Held(w) = Held(p)
    BY <1>5, <1>8 DEF Held, FinFrom
  <2> QED BY <2>1, <1>1, <1>8
<1>12. Timed(w)
  BY <1>1, <1>8 DEF Timed
<1>13. M \/ Covers(Segs(w), h, w.lbb)
  <2>1. SUFFICES ASSUME ~ M, NEW b \in h .. p.lbb - 1
                 PROVE  \E s \in Segs(w) : s.at <= b /\ b < End(s)
    BY <1>8 DEF Covers
  <2>2. PICK s \in Segs(p) : s.at <= b /\ b < End(s)
    BY <2>1, <1>1 DEF Fine, Covers
  <2>3. CASE s \in Range(p.unacked)
    BY <2>2, <2>3, <1>9
  <2>4. CASE s \in Range(q)
    <3>1. PICK t \in Range(u) : t.at = s.at /\ End(s) = End(t)
      BY <2>4, <1>5 DEF FinFrom
    <3> QED BY <3>1, <2>2, <1>9
  <2> QED BY <2>3, <2>4 DEF Segs
<1>14. HasFin(Segs(w))
  BY <1>5, <1>9, Zenon DEF HasFin, FinFrom
<1>15. w.state # "OPEN" /\ Live(w)
  BY <1>8 DEF Live
<1>16. Fine(w, M, h, e)
  BY ONLY <1>8, <1>10, <1>11, <1>12, <1>13, <1>14, <1>15, Zenon DEF Fine
<1> QED BY <1>1, <1>8, <1>15, <1>16

-----------------------------------------------------------------------------
(* An acknowledgement comes in. *)

AckType == [ack : Nat, wnd : 0 .. PeerWnd]

\* Nothing beyond h is acknowledged; the window that was announced ends at R.
Edged(p, h, R) == p.lastack <= p.wl2 /\ p.lastack <= h /\ p.wl2 + p.sndWnd <= R

\* A step that leaves the queues as they are, but for the order.
LEMMA FineAlike ==
    ASSUME NEW m \in BOOLEAN, NEW h, NEW e, NEW p, Fine(p, m, h, e), NEW r \in Pcbs,
           Segs(r) = Segs(p), Held(r) = Held(p),
           r.lbb = p.lbb, r.finq = p.finq, r.sndBuf = p.sndBuf,
           r.state = p.state \/ r.state # "OPEN",
           Live(r) => Live(p) /\ Timed(r)
    PROVE  Fine(r, m, h, e)
BY Zenon DEF Fine

\* What a window update changes.
LEMMA WindowFacts ==
    ASSUME NEW p \in Pcbs, NEW a \in AckType, NEW w, w = Window([p EXCEPT !.probes = 0], a)
    PROVE  /\ w \in Pcbs /\ w.unsent = p.unsent /\ w.unacked = p.unacked
           /\ w.lastack = p.lastack /\ w.sndNxt = p.sndNxt /\ w.lbb = p.lbb
           /\ w.sndBuf = p.sndBuf /\ w.rtime = p.rtime /\ w.persist = p.persist
           /\ w.finq = p.finq /\ w.state = p.state
           /\ a.ack \in Nat /\ a.wnd \in Nat
           /\ w.wl2 >= p.wl2 /\ w.wl2 >= a.ack
           /\ \/ w.wl2 = p.wl2 /\ w.sndWnd = p.sndWnd
              \/ w.wl2 = a.ack /\ w.sndWnd = a.wnd
<1> DEFINE o == [p EXCEPT !.probes = 0]
<1>1. a.ack \in Nat /\ a.wnd \in 0 .. PeerWnd /\ a.wnd \in Nat
  BY Constants DEF AckType
<1>2. /\ o \in Pcbs /\ o.unsent = p.unsent /\ o.unacked = p.unacked
      /\ o.lastack = p.lastack /\ o.sndNxt = p.sndNxt /\ o.lbb = p.lbb
      /\ o.sndBuf = p.sndBuf /\ o.rtime = p.rtime /\ o.persist = p.persist
      /\ o.finq = p.finq /\ o.state = p.state
      /\ o.wl2 = p.wl2 /\ o.sndWnd = p.sndWnd /\ p.wl2 \in Nat
  <2>1. 0 \in 0 .. MaxRtx
    BY Constants
  <2> QED BY ONLY <2>1, p \in Pcbs DEF Pcbs
<1>3. w = Window(o, a)
  OBVIOUS
<1> HIDE DEF o
<1>4. CASE o.wl2 < a.ack \/ (o.wl2 = a.ack /\ a.wnd > o.sndWnd)
  <2>1. w = [o EXCEPT !.sndWnd = a.wnd, !.wl2 = a.ack]
    BY <1>3, <1>4 DEF Window
  <2>2. /\ w \in Pcbs /\ w.unsent = o.unsent /\ w.unacked = o.unacked
        /\ w.lastack = o.lastack /\ w.sndNxt = o.sndNxt /\ w.lbb = o.lbb
        /\ w.sndBuf = o.sndBuf /\ w.rtime = o.rtime /\ w.persist = o.persist
        /\ w.finq = o.finq /\ w.state = o.state
        /\ w.wl2 = a.ack /\ w.sndWnd = a.wnd
    BY ONLY <2>1, <1>1, <1>2 DEF Pcbs
  <2>3. a.ack >= p.wl2
    BY <1>1, <1>2, <1>4
  <2> QED BY ONLY <2>2, <2>3, <1>1, <1>2
<1>5. CASE ~ (o.wl2 < a.ack \/ (o.wl2 = a.ack /\ a.wnd > o.sndWnd))
  <2>1. w = o
    BY <1>3, <1>5 DEF Window
  <2>2. p.wl2 >= a.ack
    BY <1>1, <1>2, <1>5
  <2> QED BY ONLY <2>1, <2>2, <1>1, <1>2
<1> QED BY <1>4, <1>5

\* A window update keeps a pcb sound.
LEMMA WindowFine ==
    ASSUME NEW m \in BOOLEAN, NEW h, NEW e, NEW p, Fine(p, m, h, e), NEW a \in AckType,
           NEW w, w = Window([p EXCEPT !.probes = 0], a)
    PROVE  Fine(w, m, h, e)
<1>1. p \in Pcbs
  BY DEF Fine
<1>2. /\ w \in Pcbs /\ w.unsent = p.unsent /\ w.unacked = p.unacked /\ w.lbb = p.lbb
      /\ w.sndBuf = p.sndBuf /\ w.rtime = p.rtime /\ w.persist = p.persist
      /\ w.finq = p.finq /\ w.state = p.state
  BY <1>1, WindowFacts
<1>3. Segs(w) = Segs(p) /\ Held(w) = Held(p) /\ Live(w) = Live(p)
  BY <1>2 DEF Segs, Held, Live
<1>4. Live(w) => Live(p) /\ Timed(w)
  BY <1>2, <1>3 DEF Fine, Timed
<1> QED BY <1>2, <1>3, <1>4, FineAlike

\* Every loss leaves a threshold in its range.
LEMMA HalvedRange ==
    ASSUME NEW p \in Pcbs
    PROVE  Halved(p) \in Mss .. SndBuf + PeerWnd
<1>1. p.cwnd \in Nat /\ p.cwnd <= PeerWnd /\ p.sndWnd \in Nat
  BY PcbFields, Constants, SMTT(30)
<1>2. Smaller(p.cwnd, p.sndWnd) \in Nat /\ Smaller(p.cwnd, p.sndWnd) <= PeerWnd
  BY ONLY <1>1, Constants DEF Smaller
<1> DEFINE n == Smaller(p.cwnd, p.sndWnd)
<1> HIDE DEF n
<1>3. Larger(n \div 2, 2 * Mss) \in Mss .. SndBuf + PeerWnd
  BY ONLY <1>2, Constants DEF Larger, n
<1> QED BY <1>3 DEF Halved, n

\* A fast retransmission keeps a pcb sound.
LEMMA RexmitFastFine ==
    ASSUME NEW m \in BOOLEAN, NEW h, NEW e, NEW p, Fine(p, m, h, e), Live(p),
           NEW r, r = RexmitFast(p)
    PROVE  /\ Fine(r, m, h, e) /\ SameEdges(p, r)
           /\ r.lbb = p.lbb /\ r.finq = p.finq
<1>0. p \in Pcbs /\ Timed(p)
  BY DEF Fine
<1>1. CASE p.unacked = <<>> \/ p.infr
  BY <1>1 DEF RexmitFast, SameEdges
<1>2. CASE p.unacked # <<>> /\ ~ p.infr
  <2> DEFINE s == Head(p.unacked)
             u == Insert(p.unsent, s)
             v == Tail(p.unacked)
             n == Smaller(p.nrtx + 1, MaxRtx)
             t == Halved(p)
             c == Cwnd(t + 3 * Mss)
  <2>1. r = [p EXCEPT !.unacked = v, !.unsent = u, !.nrtx = n, !.ssthresh = t, !.cwnd = c,
                      !.infr = TRUE, !.rtime = TRUE]
    BY <1>2 DEF RexmitFast
  <2>2. p.unacked \in Seq(Segments) /\ p.unsent \in Seq(Segments) /\ p.nrtx \in 0 .. MaxRtx
    BY <1>0, PcbFields
  <2>3. s \in Segments /\ v \in Seq(Segments) /\ p.unacked = <<s>> \o v
    BY <1>2, <2>2, HeadTailProperties
  <2> HIDE DEF s, v
  <2>4. Merges(u, p.unsent, <<s>>)
    BY <2>2, <2>3, InsertMerges
  <2>5. <<s>> \in Seq(Segments)
    BY <2>3
  <2>6. Merges(p.unacked, <<s>>, v)
    <3>1. Merges(<<s>> \o v, <<s>>, v)
      BY <2>3, <2>5, ConcatMerges
    <3> QED BY <3>1, <2>3
  <2> HIDE DEF u
  <2>7. n \in 0 .. MaxRtx
    BY <2>2, Constants DEF Smaller
  <2> HIDE DEF n
  <2>8. u \in Seq(Segments) /\ t \in Mss .. SndBuf + PeerWnd /\ c \in Mss .. PeerWnd
    <3>1. t \in Mss .. SndBuf + PeerWnd
      BY <1>0, HalvedRange
    <3> HIDE DEF t
    <3>2. c \in Mss .. PeerWnd
      BY ONLY <3>1, Constants DEF Cwnd, Smaller
    <3> QED BY <3>1, <3>2, <2>4 DEF Merges
  <2> HIDE DEF c, t
  <2>9. /\ r \in Pcbs /\ r.unacked = v /\ r.unsent = u /\ r.rtime = TRUE
        /\ r.persist = p.persist /\ r.lbb = p.lbb /\ r.finq = p.finq /\ r.sndBuf = p.sndBuf
        /\ r.state = p.state /\ SameEdges(p, r)
    BY ONLY <2>1, <2>3, <2>7, <2>8, <1>0 DEF Pcbs, SameEdges
  <2>10. Segs(r) = Segs(p)
    BY ONLY <2>4, <2>6, <2>9, Zenon DEF Segs, Merges
  <2>11. Held(r) = Held(p)
    <3>1. Bytes(u) = Bytes(p.unsent) + Bytes(<<s>>) /\ Bytes(p.unacked) = Bytes(<<s>>) + Bytes(v)
      BY <2>4, <2>6 DEF Merges
    <3>2. Bytes(p.unsent) \in Nat /\ Bytes(<<s>>) \in Nat /\ Bytes(v) \in Nat
      BY <2>2, <2>3, <2>5, BytesIs
    <3>3. Held(r) = Bytes(v) + Bytes(u) /\ Held(p) = Bytes(p.unacked) + Bytes(p.unsent)
      BY <2>9 DEF Held
    <3> QED BY ONLY <3>1, <3>2, <3>3
  <2>12. Timed(r)
    BY <1>0, <1>2, <2>9 DEF Timed
  <2> QED BY <2>9, <2>10, <2>11, <2>12, FineAlike
<1> QED BY <1>1, <1>2

\* A duplicate acknowledgement keeps a pcb sound.
LEMMA DuplicateFine ==
    ASSUME NEW m \in BOOLEAN, NEW h, NEW e, NEW p, NEW w, Fine(w, m, h, e), Live(w), NEW a,
           NEW r, r = Duplicate(p, w, a)
    PROVE  Fine(r, m, h, e) /\ SameEdges(w, r) /\ r.lbb = w.lbb /\ r.finq = w.finq
<1> DEFINE n == Smaller(w.dupacks + 1, DupAcks)
           c == IF w.dupacks = DupAcks THEN Cwnd(w.cwnd + Mss) ELSE w.cwnd
           d == [w EXCEPT !.dupacks = n, !.cwnd = c]
<1>1. r \in {w, d, RexmitFast(d)}
  BY DEF Duplicate
<1>2. w \in Pcbs
  BY DEF Fine
<1>3. n \in 0 .. DupAcks /\ c \in Mss .. PeerWnd
  <2>1. w.dupacks \in 0 .. DupAcks /\ w.cwnd \in Mss .. PeerWnd
    BY <1>2, PcbFields
  <2> QED BY ONLY <2>1, Constants DEF Smaller, Cwnd
<1> HIDE DEF n, c
<1>4. /\ d \in Pcbs /\ d.unacked = w.unacked /\ d.unsent = w.unsent /\ d.rtime = w.rtime
      /\ d.persist = w.persist /\ d.lbb = w.lbb /\ d.finq = w.finq /\ d.sndBuf = w.sndBuf
      /\ d.state = w.state /\ SameEdges(w, d)
  BY ONLY <1>2, <1>3 DEF Pcbs, SameEdges
<1> HIDE DEF d
<1>5. Segs(d) = Segs(w) /\ Held(d) = Held(w) /\ Live(d) = Live(w) /\ Live(d)
  BY <1>4 DEF Segs, Held, Live
<1>6. Timed(d)
  BY <1>4 DEF Fine, Timed
<1>7. Fine(d, m, h, e)
  BY <1>4, <1>5, <1>6, FineAlike
<1>8. /\ Fine(RexmitFast(d), m, h, e) /\ SameEdges(d, RexmitFast(d))
      /\ RexmitFast(d).lbb = d.lbb /\ RexmitFast(d).finq = d.finq
  BY <1>5, <1>7, RexmitFastFine
<1>9. SameEdges(w, w) /\ SameEdges(w, RexmitFast(d))
  BY <1>4, <1>8 DEF SameEdges
<1> QED BY <1>1, <1>4, <1>7, <1>8, <1>9

\* What tcp_free_acked_segments frees is a prefix that is acknowledged.
LEMMA UnfreedFacts ==
    ASSUME NEW q \in Seq(Segments), NEW ack \in Nat
    PROVE  /\ Unfreed(q, ack) \in Seq(Segments)
           /\ q = <<>> => Unfreed(q, ack) = <<>>
           /\ \E f \in Seq(Segments) : /\ Merges(q, f, Unfreed(q, ack))
                                       /\ \A s \in Range(f) : s.at + TcpLen(s) <= ack
<1> DEFINE K == {k \in 1 .. Len(q) : \A i \in 1 .. k : q[i].at + TcpLen(q[i]) <= ack}
           k == Cardinality(K)
           f == SubSeq(q, 1, k)
           r == SubSeq(q, k + 1, Len(q))
<1>0. Len(q) \in Nat
  BY LenProperties
<1>1. k \in 0 .. Len(q) /\ K = 1 .. k
  <2>1. K \in SUBSET (1 .. Len(q)) /\ \A x \in K : \A i \in 1 .. x : i \in K
    BY <1>0
  <2> HIDE DEF K
  <2> QED BY <1>0, <2>1, PrefixInterval
<1>2. Unfreed(q, ack) = r
  BY DEF Unfreed
<1>3. \A i \in 1 .. k : q[i].at + TcpLen(q[i]) <= ack
  <2>1. \A i \in K : \A j \in 1 .. i : q[j].at + TcpLen(q[j]) <= ack
    OBVIOUS
  <2> HIDE DEF K
  <2>2. \A i \in 1 .. k : i \in K /\ i \in 1 .. i
    BY <1>1
  <2> HIDE DEF k
  <2> QED BY ONLY <2>1, <2>2
<1> HIDE DEF k
<1>4. /\ f \in Seq(Segments) /\ Len(f) = k /\ r \in Seq(Segments)
      /\ Len(r) = Len(q) - k /\ f \o r = q /\ Merges(q, f, r)
  BY <1>1, CutMerges
<1> HIDE DEF r
<1>5. \A s \in Range(f) : s.at + TcpLen(s) <= ack
  <2>1. SUFFICES ASSUME NEW s \in Range(f) PROVE s.at + TcpLen(s) <= ack
    OBVIOUS
  <2>2. \A i \in 1 .. k : f[i] = q[i]
    <3>1. \A i \in 1 .. k : q[i] \in Segments
      <4>1. \A i \in 1 .. k : i \in 1 .. Len(q)
        BY <1>0, <1>1
      <4> QED BY <4>1, ElementOfSeq
    <3>2. k \in Nat /\ k <= Len(q)
      BY <1>0, <1>1
    <3> QED BY <3>1, <3>2, <1>0, SubSeqProperties
  <2> HIDE DEF f
  <2>3. PICK i \in 1 .. k : s = f[i]
    BY <1>4, InRange
  <2> QED BY <2>2, <2>3, <1>3
<1> HIDE DEF f
<1>6. q = <<>> => r = <<>>
  <2>1. SUFFICES ASSUME q = <<>> PROVE r = <<>>
    OBVIOUS
  <2>2. Len(q) = 0
    BY <2>1, EmptySeq
  <2>3. k = 0
    <3> HIDE DEF K
    <3> QED BY <2>2, <1>1
  <2>4. Len(r) = 0
    BY ONLY <2>2, <2>3, <1>4
  <2> QED BY <2>4, <1>4, EmptySeq
<1> QED BY <1>2, <1>4, <1>5, <1>6

\* New data is acknowledged.  Everything the other end has not taken stays.
LEMMA AckedFine ==
    ASSUME NEW m \in BOOLEAN, NEW h \in Nat, NEW e \in BOOLEAN, NEW p, Fine(p, m, h, e), Live(p),
           h <= p.lbb, e /\ ~ m => h = p.lbb,
           NEW a, a.ack \in Nat, a.ack <= h + (IF e THEN 1 ELSE 0),
           NEW grow \in Nat, NEW r, r = Acked(p, a, grow)
    PROVE  /\ Fine(r, m, h, e) /\ r.lastack = a.ack /\ r.wl2 = p.wl2 /\ r.sndWnd = p.sndWnd
           /\ r.lbb = p.lbb /\ r.finq = p.finq
<1> DEFINE v == Unfreed(p.unacked, a.ack)
           u == Unfreed(p.unsent, a.ack)
           b == p.sndBuf + Bytes(Queued(p)) - Bytes(v) - Bytes(u)
           c == Cwnd(Recovered(p) + grow)
           t == (v # <<>>)
<1>0. p \in Pcbs /\ Timed(p) /\ p.sndBuf + Held(p) = SndBuf
  BY DEF Fine
<1>1. /\ p.unacked \in Seq(Segments) /\ p.unsent \in Seq(Segments) /\ p.sndBuf \in Nat
      /\ p.lbb \in Nat /\ p.lbb <= Total /\ Bytes(p.unacked) \in Nat /\ Bytes(p.unsent) \in Nat
      /\ p.cwnd \in Mss .. PeerWnd
  BY <1>0, PcbFields, Constants, SMTT(30)
<1>2. r = [p EXCEPT !.infr = FALSE, !.nrtx = 0, !.dupacks = 0, !.lastack = a.ack, !.cwnd = c,
                    !.unacked = v, !.unsent = u, !.rtime = t, !.sndBuf = b]
  BY DEF Acked
<1>3. v \in Seq(Segments) /\ (p.unacked = <<>> => v = <<>>)
  BY <1>1, UnfreedFacts
<1>4. PICK fv \in Seq(Segments) : /\ Merges(p.unacked, fv, v)
                                  /\ \A s \in Range(fv) : s.at + TcpLen(s) <= a.ack
  BY <1>1, UnfreedFacts
<1>5. u \in Seq(Segments)
  BY <1>1, UnfreedFacts
<1>6. PICK fu \in Seq(Segments) : /\ Merges(p.unsent, fu, u)
                                  /\ \A s \in Range(fu) : s.at + TcpLen(s) <= a.ack
  BY <1>1, UnfreedFacts
<1> HIDE DEF u, v
<1>7. /\ Bytes(u) \in Nat /\ Bytes(v) \in Nat /\ Bytes(fu) \in Nat /\ Bytes(fv) \in Nat
      /\ Bytes(p.unacked) = Bytes(fv) + Bytes(v) /\ Bytes(p.unsent) = Bytes(fu) + Bytes(u)
  <2>1. /\ Bytes(u) \in Nat /\ Bytes(v) \in Nat /\ Bytes(fu) \in Nat /\ Bytes(fv) \in Nat
    BY <1>3, <1>4, <1>5, <1>6, BytesIs
  <2>2. Bytes(p.unacked) = Bytes(fv) + Bytes(v)
    BY <1>4 DEF Merges
  <2>3. Bytes(p.unsent) = Bytes(fu) + Bytes(u)
    BY <1>6 DEF Merges
  <2> QED BY <2>1, <2>2, <2>3
<1>8. Bytes(Queued(p)) = Bytes(p.unacked) + Bytes(p.unsent)
  BY <1>1, BytesConcat DEF Queued
<1>9. b \in 0 .. SndBuf /\ b + Bytes(v) + Bytes(u) = SndBuf
  <2>1. p.sndBuf + (Bytes(p.unacked) + Bytes(p.unsent)) = SndBuf
    BY <1>0 DEF Held
  <2>2. b = p.sndBuf + (Bytes(p.unacked) + Bytes(p.unsent)) - Bytes(v) - Bytes(u)
    BY <1>8
  <2> HIDE DEF b
  <2> DEFINE c0 == p.sndBuf
             x == Bytes(p.unacked)
             x1 == Bytes(fv)
             x2 == Bytes(v)
             y == Bytes(p.unsent)
             y1 == Bytes(fu)
             y2 == Bytes(u)
  <2>3. /\ c0 \in Nat /\ x \in Nat /\ x1 \in Nat /\ x2 \in Nat /\ y \in Nat
        /\ y1 \in Nat /\ y2 \in Nat /\ SndBuf \in Nat
    BY <1>1, <1>7, Constants
  <2>4. x = x1 + x2 /\ y = y1 + y2
    BY <1>7
  <2>5. c0 + (x + y) = SndBuf /\ b = c0 + (x + y) - x2 - y2
    BY <2>1, <2>2
  <2> HIDE DEF c0, x, x1, x2, y, y1, y2
  <2>6. b \in 0 .. SndBuf /\ b + x2 + y2 = SndBuf
    BY ONLY <2>3, <2>4, <2>5
  <2> QED BY <2>6 DEF x2, y2
<1>10. c \in Mss .. PeerWnd /\ t \in BOOLEAN /\ a.ack \in 0 .. Total + 1
  <2>1. Recovered(p) \in Nat /\ Recovered(p) >= Mss
    <3>1. p.cwnd \in Nat /\ p.cwnd >= Mss /\ p.ssthresh \in Nat /\ p.ssthresh >= Mss
      <4>1. p.cwnd \in Mss .. PeerWnd /\ p.ssthresh \in Mss .. SndBuf + PeerWnd
        BY ONLY <1>0, PcbFields
      <4> QED BY ONLY <4>1, Constants
    <3>2. Recovered(p) = p.ssthresh \/ Recovered(p) = p.cwnd
      BY ONLY Zenon DEF Recovered
    <3> QED BY ONLY <3>1, <3>2
  <2>2. c \in Mss .. PeerWnd
    BY ONLY <2>1, Constants, grow \in Nat DEF Cwnd, Smaller
  <2>3. a.ack \in 0 .. Total + 1
    BY <1>1, Constants, SMTT(30)
  <2> QED BY <2>2, <2>3
<1> DEFINE k == a.ack
<1> HIDE DEF b, c, t, k
<1>11. /\ r \in Pcbs /\ r.lastack = a.ack /\ r.wl2 = p.wl2 /\ r.sndWnd = p.sndWnd
       /\ r.lbb = p.lbb /\ r.finq = p.finq /\ r.unacked = v /\ r.unsent = u /\ r.rtime = t
       /\ r.sndBuf = b /\ r.persist = p.persist /\ r.state = p.state
  <2>1. 0 \in 0 .. MaxRtx /\ 0 \in 0 .. DupAcks
    BY Constants
  <2>2. r = [p EXCEPT !.infr = FALSE, !.nrtx = 0, !.dupacks = 0, !.lastack = k, !.cwnd = c,
                      !.unacked = v, !.unsent = u, !.rtime = t, !.sndBuf = b]
    BY <1>2 DEF k
  <2>3. b \in 0 .. SndBuf /\ c \in Mss .. PeerWnd /\ t \in BOOLEAN /\ k \in 0 .. Total + 1
        /\ v \in Seq(Segments) /\ u \in Seq(Segments) /\ p \in Pcbs
    BY <1>0, <1>3, <1>5, <1>9, <1>10 DEF k
  <2>4. /\ r \in Pcbs /\ r.lastack = k /\ r.wl2 = p.wl2 /\ r.sndWnd = p.sndWnd
        /\ r.lbb = p.lbb /\ r.finq = p.finq /\ r.unacked = v /\ r.unsent = u /\ r.rtime = t
        /\ r.sndBuf = b /\ r.persist = p.persist /\ r.state = p.state
    BY ONLY <2>1, <2>2, <2>3 DEF Pcbs
  <2> QED BY <2>4 DEF k
<1>12. /\ Range(p.unacked) = Range(fv) \cup Range(v)
       /\ Range(p.unsent) = Range(fu) \cup Range(u)
  BY <1>4, <1>6 DEF Merges
<1>13. \A s \in Segs(p) : s \in Segs(r) \/ s.at + TcpLen(s) <= a.ack
  BY ONLY <1>4, <1>6, <1>11, <1>12, Zenon DEF Segs
<1>14. Segs(r) \subseteq Segs(p)
  BY ONLY <1>11, <1>12, Zenon DEF Segs
<1>15. \A s \in Segs(r) : Good(s, r.lbb, r.finq, m)
  BY <1>11, <1>14 DEF Fine
<1>16. r.sndBuf + Held(r) = SndBuf
  <2>1. r.sndBuf = b /\ Held(r) = Bytes(v) + Bytes(u)
    BY <1>11 DEF Held
  <2> QED BY ONLY <2>1, <1>7, <1>9, Constants
<1>17. Timed(r)
  BY <1>0, <1>3, <1>11 DEF Timed, t
<1>18. m \/ Covers(Segs(r), h, r.lbb)
  <2>1. SUFFICES ASSUME ~ m, NEW i \in h .. p.lbb - 1
                 PROVE  \E s \in Segs(r) : s.at <= i /\ i < End(s)
    BY <1>11 DEF Covers
  <2>2. ~ e /\ i \in Nat /\ h <= i
    BY <2>1, <1>1
  <2>3. PICK s \in Segs(p) : s.at <= i /\ i < End(s)
    BY <2>1 DEF Fine, Covers
  <2>4. /\ s \in Segments /\ End(s) \in Nat /\ TcpLen(s) \in Nat /\ s.at \in Nat
        /\ s.at + TcpLen(s) >= End(s)
    <3>1. s \in Segments
      BY DEF Fine, Good
    <3>2. /\ End(s) \in Nat /\ TcpLen(s) \in Nat /\ s.at \in Nat /\ Len(s.data) \in Nat
          /\ TcpLen(s) >= Len(s.data) /\ End(s) = s.at + Len(s.data)
      BY <3>1, SegFields
    <3> QED BY ONLY <3>1, <3>2
  <2>5. ~ (s.at + TcpLen(s) <= a.ack)
    <3>1. a.ack <= h
      BY <2>2
    <3> QED BY ONLY <3>1, <2>2, <2>3, <2>4, a.ack \in Nat, h \in Nat
  <2> QED BY <2>3, <2>5, <1>13
<1>19. m \/ (r.finq /\ ~ e => HasFin(Segs(r)))
  <2>1. SUFFICES ASSUME ~ m, p.finq, ~ e PROVE \E s \in Segs(r) : s.fin
    BY <1>11 DEF HasFin
  <2>2. PICK s \in Segs(p) : s.fin
    BY <2>1 DEF Fine, HasFin
  <2>3. Good(s, p.lbb, p.finq, m)
    BY DEF Fine
  <2>4. s \in Segments /\ End(s) = p.lbb
    BY <2>1, <2>2, <2>3 DEF Good
  <2>5. s.at + TcpLen(s) = p.lbb + 1
    <3>1. /\ s.at \in Nat /\ Len(s.data) \in Nat /\ End(s) = s.at + Len(s.data)
          /\ TcpLen(s) = Len(s.data) + 1
      BY <2>2, <2>4, SegFields
    <3> QED BY ONLY <3>1, <2>4, SMTT(30)
  <2>6. ~ (s.at + TcpLen(s) <= a.ack)
    BY <2>1, <2>5, <1>1
  <2> QED BY <2>2, <2>6, <1>13
<1>20. Fine(r, m, h, e)
  <2>1. p.finq => p.state # "OPEN"
    BY DEF Fine
  <2> QED BY ONLY <2>1, <1>11, <1>15, <1>16, <1>17, <1>18, <1>19, Zenon DEF Fine
<1> QED BY <1>11, <1>20

\* The transitions of tcp_process keep a pcb sound.
LEMMA ClosingFine ==
    ASSUME NEW m \in BOOLEAN, NEW h, NEW e, NEW p, Fine(p, m, h, e), Live(p), NEW a,
           NEW r, r = Closing(p, a)
    PROVE  /\ Fine(r, m, h, e) /\ r.lbb = p.lbb /\ r.finq = p.finq
           /\ r.lastack = p.lastack /\ SameEdges(p, r)
<1>0. p \in Pcbs /\ Timed(p)
  BY DEF Fine
<1>1. r = p \/ \E st \in {"FIN_WAIT_2", "CLOSED"} : r = [p EXCEPT !.state = st]
  BY DEF Closing
<1>2. CASE r = p
  BY <1>2 DEF SameEdges
<1>3. ASSUME NEW st \in {"FIN_WAIT_2", "CLOSED"}, r = [p EXCEPT !.state = st]
      PROVE  /\ Fine(r, m, h, e) /\ r.lbb = p.lbb /\ r.finq = p.finq
             /\ r.lastack = p.lastack /\ SameEdges(p, r)
  <2>1. /\ r \in Pcbs /\ r.unacked = p.unacked /\ r.unsent = p.unsent /\ r.rtime = p.rtime
        /\ r.persist = p.persist /\ r.lbb = p.lbb /\ r.finq = p.finq /\ r.sndBuf = p.sndBuf
        /\ r.state = st /\ r.lastack = p.lastack /\ SameEdges(p, r)
    BY ONLY <1>0, <1>3 DEF Pcbs, SameEdges, States
  <2>2. Segs(r) = Segs(p) /\ Held(r) = Held(p) /\ Timed(r)
    BY <1>0, <2>1 DEF Segs, Held, Timed
  <2>3. r.state # "OPEN"
    BY <2>1
  <2> QED BY <2>1, <2>2, <2>3, FineAlike
<1> QED BY <1>1, <1>2, <1>3

\* Whatever acknowledgement comes in, the pcb stays sound, and nothing is acknowledged
\* that the other end has not taken.
LEMMA ProcessFine ==
    ASSUME NEW m \in BOOLEAN, NEW h \in Nat, NEW e \in BOOLEAN, NEW p, Fine(p, m, h, e), Live(p),
           h <= p.lbb, e /\ ~ m => h = p.lbb,
           NEW H \in Nat, H = h + (IF e THEN 1 ELSE 0), NEW R \in Nat, Edged(p, H, R),
           NEW a \in AckType, a.ack <= H, a.ack + a.wnd <= R,
           NEW x \in Process(p, a)
    PROVE  Fine(x, m, h, e) /\ Edged(x, H, R) /\ x.lbb = p.lbb /\ x.finq = p.finq
<1> DEFINE w == Window([p EXCEPT !.probes = 0], a)
<1>0. p \in Pcbs
  BY DEF Fine
<1>1. /\ w \in Pcbs /\ w.unsent = p.unsent /\ w.unacked = p.unacked
      /\ w.lastack = p.lastack /\ w.sndNxt = p.sndNxt /\ w.lbb = p.lbb
      /\ w.sndBuf = p.sndBuf /\ w.rtime = p.rtime /\ w.persist = p.persist
      /\ w.finq = p.finq /\ w.state = p.state
      /\ a.ack \in Nat /\ a.wnd \in Nat
      /\ w.wl2 >= p.wl2 /\ w.wl2 >= a.ack
      /\ \/ w.wl2 = p.wl2 /\ w.sndWnd = p.sndWnd
         \/ w.wl2 = a.ack /\ w.sndWnd = a.wnd
  BY <1>0, WindowFacts
<1>2. Fine(w, m, h, e)
  BY WindowFine
<1>3. \/ x = w
      \/ x = Closing(Duplicate(p, w, a), a)
      \/ ~ (a.ack <= p.lastack) /\ \E g \in Growth(w, a) : x = Closing(Acked(w, a, g), a)
  BY DEF Process
<1> HIDE DEF w
<1>4. Live(w)
  BY <1>1 DEF Live
<1>5. /\ p.lastack \in Nat /\ p.wl2 \in Nat /\ p.sndWnd \in Nat /\ w.wl2 \in Nat
      /\ w.sndWnd \in Nat
  BY <1>0, <1>1, PcbFields, Constants, SMTT(30)
<1>6. w.lastack <= w.wl2 /\ w.lastack <= H /\ w.wl2 + w.sndWnd <= R
  BY <1>1, <1>5 DEF Edged
<1>7. CASE x = w
  BY <1>1, <1>2, <1>6, <1>7 DEF Edged
<1>8. CASE x = Closing(Duplicate(p, w, a), a)
  <2> DEFINE d == Duplicate(p, w, a)
  <2>1. Fine(d, m, h, e) /\ SameEdges(w, d) /\ d.lbb = w.lbb /\ d.finq = w.finq
    BY <1>2, <1>4, DuplicateFine
  <2>2. x = Closing(d, a)
    BY <1>8
  <2>3. Live(d)
    <3>1. d.state = w.state
      BY <1>1 DEF Duplicate, RexmitFast, Pcbs
    <3> QED BY <3>1, <1>4 DEF Live
  <2> HIDE DEF d
  <2>4. Fine(x, m, h, e) /\ x.lbb = d.lbb /\ x.finq = d.finq /\ SameEdges(d, x)
    BY <2>1, <2>2, <2>3, ClosingFine
  <2>5. x.lastack = w.lastack /\ x.wl2 = w.wl2 /\ x.sndWnd = w.sndWnd
    BY <2>1, <2>4 DEF SameEdges
  <2> QED BY <2>1, <2>4, <2>5, <1>1, <1>6 DEF Edged
<1>9. ASSUME NEW g \in Growth(w, a), ~ (a.ack <= p.lastack), x = Closing(Acked(w, a, g), a)
      PROVE  Fine(x, m, h, e) /\ Edged(x, H, R) /\ x.lbb = p.lbb /\ x.finq = p.finq
  <2> DEFINE d == Acked(w, a, g)
  <2>0. h <= w.lbb /\ (e /\ ~ m => h = w.lbb) /\ a.ack <= h + (IF e THEN 1 ELSE 0)
    BY <1>1
  <2>1. /\ Fine(d, m, h, e) /\ d.lastack = a.ack /\ d.wl2 = w.wl2 /\ d.sndWnd = w.sndWnd
        /\ d.lbb = w.lbb /\ d.finq = w.finq
    <3>1. a.ack - w.lastack \in Nat
      BY ONLY <1>1, <1>5, <1>9
    <3>2. g \in Nat
      BY ONLY <1>9, <3>1, Constants DEF Growth, Smaller
    <3> QED BY <1>1, <1>2, <1>4, <2>0, <3>2, AckedFine
  <2>2. x = Closing(d, a)
    BY <1>9
  <2>3. Live(d)
    <3>1. d.state = w.state
      BY <1>1 DEF Acked, Pcbs
    <3> QED BY <3>1, <1>4 DEF Live
  <2> HIDE DEF d
  <2>4. Fine(x, m, h, e) /\ x.lbb = d.lbb /\ x.finq = d.finq /\ SameEdges(d, x)
    BY <2>1, <2>2, <2>3, ClosingFine
  <2>5. x.lastack = a.ack /\ x.wl2 = w.wl2 /\ x.sndWnd = w.sndWnd
    BY <2>1, <2>4 DEF SameEdges
  <2> QED BY <2>1, <2>4, <2>5, <1>1, <1>6 DEF Edged
<1> QED BY <1>3, <1>7, <1>8, <1>9

-----------------------------------------------------------------------------
(* tcp_slowtmr. *)

\* A queue of one segment.
LEMMA Singleton ==
    ASSUME NEW s \in Segments
    PROVE  <<s>> \in Seq(Segments) /\ Range(<<s>>) = {s} /\ Bytes(<<s>>) = Len(s.data)
<1>1. <<s>> \in Seq(Segments)
  OBVIOUS
<1>2. Range(<<s>>) = {s}
  <2>1. Range(<<s>>) = {<<s>>[i] : i \in 1 .. Len(<<s>>)}
    BY <1>1, RangeEquality
  <2>2. Len(<<s>>) = 1 /\ <<s>>[1] = s
    OBVIOUS
  <2> QED BY <2>1, <2>2
<1>3. Bytes(<<s>>) = Len(s.data)
  <2>1. <<>> \in Seq(Segments)
    BY EmptySeq
  <2>2. Bytes(Append(<<>>, s)) = Bytes(<<>>) + Len(s.data)
    BY <2>1, BytesAppend
  <2>3. Append(<<>>, s) = <<s>>
    OBVIOUS
  <2>4. Len(s.data) \in Nat
    BY SegFields
  <2> QED BY <2>2, <2>3, <2>4, BytesEmpty
<1> QED BY <1>1, <1>2, <1>3

\* What a timer has done: a segment with a FIN that was split mangles the stream.
Mangles(p, r, m) == m \/ (Count(r) > Count(p) /\ Head(p.unsent).fin)

Ticked(p, r, m, h, e) ==
    /\ Fine(r.pcb, Mangles(p, r.pcb, m), h, e)
    /\ SentGood(r.sent, p, Mangles(p, r.pcb, m))
    /\ r.pcb.lbb = p.lbb /\ r.pcb.finq = p.finq /\ SameEdges(p, r.pcb)

\* The number of segments is a number.
LEMMA CountNat == ASSUME NEW p \in Pcbs PROVE Count(p) \in Nat
<1> DEFINE x == Len(p.unacked)
           y == Len(p.unsent)
<1>1. x \in Nat /\ y \in Nat
  BY PcbFields
<1>2. Count(p) = x + y
  BY DEF Count
<1> HIDE DEF x, y
<1> QED BY ONLY <1>1, <1>2

\* A result that splits nothing.
LEMMA NoSplit ==
    ASSUME NEW m \in BOOLEAN, NEW h, NEW e, NEW p, NEW r, p \in Pcbs, Fine(r.pcb, m, h, e),
           Count(r.pcb) = Count(p), SentGood(r.sent, p, m),
           r.pcb.lbb = p.lbb, r.pcb.finq = p.finq, SameEdges(p, r.pcb)
    PROVE  Ticked(p, r, m, h, e)
<1>1. Count(p) \in Nat
  BY CountNat
<1>2. Mangles(p, r.pcb, m) = m
  BY <1>1 DEF Mangles
<1> QED BY <1>2, Zenon DEF Ticked

\* A tick at which nothing expires.
LEMMA StillTicked ==
    ASSUME NEW m \in BOOLEAN, NEW h, NEW e, NEW p, Fine(p, m, h, e)
    PROVE  Ticked(p, Result(p, {}), m, h, e)
<1>1. p \in Pcbs
  BY DEF Fine
<1>2. Result(p, {}).pcb = p /\ Result(p, {}).sent = {}
  BY ResultFields
<1>3. SentGood({}, p, m) /\ SameEdges(p, p)
  BY DEF SentGood, SameEdges
<1> QED BY <1>1, <1>2, <1>3, NoSplit

\* A pcb that is removed holds nothing.
LEMMA RemovedFine ==
    ASSUME NEW m \in BOOLEAN, NEW h, NEW e, NEW p, Fine(p, m, h, e), NEW r, r = Removed(p)
    PROVE  /\ Fine(r, m, h, e) /\ ~ Live(r) /\ r.lbb = p.lbb /\ r.finq = p.finq
           /\ SameEdges(p, r) /\ Count(r) = 0
<1>1. p \in Pcbs
  BY DEF Fine
<1>2. <<>> \in Seq(Segments)
  BY EmptySeq
<1>3. r = [p EXCEPT !.state = "REMOVED", !.unsent = <<>>, !.unacked = <<>>,
                    !.rtime = FALSE, !.persist = FALSE]
  BY DEF Removed
<1>4. /\ r \in Pcbs /\ r.state = "REMOVED" /\ r.unsent = <<>> /\ r.unacked = <<>>
      /\ r.lbb = p.lbb /\ r.finq = p.finq /\ SameEdges(p, r)
  BY ONLY <1>1, <1>2, <1>3 DEF Pcbs, States, SameEdges
<1>5. Segs(r) = {}
  <2>1. Range(<<>>) = {}
    <3>1. Range(<<>>) = {<<>>[i] : i \in 1 .. Len(<<>>)}
      BY <1>2, RangeEquality
    <3>2. 1 .. Len(<<>>) = {}
      BY EmptySeq
    <3> QED BY ONLY <3>1, <3>2
  <2> QED BY <2>1, <1>4 DEF Segs
<1>6. ~ Live(r)
  BY <1>4 DEF Live
<1>7. Count(r) = 0
  BY <1>4, EmptySeq DEF Count
<1>8. Fine(r, m, h, e)
  BY <1>4, <1>5, <1>6, Zenon DEF Fine
<1> QED BY <1>4, <1>6, <1>7, <1>8

\* A tick that gives the connection up.
LEMMA RemovedTicked ==
    ASSUME NEW m \in BOOLEAN, NEW h, NEW e, NEW p, Fine(p, m, h, e)
    PROVE  Ticked(p, Result(Removed(p), {}), m, h, e) /\ ~ Live(Removed(p))
<1> DEFINE r == Removed(p)
<1>1. /\ Fine(r, m, h, e) /\ ~ Live(r) /\ r.lbb = p.lbb /\ r.finq = p.finq
      /\ SameEdges(p, r) /\ Count(r) = 0
  BY RemovedFine
<1> HIDE DEF r
<1>2. Count(p) \in Nat
  BY CountNat DEF Fine
<1>3. Mangles(p, r, m) = m
  BY <1>1, <1>2 DEF Mangles
<1>4. Result(r, {}).pcb = r /\ Result(r, {}).sent = {}
  BY ResultFields
<1>5. SentGood({}, p, m)
  BY DEF SentGood
<1>6. Ticked(p, Result(r, {}), m, h, e)
  BY <1>1, <1>3, <1>4, <1>5 DEF Ticked
<1> QED BY <1>1, <1>6 DEF r

\* tcp_zero_window_probe sends one position.
ProbeOf(s) == [at |-> s.at, data |-> SubSeq(s.data, 1, Smaller(1, Len(s.data))),
               fin |-> Smaller(1, Len(s.data)) = 0]

\* A window probe carries one position of the stream.
LEMMA ProbeGood ==
    ASSUME NEW s, NEW b \in Nat, NEW f, NEW m, Good(s, b, f, m)
    PROVE  Good(ProbeOf(s), b, f, m) /\ TcpLen(ProbeOf(s)) = 1
<1> DEFINE n == Smaller(1, Len(s.data))
           d == SubSeq(s.data, 1, n)
           x == ProbeOf(s)
<1>1. /\ s \in Segments /\ s.at \in Nat /\ s.at \in 0 .. Total /\ s.data \in Seq(0 .. Total - 1)
      /\ Len(s.data) \in Nat /\ End(s) = s.at + Len(s.data)
  BY SegFields DEF Good
<1>2. n \in {0, 1} /\ n <= Len(s.data) /\ (n = 0 => Len(s.data) = 0)
  <2>1. \A l \in Nat : LET k == Smaller(1, l) IN k \in {0, 1} /\ k <= l /\ (k = 0 => l = 0)
    BY DEF Smaller
  <2> QED BY ONLY <2>1, <1>1, Zenon
<1>3. x = [at |-> s.at, data |-> d, fin |-> (n = 0)]
  BY DEF ProbeOf
<1> HIDE DEF n, x
<1>4. d \in Seq(0 .. Total - 1) /\ Len(d) = n
  <2>1. \A i \in 1 .. n : s.data[i] \in 0 .. Total - 1
    <3>1. \A i \in 1 .. n : i \in 1 .. Len(s.data)
      BY <1>1, <1>2
    <3> QED BY <3>1, <1>1, ElementOfSeq
  <2> QED BY <2>1, <1>1, <1>2, SubSeqProperties
<1>5. s.data = Positions(s.at, Len(s.data)) => d = Positions(s.at, n)
  <2>1. SUFFICES ASSUME s.data = Positions(s.at, Len(s.data)) PROVE d = Positions(s.at, n)
    OBVIOUS
  <2>2. n \in Nat /\ 1 \in Nat /\ 1 <= 1 /\ 1 <= n + 1 /\ n <= Len(s.data)
    BY <1>1, <1>2
  <2> DEFINE l == Len(s.data)
             k == s.at
  <2>3. l \in Nat /\ k \in Nat /\ n <= l
    BY <1>1, <2>2
  <2> HIDE DEF l, k
  <2>4. SubSeq(Positions(k, l), 1, n) = Positions(k, n)
    BY ONLY <2>2, <2>3, PositionsPrefix
  <2> QED BY <2>1, <2>4, Zenon DEF k, l
<1> HIDE DEF d
<1>6. x \in Segments /\ x.at = s.at /\ x.data = d /\ x.fin = (n = 0)
  <2>1. (n = 0) \in BOOLEAN
    OBVIOUS
  <2> QED BY ONLY <2>1, <1>1, <1>3, <1>4 DEF Segments
<1>7. End(x) = s.at + n /\ Len(x.data) = n
  BY <1>4, <1>6 DEF End
<1>8. TcpLen(x) = 1
  <2>1. TcpLen(x) = n + (IF n = 0 THEN 1 ELSE 0)
    BY <1>6, <1>7 DEF TcpLen
  <2> QED BY ONLY <2>1, <1>2
<1>9. s.at + Len(s.data) <= b /\ Len(s.data) <= Mss /\ (Len(s.data) > 0 \/ s.fin) /\ (s.fin => f)
  BY <1>1 DEF Good
<1>10. /\ x \in Segments /\ Len(x.data) <= Mss /\ End(x) <= b
       /\ Len(x.data) > 0 \/ x.fin
       /\ x.fin => f
  <2>1. n <= Mss /\ s.at + n <= b
    BY ONLY <1>1, <1>2, <1>9, b \in Nat, Constants
  <2>2. n > 0 \/ (n = 0)
    BY <1>2
  <2>3. n = 0 => f
    BY <1>1, <1>2, <1>9
  <2> QED BY <2>1, <2>2, <2>3, <1>6, <1>7
<1>11. m \/ (x.data = Positions(x.at, Len(x.data)) /\ (x.fin => End(x) = b))
  <2>1. SUFFICES ASSUME ~ m
                 PROVE  x.data = Positions(x.at, Len(x.data)) /\ (x.fin => End(x) = b)
    OBVIOUS
  <2>2. s.data = Positions(s.at, Len(s.data)) /\ (s.fin => End(s) = b)
    BY <2>1 DEF Good
  <2>3. x.data = Positions(x.at, Len(x.data))
    BY <2>2, <1>5, <1>6, <1>7
  <2>4. x.fin => End(x) = b
    <3>1. SUFFICES ASSUME n = 0 PROVE s.at + n = b
      BY <1>6, <1>7
    <3>2. Len(s.data) = 0 /\ s.fin
      BY <3>1, <1>2, <1>9
    <3> QED BY ONLY <3>1, <3>2, <2>2, <1>1
  <2> QED BY <2>3, <2>4
<1>12. Good(x, b, f, m)
  BY ONLY <1>10, <1>11 DEF Good
<1> QED BY <1>8, <1>12 DEF x

\* A tick that probes the window.
LEMMA ProbeTicked ==
    ASSUME NEW m \in BOOLEAN, NEW h, NEW e, NEW p, Fine(p, m, h, e), Live(p),
           p.unsent # <<>>, p.probes < MaxRtx
    PROVE  Ticked(p, Probe(p), m, h, e)
<1> DEFINE s == Head(p.unsent)
           x == Larger(p.sndNxt, s.at + 1)
           n == p.probes + 1
           r == [p EXCEPT !.probes = n, !.sndNxt = x]
<1>0. p \in Pcbs /\ Timed(p)
  BY DEF Fine
<1>1. /\ p.unsent \in Seq(Segments) /\ p.probes \in 0 .. MaxRtx /\ p.sndNxt \in 0 .. Total + 1
      /\ p.lbb \in Nat
  BY <1>0, PcbFields, Constants
<1>2. s \in Range(p.unsent) /\ s \in Segments
  BY <1>1, InRange
<1>3. Good(s, p.lbb, p.finq, m)
  BY <1>2 DEF Fine, Segs
<1>4. Probe(p) = Result(r, {ProbeOf(s)})
  BY DEF Probe, ProbeOf
<1>5. s.at \in 0 .. Total
  BY <1>2, SegFields
<1> HIDE DEF s
<1>6. x \in 0 .. Total + 1 /\ n \in 0 .. MaxRtx
  BY <1>1, <1>5, Constants DEF Larger
<1> HIDE DEF x, n
<1>7. /\ r \in Pcbs /\ r.unacked = p.unacked /\ r.unsent = p.unsent /\ r.rtime = p.rtime
      /\ r.persist = p.persist /\ r.lbb = p.lbb /\ r.finq = p.finq /\ r.sndBuf = p.sndBuf
      /\ r.state = p.state /\ SameEdges(p, r)
  BY ONLY <1>0, <1>6 DEF Pcbs, SameEdges
<1> HIDE DEF r
<1>8. Segs(r) = Segs(p) /\ Held(r) = Held(p) /\ Timed(r) /\ Count(r) = Count(p)
  BY <1>0, <1>7 DEF Segs, Held, Timed, Count
<1>9. Fine(r, m, h, e)
  BY <1>7, <1>8, FineAlike
<1>10. Good(ProbeOf(s), p.lbb, p.finq, m) /\ TcpLen(ProbeOf(s)) = 1
  BY <1>1, <1>3, ProbeGood
<1>11. SentGood({ProbeOf(s)}, p, m)
  BY <1>10 DEF SentGood
<1>12. Probe(p).pcb = r /\ Probe(p).sent = {ProbeOf(s)}
  BY <1>4, ResultFields
<1> QED BY <1>0, <1>7, <1>8, <1>9, <1>11, <1>12, NoSplit

\* The two parts of a segment.
Part1(s, n) == [s EXCEPT !.data = SubSeq(@, 1, n)]
Part2(s, n) == [s EXCEPT !.at = @ + n, !.data = SubSeq(@, n + 1, Len(@))]

PartFrom(x, s, a, l) ==
    /\ x \in Segments /\ x.at = a /\ x.fin = s.fin /\ Len(x.data) = l /\ End(x) = a + l
    /\ s.data = Positions(s.at, Len(s.data)) => x.data = Positions(a, l)

\* The two parts of a segment that is split.
LEMMA Parts ==
    ASSUME NEW s \in Segments, End(s) <= Total, NEW n \in Nat, n < Len(s.data)
    PROVE  /\ PartFrom(Part1(s, n), s, s.at, n)
           /\ PartFrom(Part2(s, n), s, s.at + n, Len(s.data) - n)
<1> DEFINE d == s.data
           l == Len(s.data)
           a == s.at
           d1 == SubSeq(d, 1, n)
           d2 == SubSeq(d, n + 1, l)
           x == Part1(s, n)
           y == Part2(s, n)
<1>1. d \in Seq(0 .. Total - 1) /\ l \in Nat /\ a \in 0 .. Total /\ a \in Nat
      /\ End(s) = a + l
  BY SegFields
<1>2. n \in Nat /\ n < l /\ l = Len(d)
  OBVIOUS
<1>3. /\ Part1(s, n) = [s EXCEPT !.data = d1]
      /\ Part2(s, n) = [s EXCEPT !.at = a + n, !.data = d2]
  BY DEF Part1, Part2, Segments
<1>4. a + n \in 0 .. Total /\ a + n \in Nat /\ l - n \in Nat
  BY <1>1, <1>2, Constants
<1> HIDE DEF d, l, a, x, y
<1>5. \A i \in 1 .. l : d[i] \in 0 .. Total - 1
  BY <1>1, <1>2, ElementOfSeq
<1>6. d1 \in Seq(0 .. Total - 1) /\ Len(d1) = n
  BY <1>1, <1>2, <1>5, SubSeqProperties
<1>7. d2 \in Seq(0 .. Total - 1) /\ Len(d2) = l - n
  BY <1>1, <1>2, <1>5, SubSeqProperties
<1>8. d = Positions(a, l) => d1 = Positions(a, n)
  BY <1>1, <1>2, PositionsPrefix
<1>9. d = Positions(a, l) => d2 = Positions(a + n, l - n)
  <2>1. n + 1 \in Nat /\ 1 <= n + 1 /\ n + 1 <= l + 1 /\ l <= l
    BY <1>1, <1>2
  <2>2. SubIs(a, l, n + 1, l)
    BY <2>1, <1>1, PositionsSub
  <2>3. a + (n + 1) - 1 = a + n /\ l - (n + 1) + 1 = l - n
    BY <1>1, <1>2
  <2> QED BY ONLY <2>2, <2>3, Zenon DEF SubIs
<1> HIDE DEF d1, d2
<1>10. s.data = d /\ s.at = a /\ Len(s.data) = l
  BY DEF d, a, l
<1>11. x \in Segments /\ x.at = a /\ x.fin = s.fin /\ x.data = d1
  <2>1. x = [s EXCEPT !.data = d1]
    BY <1>3 DEF x
  <2> QED BY ONLY <2>1, <1>6, <1>10, s \in Segments DEF Segments
<1>12. y \in Segments /\ y.at = a + n /\ y.fin = s.fin /\ y.data = d2
  <2>1. y = [s EXCEPT !.at = a + n, !.data = d2]
    BY <1>3 DEF y
  <2> QED BY ONLY <2>1, <1>4, <1>7, s \in Segments DEF Segments
<1>13. PartFrom(x, s, a, n)
  <2>1. End(x) = a + n
    BY ONLY <1>6, <1>11 DEF End
  <2> QED BY ONLY <2>1, <1>6, <1>8, <1>10, <1>11 DEF PartFrom
<1>14. PartFrom(y, s, a + n, l - n)
  <2>1. End(y) = (a + n) + (l - n)
    BY ONLY <1>7, <1>12 DEF End
  <2> QED BY ONLY <2>1, <1>7, <1>9, <1>10, <1>12 DEF PartFrom
<1> QED BY ONLY <1>10, <1>13, <1>14 DEF x, y

\* tcp_split_unsent_seg.
Splits(p) == p.unsent # <<>> /\ p.sndWnd # 0 /\ Len(Head(p.unsent).data) > p.sndWnd
SplitFrom(w, p, M, h, e) ==
    /\ Fine(w, M, h, e) /\ Count(w) = Count(p) + 1 /\ w.lbb = p.lbb /\ w.finq = p.finq
    /\ SameEdges(p, w) /\ Live(w)

\* A split keeps a pcb sound, unless the segment carries the FIN.
LEMMA SplitFine ==
    ASSUME NEW m \in BOOLEAN, NEW h \in Nat, NEW e, NEW p, Fine(p, m, h, e), Live(p), Splits(p)
    PROVE  SplitFrom(SplitHead(p), p, m \/ Head(p.unsent).fin, h, e)
<1> SUFFICES ASSUME NEW M \in BOOLEAN, M = (m \/ Head(p.unsent).fin),
                    NEW w, w = SplitHead(p)
             PROVE  /\ Fine(w, M, h, e) /\ Count(w) = Count(p) + 1 /\ w.lbb = p.lbb
                    /\ w.finq = p.finq /\ SameEdges(p, w) /\ Live(w)
  <2>1. (m \/ Head(p.unsent).fin) \in BOOLEAN
    OBVIOUS
  <2> QED BY <2>1, Zenon DEF SplitFrom
<1> USE DEF Splits
<1> DEFINE s == Head(p.unsent)
           v == Tail(p.unsent)
           n == p.sndWnd
           l == Len(s.data)
           a == s.at
           x == Part1(s, n)
           y == Part2(s, n)
           u == (<<x>> \o <<y>>) \o v
<1>0. p \in Pcbs /\ Timed(p) /\ p.sndBuf + Held(p) = SndBuf
  BY DEF Fine
<1>1. /\ p.unsent \in Seq(Segments) /\ p.lbb \in Nat /\ p.lbb <= Total /\ n \in Nat /\ n > 0
      /\ p.unacked \in Seq(Segments)
  BY <1>0, PcbFields, Constants
<1>2. s \in Range(p.unsent) /\ s \in Segments /\ v \in Seq(Segments) /\ p.unsent = <<s>> \o v
  BY <1>1, InRange, HeadTailProperties
<1>3. Good(s, p.lbb, p.finq, m)
  BY <1>2 DEF Fine, Segs
<1>4. /\ a \in Nat /\ l \in Nat /\ End(s) = a + l /\ a + l <= p.lbb /\ l <= Mss /\ n < l
      /\ s.fin \in BOOLEAN
      /\ s.fin => p.finq
  BY <1>2, <1>3, SegFields DEF Good
<1>5. End(s) <= Total
  BY <1>1, <1>4, Constants
<1>6. PartFrom(x, s, a, n) /\ PartFrom(y, s, a + n, l - n)
  BY <1>1, <1>2, <1>4, <1>5, Parts
<1>7. w = [p EXCEPT !.unsent = u]
  <2>1. ~ (l <= n)
    BY <1>1, <1>4
  <2>2. w = [p EXCEPT !.unsent = <<x, y>> \o v]
    BY <2>1 DEF SplitHead, Part1, Part2
  <2>3. <<x, y>> = <<x>> \o <<y>>
    OBVIOUS
  <2> QED BY <2>2, <2>3
<1> HIDE DEF x, y
<1>8. /\ x \in Segments /\ x.at = a /\ x.fin = s.fin /\ Len(x.data) = n /\ End(x) = a + n
      /\ s.data = Positions(a, l) => x.data = Positions(a, n)
  BY <1>6 DEF PartFrom
<1>9. /\ y \in Segments /\ y.at = a + n /\ y.fin = s.fin /\ Len(y.data) = l - n
      /\ End(y) = (a + n) + (l - n)
      /\ s.data = Positions(a, l) => y.data = Positions(a + n, l - n)
  BY <1>6 DEF PartFrom
<1>10. s.data = Positions(a, l) \/ m
  BY <1>3 DEF Good
<1> HIDE DEF s, v, n, l, a
<1>11. <<x>> \in Seq(Segments) /\ Range(<<x>>) = {x} /\ Bytes(<<x>>) = n
  BY <1>8, Singleton
<1>12. <<y>> \in Seq(Segments) /\ Range(<<y>>) = {y} /\ Bytes(<<y>>) = l - n
  BY <1>9, Singleton
<1>13. <<s>> \in Seq(Segments) /\ Range(<<s>>) = {s} /\ Bytes(<<s>>) = l
  BY <1>2, Singleton DEF l
<1>14. Merges(<<x>> \o <<y>>, <<x>>, <<y>>)
  BY <1>11, <1>12, ConcatMerges
<1>15. Merges(u, <<x>> \o <<y>>, v)
  BY <1>2, <1>14, ConcatMerges DEF Merges
<1>16. Merges(p.unsent, <<s>>, v)
  BY <1>2, <1>13, ConcatMerges
<1> HIDE DEF u
<1>17. Range(u) = {x, y} \cup Range(v) /\ u \in Seq(Segments)
  <2>1. Range(<<x>> \o <<y>>) = {x} \cup {y}
    BY <1>11, <1>12, <1>14 DEF Merges
  <2> QED BY <2>1, <1>15 DEF Merges
<1>18. Range(p.unsent) = {s} \cup Range(v)
  BY <1>13, <1>16 DEF Merges
<1>19. Bytes(u) = Bytes(p.unsent)
  <2> DEFINE bv == Bytes(v)
  <2>1. bv \in Nat
    BY <1>2, BytesIs
  <2>2. Bytes(u) = (n + (l - n)) + bv
    BY <1>11, <1>12, <1>14, <1>15 DEF Merges
  <2>3. Bytes(p.unsent) = l + bv
    BY <1>13, <1>16 DEF Merges
  <2> HIDE DEF bv
  <2> QED BY ONLY <2>1, <2>2, <2>3, <1>1, <1>4
<1>20. Len(u) = Len(p.unsent) + 1
  <2> DEFINE lv == Len(v)
  <2>1. lv \in Nat
    BY <1>2, LenProperties
  <2>2. Len(u) = Len(<<x>> \o <<y>>) + lv
    BY <1>15 DEF Merges
  <2>3. Len(<<x>> \o <<y>>) = Len(<<x>>) + Len(<<y>>)
    BY <1>14 DEF Merges
  <2>4. Len(p.unsent) = Len(<<s>>) + lv
    BY <1>16 DEF Merges
  <2>5. Len(<<x>>) = 1 /\ Len(<<y>>) = 1 /\ Len(<<s>>) = 1
    OBVIOUS
  <2> HIDE DEF lv
  <2> QED BY ONLY <2>1, <2>2, <2>3, <2>4, <2>5
<1>21. /\ w \in Pcbs /\ w.unacked = p.unacked /\ w.unsent = u /\ w.rtime = p.rtime
       /\ w.persist = p.persist /\ w.lbb = p.lbb /\ w.finq = p.finq /\ w.sndBuf = p.sndBuf
       /\ w.state = p.state /\ SameEdges(p, w)
  BY ONLY <1>0, <1>7, <1>17 DEF Pcbs, SameEdges
<1>22. Segs(w) = Range(p.unacked) \cup {x, y} \cup Range(v)
  BY ONLY <1>17, <1>21, Zenon DEF Segs
<1>23. Segs(p) = Range(p.unacked) \cup {s} \cup Range(v)
  BY ONLY <1>18, Zenon DEF Segs
<1>24. Held(w) = Held(p) /\ Timed(w) /\ Live(w)
  BY <1>0, <1>19, <1>21 DEF Held, Timed, Live
<1>25. Count(w) = Count(p) + 1
  <2>1. Count(w) = Len(p.unacked) + (Len(p.unsent) + 1) /\ Count(p) = Len(p.unacked) + Len(p.unsent)
    BY <1>20, <1>21 DEF Count
  <2> DEFINE k1 == Len(p.unacked)
             k2 == Len(p.unsent)
  <2>2. k1 \in Nat /\ k2 \in Nat
    BY <1>1, LenProperties
  <2>3. Count(w) = k1 + (k2 + 1) /\ Count(p) = k1 + k2
    BY <2>1
  <2> HIDE DEF k1, k2
  <2> QED BY ONLY <2>2, <2>3
<1>26. Good(x, p.lbb, p.finq, M) /\ Good(y, p.lbb, p.finq, M)
  <2>1. M \/ (s.data = Positions(a, l) /\ s.fin = FALSE)
    <3>1. M = (m \/ s.fin)
      BY DEF s
    <3> QED BY ONLY <3>1, <1>4, <1>10
  <2>2. /\ n <= Mss /\ n > 0 /\ a + n <= p.lbb /\ l - n <= Mss /\ l - n > 0
        /\ (a + n) + (l - n) <= p.lbb
    BY ONLY <1>1, <1>4, Constants
  <2>3. Good(x, p.lbb, p.finq, M)
    BY ONLY <2>1, <2>2, <1>4, <1>8 DEF Good
  <2>4. Good(y, p.lbb, p.finq, M)
    BY ONLY <2>1, <2>2, <1>4, <1>9 DEF Good
  <2> QED BY <2>3, <2>4
<1>27. \A t \in Segs(w) : Good(t, w.lbb, w.finq, M)
  <2>1. \A t \in Segs(p) : Good(t, p.lbb, p.finq, m)
    BY DEF Fine
  <2>2. \A t \in Segs(p) : Good(t, p.lbb, p.finq, M)
    BY <2>1 DEF Good
  <2> QED BY ONLY <2>2, <1>21, <1>22, <1>23, <1>26
<1>28. M \/ Covers(Segs(w), h, w.lbb)
  <2>1. SUFFICES ASSUME ~ M, NEW b \in h .. p.lbb - 1
                 PROVE  \E t \in Segs(w) : t.at <= b /\ b < End(t)
    BY <1>21 DEF Covers
  <2>2. b \in Nat
    BY <1>1
  <2>3. PICK t \in Segs(p) : t.at <= b /\ b < End(t)
    BY <2>1 DEF Fine, Covers
  <2>4. CASE t = s
    <3>1. a <= b /\ b < a + l
      BY <2>3, <2>4, <1>4 DEF a
    <3>2. (x.at <= b /\ b < End(x)) \/ (y.at <= b /\ b < End(y))
      BY ONLY <3>1, <2>2, <1>1, <1>4, <1>8, <1>9
    <3> QED BY <3>2, <1>22
  <2>5. CASE t # s
    BY <2>3, <2>5, <1>22, <1>23
  <2> QED BY <2>4, <2>5
<1>29. M \/ (w.finq /\ ~ e => HasFin(Segs(w)))
  <2>1. SUFFICES ASSUME ~ M, p.finq, ~ e PROVE \E t \in Segs(w) : t.fin
    BY <1>21 DEF HasFin
  <2>2. PICK t \in Segs(p) : t.fin
    BY <2>1 DEF Fine, HasFin
  <2>3. t # s
    BY <2>1, <2>2 DEF s
  <2> QED BY <2>2, <2>3, <1>22, <1>23
<1>30. Fine(w, M, h, e)
  <2>1. p.finq => p.state # "OPEN"
    BY DEF Fine
  <2> QED BY ONLY <2>1, <1>0, <1>21, <1>24, <1>27, <1>28, <1>29, Zenon DEF Fine
<1> QED BY <1>21, <1>24, <1>25, <1>30

\* The persist timer, the retransmission timer and the poll.
LEMMA OutputTicked ==
    ASSUME NEW m \in BOOLEAN, NEW h, NEW e, NEW p, p \in Pcbs, NEW w,
           NEW M \in BOOLEAN, Fine(w, M, h, e), M = Mangles(p, w, m),
           w.lbb = p.lbb, w.finq = p.finq, SameEdges(p, w), NEW o \in Output(w)
    PROVE  Ticked(p, o, m, h, e)
<1>1. /\ Fine(o.pcb, M, h, e) /\ Alike(w, o.pcb) /\ Count(o.pcb) = Count(w)
      /\ SentGood(o.sent, w, M)
  BY OutputFine
<1>2. o.pcb.lbb = p.lbb /\ o.pcb.finq = p.finq /\ SameEdges(p, o.pcb)
  BY <1>1 DEF Alike, SameEdges
<1>3. SentGood(o.sent, p, M)
  BY <1>1 DEF SentGood, InWindow, SameEdges
<1>4. Mangles(p, o.pcb, m) = M
  BY <1>1, Zenon DEF Mangles
<1> QED BY <1>1, <1>2, <1>3, <1>4, Zenon DEF Ticked

\* The persist timer expires.
LEMMA PersistTicked ==
    ASSUME NEW m \in BOOLEAN, NEW h \in Nat, NEW e, NEW p, Fine(p, m, h, e), Live(p),
           p.unsent # <<>>, NEW r \in Persist(p)
    PROVE  Ticked(p, r, m, h, e)
<1>0. p \in Pcbs /\ Count(p) \in Nat
  BY CountNat DEF Fine
<1>1. CASE p.probes >= MaxRtx
  <2>1. r = Result(Removed(p), {})
    BY <1>1 DEF Persist
  <2> QED BY <2>1, RemovedTicked
<1>2. CASE ~ (p.probes >= MaxRtx) /\ p.sndWnd = 0
  <2>1. r = Probe(p)
    BY <1>2 DEF Persist
  <2>2. p.probes < MaxRtx
    BY <1>0, <1>2, PcbFields, Constants
  <2> QED BY <2>1, <2>2, ProbeTicked
<1>3. CASE ~ (p.probes >= MaxRtx) /\ p.sndWnd # 0
  <2>1. r = Result(p, {}) \/ r \in Output(SplitHead(p))
    BY <1>3 DEF Persist
  <2>2. CASE r = Result(p, {})
    BY <2>2, StillTicked
  <2>3. CASE r \in Output(SplitHead(p))
    <3>1. CASE Len(Head(p.unsent).data) <= p.sndWnd
      <4>1. SplitHead(p) = p
        BY <3>1 DEF SplitHead
      <4>2. m = Mangles(p, p, m) /\ SameEdges(p, p)
        BY <1>0 DEF Mangles, SameEdges
      <4> QED BY <4>1, <4>2, <2>3, <1>0, OutputTicked
    <3>2. CASE ~ (Len(Head(p.unsent).data) <= p.sndWnd)
      <4> DEFINE w == SplitHead(p)
                 M == (m \/ Head(p.unsent).fin)
      <4>1. Len(Head(p.unsent).data) > p.sndWnd
        <5> DEFINE l == Len(Head(p.unsent).data)
                   n == p.sndWnd
        <5>1. Head(p.unsent) \in Segments
          BY <1>0, PcbFields, InRange
        <5>2. l \in Nat /\ n \in Nat /\ ~ (l <= n)
          <6>1. l \in Nat
            BY <5>1, SegFields
          <6>2. n \in Nat
            BY <1>0, PcbFields, Constants
          <6>3. ~ (l <= n)
            BY <3>2
          <6> QED BY ONLY <6>1, <6>2, <6>3
        <5> HIDE DEF l, n
        <5>3. l > n
          BY ONLY <5>2
        <5> QED BY <5>3 DEF l, n
      <4>2. M \in BOOLEAN
        OBVIOUS
      <4>3. /\ Fine(w, M, h, e) /\ Count(w) = Count(p) + 1 /\ w.lbb = p.lbb /\ w.finq = p.finq
            /\ SameEdges(p, w)
        <5>1. Splits(p)
          BY <4>1, <1>3 DEF Splits
        <5>2. SplitFrom(w, p, M, h, e)
          BY <5>1, SplitFine
        <5> HIDE DEF M, w
        <5> QED BY ONLY <5>2 DEF SplitFrom
      <4> HIDE DEF w
      <4>4. M = Mangles(p, w, m)
        <5>1. Count(w) > Count(p)
          BY <4>3, <1>0
        <5> QED BY ONLY <5>1 DEF Mangles
      <4>5. r \in Output(w)
        BY <2>3 DEF w
      <4> HIDE DEF M
      <4> QED BY <4>2, <4>3, <4>4, <4>5, <1>0, OutputTicked
    <3> QED BY <3>1, <3>2
  <2> QED BY <2>1, <2>2, <2>3
<1> QED BY <1>1, <1>2, <1>3

\* The retransmission timer expires.
LEMMA RtoTicked ==
    ASSUME NEW m \in BOOLEAN, NEW h, NEW e, NEW p, Fine(p, m, h, e), Live(p),
           ~ p.persist, NEW r \in Rto(p)
    PROVE  Ticked(p, r, m, h, e)
<1> DEFINE u == p.unacked \o p.unsent
           n == Smaller(p.nrtx + 1, MaxRtx)
           t == Halved(p)
           w == [p EXCEPT !.unsent = u, !.unacked = <<>>, !.ssthresh = t, !.cwnd = Mss,
                          !.nrtx = n]
<1>0. p \in Pcbs /\ Timed(p)
  BY DEF Fine
<1>1. r = Result(p, {}) \/ r \in Output(w)
  BY DEF Rto
<1>2. p.unacked \in Seq(Segments) /\ p.unsent \in Seq(Segments) /\ p.nrtx \in 0 .. MaxRtx
      /\ <<>> \in Seq(Segments)
  BY <1>0, PcbFields, EmptySeq
<1>3. Merges(u, p.unacked, p.unsent)
  BY <1>2, ConcatMerges
<1>4. n \in 0 .. MaxRtx /\ Mss \in Mss .. PeerWnd /\ t \in Mss .. SndBuf + PeerWnd
  <2>1. t \in Mss .. SndBuf + PeerWnd
    BY <1>0, HalvedRange
  <2> HIDE DEF t
  <2> QED BY <1>2, <2>1, Constants DEF Smaller
<1> HIDE DEF u, n, t
<1>5. u \in Seq(Segments)
  BY <1>3 DEF Merges
<1>6. /\ w \in Pcbs /\ w.unacked = <<>> /\ w.unsent = u /\ w.rtime = p.rtime
      /\ w.persist = p.persist /\ w.lbb = p.lbb /\ w.finq = p.finq /\ w.sndBuf = p.sndBuf
      /\ w.state = p.state /\ SameEdges(p, w)
  BY ONLY <1>0, <1>2, <1>4, <1>5 DEF Pcbs, SameEdges
<1> HIDE DEF w
<1>7. Range(<<>>) = {}
  <2>1. Range(<<>>) = {<<>>[i] : i \in 1 .. Len(<<>>)}
    BY <1>2, RangeEquality
  <2>2. 1 .. Len(<<>>) = {}
    BY EmptySeq
  <2> QED BY ONLY <2>1, <2>2
<1>8. Segs(w) = Segs(p)
  BY ONLY <1>3, <1>6, <1>7, Zenon DEF Segs, Merges
<1>9. Held(w) = Held(p)
  <2> DEFINE k1 == Bytes(p.unacked)
             k2 == Bytes(p.unsent)
  <2>1. k1 \in Nat /\ k2 \in Nat
    BY <1>0, PcbFields
  <2>2. Held(w) = 0 + (k1 + k2) /\ Held(p) = k1 + k2
    BY <1>3, <1>6, BytesEmpty DEF Held, Merges
  <2> HIDE DEF k1, k2
  <2> QED BY ONLY <2>1, <2>2
<1>10. Count(w) = Count(p)
  <2> DEFINE k1 == Len(p.unacked)
             k2 == Len(p.unsent)
  <2>1. k1 \in Nat /\ k2 \in Nat
    BY <1>0, PcbFields
  <2>2. Len(<<>>) = 0
    BY EmptySeq
  <2>3. Count(w) = 0 + (k1 + k2) /\ Count(p) = k1 + k2
    BY <2>2, <1>3, <1>6 DEF Count, Merges
  <2> HIDE DEF k1, k2
  <2> QED BY ONLY <2>1, <2>3
<1>11. Timed(w)
  BY <1>6 DEF Timed
<1>12. Fine(w, m, h, e)
  BY <1>6, <1>8, <1>9, <1>11, FineAlike
<1>13. m = Mangles(p, w, m)
  <2>1. Count(p) \in Nat
    BY <1>0, CountNat
  <2> QED BY <2>1, <1>10 DEF Mangles
<1>14. CASE r \in Output(w)
  BY <1>0, <1>6, <1>12, <1>13, <1>14, OutputTicked
<1>15. CASE r = Result(p, {})
  BY <1>15, StillTicked
<1> QED BY <1>1, <1>14, <1>15

\* tcp_output at the end of a tick.
LEMMA PollTicked ==
    ASSUME NEW m \in BOOLEAN, NEW h, NEW e, NEW p, NEW R,
           \A r \in R : Ticked(p, r, m, h, e) /\ Live(r.pcb), NEW x \in AndOutput(R)
    PROVE  Ticked(p, x, m, h, e) /\ Waiting(x.pcb)
<1>1. PICK r \in R : \E o \in Output(r.pcb) : x = Result(o.pcb, r.sent \cup o.sent)
  BY DEF AndOutput
<1> DEFINE M == Mangles(p, r.pcb, m)
<1>2. PICK o \in Output(r.pcb) : x = Result(o.pcb, r.sent \cup o.sent)
  BY <1>1
<1>3. M \in BOOLEAN
  BY DEF Mangles
<1>4. /\ Fine(r.pcb, M, h, e) /\ Live(r.pcb) /\ SentGood(r.sent, p, M)
      /\ p.lbb = r.pcb.lbb /\ p.finq = r.pcb.finq
      /\ p.lastack = r.pcb.lastack /\ p.sndWnd = r.pcb.sndWnd
      /\ SameEdges(p, r.pcb)
  BY DEF Ticked, SameEdges
<1> HIDE DEF M
<1>5. /\ Fine(x.pcb, M, h, e) /\ Alike(r.pcb, x.pcb) /\ Count(x.pcb) = Count(r.pcb)
      /\ Waiting(x.pcb) /\ SentGood(x.sent, p, M)
  <2>1. x.pcb = o.pcb /\ x.sent = r.sent \cup o.sent
    BY <1>2, ResultFields
  <2>2. /\ Fine(o.pcb, M, h, e) /\ Alike(r.pcb, o.pcb) /\ Count(o.pcb) = Count(r.pcb)
        /\ Waiting(o.pcb) /\ SentGood(o.sent, r.pcb, M)
    BY <1>3, <1>4, OutputFine
  <2>3. SentGood(o.sent, p, M)
    BY <2>2, <1>4 DEF SentGood, InWindow
  <2>4. SentGood(x.sent, p, M)
    BY ONLY <2>1, <2>3, <1>4, Zenon DEF SentGood
  <2> QED BY ONLY <2>1, <2>2, <2>4
<1>6. Mangles(p, x.pcb, m) = M
  BY <1>5 DEF Mangles, M
<1>7. x.pcb.lbb = p.lbb /\ x.pcb.finq = p.finq /\ SameEdges(p, x.pcb)
  BY <1>4, <1>5 DEF Alike, SameEdges
<1> QED BY <1>5, <1>6, <1>7, Zenon DEF Ticked

\* A round of tcp_slowtmr keeps a pcb sound.
LEMMA SlowTickFine ==
    ASSUME NEW m \in BOOLEAN, NEW h \in Nat, NEW e, NEW p, Fine(p, m, h, e), Live(p),
           NEW due \in BOOLEAN, NEW x \in SlowTick(p, due)
    PROVE  Ticked(p, x, m, h, e) /\ (Live(x.pcb) => Waiting(x.pcb))
<1>0. p \in Pcbs
  BY DEF Fine
<1>1. CASE p.nrtx >= MaxRtx
  <2>1. x = Result(Removed(p), {})
    BY <1>1 DEF SlowTick
  <2>2. x.pcb = Removed(p)
    BY <2>1, ResultFields
  <2> QED BY <2>1, <2>2, RemovedTicked
<1>2. CASE ~ (p.nrtx >= MaxRtx) /\ p.persist /\ (p.unacked # <<>> \/ p.unsent = <<>>)
  <2> DEFINE c == [p EXCEPT !.state = "CRASHED"]
  <2>1. x = Result(c, {})
    BY <1>2 DEF SlowTick
  <2>2. /\ c \in Pcbs /\ c.unacked = p.unacked /\ c.unsent = p.unsent /\ c.lbb = p.lbb
        /\ c.finq = p.finq /\ c.sndBuf = p.sndBuf /\ c.state = "CRASHED" /\ SameEdges(p, c)
    BY ONLY <1>0 DEF Pcbs, States, SameEdges
  <2> HIDE DEF c
  <2>3. Segs(c) = Segs(p) /\ Held(c) = Held(p) /\ Count(c) = Count(p) /\ ~ Live(c)
    BY <2>2 DEF Segs, Held, Count, Live
  <2>4. Fine(c, m, h, e)
    <3>1. c.state # "OPEN"
      BY <2>2
    <3> QED BY <3>1, <2>2, <2>3, FineAlike
  <2>5. x.pcb = c /\ x.sent = {}
    BY <2>1, ResultFields
  <2>6. SentGood({}, p, m)
    BY DEF SentGood
  <2> QED BY <2>2, <2>3, <2>4, <2>5, <2>6, <1>0, NoSplit
<1>3. CASE ~ (p.nrtx >= MaxRtx) /\ ~ (p.persist /\ (p.unacked # <<>> \/ p.unsent = <<>>))
  <2> DEFINE r == IF ~ due THEN {Result(p, {})}
                  ELSE IF p.persist THEN Persist(p)
                  ELSE IF p.rtime THEN Rto(p)
                  ELSE {Result(p, {})}
  <2>1. x \in {y \in r : ~ Live(y.pcb)} \/ x \in AndOutput({y \in r : Live(y.pcb)})
    BY <1>3 DEF SlowTick
  <2>2. \A y \in r : Ticked(p, y, m, h, e)
    <3>1. SUFFICES ASSUME NEW y \in r PROVE Ticked(p, y, m, h, e)
      OBVIOUS
    <3>2. CASE y \in Persist(p) /\ p.persist
      BY <3>2, <1>3, PersistTicked
    <3>3. CASE y \in Rto(p) /\ ~ p.persist
      BY <3>3, RtoTicked
    <3>4. CASE y = Result(p, {})
      BY <3>4, StillTicked
    <3>5. p.persist \in BOOLEAN
      BY <1>0, PcbFields
    <3> QED BY <3>2, <3>3, <3>4, <3>5
  <2> HIDE DEF r
  <2>3. CASE x \in {y \in r : ~ Live(y.pcb)}
    BY <2>2, <2>3
  <2>4. CASE x \in AndOutput({y \in r : Live(y.pcb)})
    <3> DEFINE R == {y \in r : Live(y.pcb)}
    <3>1. \A y \in R : Ticked(p, y, m, h, e) /\ Live(y.pcb)
      BY <2>2
    <3> HIDE DEF R
    <3>2. x \in AndOutput(R)
      BY <2>4 DEF R
    <3> QED BY <3>1, <3>2, PollTicked
  <2> QED BY <2>1, <2>3, <2>4
<1> QED BY <1>1, <1>2, <1>3

-----------------------------------------------------------------------------
(* The inductive invariant. *)

Bit(b) == IF b THEN 1 ELSE 0

\* What the other end may have acknowledged, and how far it may have opened its window.
Taken == Len(app) + Bit(ended)
Edge == right + Bit(ended)

\* The other end has a prefix of the stream, within its window.
PeerInv ==
    /\ app \in Seq(0 .. Total - 1) /\ ended \in BOOLEAN /\ mangled \in BOOLEAN
    /\ right \in 0 .. Total + PeerWnd
    /\ Len(app) <= right /\ right <= Len(app) + PeerWnd /\ Len(app) <= pcb.lbb
    /\ ended => pcb.finq
    /\ mangled \/ /\ app = Positions(0, Len(app))
                  /\ ended => Len(app) = pcb.lbb

\* What is on its way is part of the stream, or says what the other end had.
SegOk(s, p, m, r) == Good(s, p.lbb, p.finq, m) /\ (m \/ End(s) <= r \/ TcpLen(s) = 1)
AckOk(a, h, R) == a \in AckType /\ a.ack <= h /\ a.ack + a.wnd <= R

SendInv ==
    /\ Fine(pcb, mangled, Len(app), ended)
    /\ Live(pcb) => Waiting(pcb)
    /\ PeerInv
    /\ \A s \in air : SegOk(s, pcb, mangled, right)
    /\ \A a \in acks : AckOk(a, Taken, Edge)
    /\ Edged(pcb, Taken, Edge)

\* The types that the invariant gives.
LEMMA PeerFields ==
    ASSUME SendInv
    PROVE  /\ pcb \in Pcbs /\ Len(app) \in Nat /\ right \in Nat /\ Taken \in Nat /\ Edge \in Nat
           /\ pcb.lbb \in Nat /\ mangled \in BOOLEAN /\ ended \in BOOLEAN
           /\ Len(app) <= right /\ Len(app) <= pcb.lbb
<1>1. pcb \in Pcbs /\ PeerInv
  BY DEF SendInv, Fine
<1>2. app \in Seq(0 .. Total - 1)
  BY <1>1 DEF PeerInv
<1>3. Len(app) \in Nat
  BY <1>2, LenProperties
<1>4. right \in Nat /\ ended \in BOOLEAN /\ mangled \in BOOLEAN
      /\ Len(app) <= right /\ Len(app) <= pcb.lbb
  BY <1>1, Constants DEF PeerInv
<1>5. Bit(ended) \in Nat
  BY <1>4 DEF Bit
<1>6. Taken \in Nat /\ Edge \in Nat
  <2> DEFINE n == Len(app)
             k == Bit(ended)
  <2>1. n \in Nat /\ k \in Nat /\ Taken = n + k /\ Edge = right + k
    BY <1>3, <1>5 DEF Taken, Edge
  <2> HIDE DEF n, k
  <2> QED BY ONLY <2>1, <1>4
<1>7. pcb.lbb \in Nat
  BY <1>1, PcbFields, Constants
<1> QED BY <1>1, <1>3, <1>4, <1>6, <1>7

\* The invariant holds when the connection is established.
LEMMA InitInv == Init => SendInv
<1>0. SUFFICES ASSUME Init PROVE SendInv
  OBVIOUS
<1>1. PICK w \in {Mss, PeerWnd}, k \in 2 .. 4 :
          /\ pcb = [unsent |-> <<>>, unacked |-> <<>>, lastack |-> 0, sndNxt |-> 0,
                    lbb |-> 0, sndBuf |-> SndBuf, sndWnd |-> w, wl2 |-> 0,
                    cwnd |-> Cwnd(k * Mss), ssthresh |-> SndBuf, rtime |-> FALSE,
                    persist |-> FALSE, probes |-> 0, nrtx |-> 0, dupacks |-> 0,
                    infr |-> FALSE, memerr |-> FALSE, finq |-> FALSE,
                    closepend |-> FALSE, state |-> "OPEN"]
          /\ right = w
  BY <1>0 DEF Init
<1>2. air = {} /\ acks = {} /\ app = <<>> /\ ended = FALSE /\ mangled = FALSE
  BY <1>0 DEF Init
<1> DEFINE c == Cwnd(k * Mss)
<1>3. SndBuf \in Mss .. SndBuf + PeerWnd /\ w \in 0 .. PeerWnd /\ c \in Mss .. PeerWnd /\ w \in Nat /\ w \in 0 .. Total + PeerWnd
  <2>1. k * Mss \in Nat /\ k * Mss >= Mss
    <3>1. k = 2 \/ k = 3 \/ k = 4
      BY <1>1
    <3> QED BY ONLY <3>1, Constants
  <2>2. c \in Mss .. PeerWnd
    BY ONLY <2>1, Constants DEF Cwnd, Smaller
  <2> QED BY <2>2, Constants
<1>4. /\ <<>> \in Seq(Segments) /\ <<>> \in Seq(0 .. Total - 1) /\ Len(<<>>) = 0
      /\ 0 \in 0 .. Total + 1 /\ 0 \in 0 .. Total /\ SndBuf \in 0 .. SndBuf /\ 0 \in 0 .. MaxRtx
      /\ 0 \in 0 .. DupAcks
  BY EmptySeq, Constants
<1> HIDE DEF c
<1>5. pcb = [unsent |-> <<>>, unacked |-> <<>>, lastack |-> 0, sndNxt |-> 0,
             lbb |-> 0, sndBuf |-> SndBuf, sndWnd |-> w, wl2 |-> 0,
             cwnd |-> c, ssthresh |-> SndBuf, rtime |-> FALSE,
             persist |-> FALSE, probes |-> 0, nrtx |-> 0, dupacks |-> 0,
             infr |-> FALSE, memerr |-> FALSE, finq |-> FALSE,
             closepend |-> FALSE, state |-> "OPEN"]
  BY <1>1 DEF c
<1>6. /\ pcb \in Pcbs /\ pcb.unsent = <<>> /\ pcb.unacked = <<>> /\ pcb.lastack = 0
      /\ pcb.lbb = 0 /\ pcb.sndBuf = SndBuf /\ pcb.sndWnd = w /\ pcb.wl2 = 0
      /\ pcb.rtime = FALSE /\ pcb.persist = FALSE /\ pcb.finq = FALSE /\ pcb.state = "OPEN"
  BY ONLY <1>3, <1>4, <1>5 DEF Pcbs, States
<1>7. Range(<<>>) = {}
  <2>1. Range(<<>>) = {<<>>[i] : i \in 1 .. Len(<<>>)}
    BY <1>4, RangeEquality
  <2>2. 1 .. Len(<<>>) = {}
    BY EmptySeq
  <2> QED BY ONLY <2>1, <2>2
<1>8. Segs(pcb) = {}
  BY ONLY <1>6, <1>7 DEF Segs
<1>9. pcb.sndBuf + Held(pcb) = SndBuf
  BY <1>6, BytesEmpty, Constants DEF Held
<1>10. Timed(pcb) /\ Waiting(pcb)
  BY <1>6 DEF Timed, Waiting
<1>11. Covers(Segs(pcb), Len(app), pcb.lbb)
  <2>1. Len(app) .. pcb.lbb - 1 = {}
    BY <1>2, <1>4, <1>6
  <2> QED BY <2>1 DEF Covers
<1>12. Fine(pcb, mangled, Len(app), ended)
  BY ONLY <1>6, <1>8, <1>9, <1>10, <1>11, Zenon DEF Fine
<1>13. PeerInv
  <2>1. Positions(0, 0) = <<>>
    <3>1. Positions(0, 0) \in Seq(Nat) /\ Len(Positions(0, 0)) = 0
      BY PositionsLen
    <3> QED BY <3>1, EmptySeq
  <2>2. Len(app) = 0 /\ app = Positions(0, Len(app)) /\ app \in Seq(0 .. Total - 1)
    BY ONLY <2>1, <1>2, <1>4, Zenon
  <2>3. right \in 0 .. Total + PeerWnd /\ 0 <= right /\ right <= 0 + PeerWnd
    BY ONLY <1>1, <1>3, Constants
  <2>4. 0 <= pcb.lbb
    BY ONLY <1>6
  <2>5. ended \in BOOLEAN /\ mangled \in BOOLEAN /\ ~ ended
    BY <1>2
  <2> QED BY ONLY <2>2, <2>3, <2>4, <2>5, Zenon DEF PeerInv
<1>14. Edged(pcb, Taken, Edge)
  BY <1>1, <1>2, <1>3, <1>4, <1>6 DEF Edged, Taken, Edge, Bit
<1> QED BY <1>2, <1>10, <1>12, <1>13, <1>14 DEF SendInv

\* A step of the sender: q has the windows with which S was sent.
LEMMA PcbStep ==
    ASSUME SendInv, UNCHANGED <<app, right, ended>>, mangled' \in BOOLEAN, mangled => mangled',
           Fine(pcb', mangled', Len(app), ended), Live(pcb') => Waiting(pcb'),
           Edged(pcb', Taken, Edge), acks' \subseteq acks,
           pcb.lbb <= pcb'.lbb, pcb.finq => pcb'.finq, pcb'.lbb = pcb.lbb \/ ~ pcb.finq,
           NEW S, air' \subseteq air \cup S, NEW q \in Pcbs, SentGood(S, q, mangled'),
           q.lbb = pcb'.lbb, q.finq = pcb'.finq, Edged(q, Taken, Edge)
    PROVE  SendInv'
<1>0. /\ pcb \in Pcbs /\ Len(app) \in Nat /\ right \in Nat /\ Taken \in Nat /\ Edge \in Nat
      /\ pcb.lbb \in Nat /\ mangled \in BOOLEAN /\ ended \in BOOLEAN
      /\ Len(app) <= right /\ Len(app) <= pcb.lbb
  BY PeerFields
<1>1. app' = app /\ right' = right /\ ended' = ended
  OBVIOUS
<1>2. Taken' = Taken /\ Edge' = Edge
  BY <1>1 DEF Taken, Edge
<1>3. pcb' \in Pcbs /\ pcb'.lbb \in Nat
  <2>1. pcb' \in Pcbs
    BY DEF Fine
  <2> QED BY <2>1, PcbFields, Constants
<1>4. PeerInv'
  <2>1. /\ app \in Seq(0 .. Total - 1) /\ ended \in BOOLEAN
        /\ right \in 0 .. Total + PeerWnd
        /\ Len(app) <= right /\ right <= Len(app) + PeerWnd /\ Len(app) <= pcb.lbb
        /\ ended => pcb.finq
        /\ mangled \/ /\ app = Positions(0, Len(app))
                      /\ ended => Len(app) = pcb.lbb
    BY DEF SendInv, PeerInv
  <2>2. Len(app) <= pcb'.lbb
    BY <1>0, <1>3
  <2>3. ended => pcb'.finq /\ pcb'.lbb = pcb.lbb
    BY <2>1
  <2> QED BY ONLY <2>1, <2>2, <2>3, <1>1, mangled' \in BOOLEAN, mangled => mangled' DEF PeerInv
<1>5. \A s \in air : SegOk(s, pcb', mangled', right)
  <2>1. SUFFICES ASSUME NEW s \in air PROVE SegOk(s, pcb', mangled', right)
    OBVIOUS
  <2>2. SegOk(s, pcb, mangled, right)
    BY DEF SendInv
  <2>3. s \in Segments /\ End(s) \in Nat
    BY <2>2, SegFields DEF SegOk, Good
  <2>4. /\ Good(s, pcb.lbb, pcb.finq, mangled)
        /\ mangled \/ End(s) <= right \/ TcpLen(s) = 1
    BY <2>2 DEF SegOk
  <2>5. End(s) <= pcb'.lbb
    BY <2>3, <2>4, <1>0, <1>3 DEF Good
  <2>6. s.fin => pcb'.lbb = pcb.lbb
    BY <2>4 DEF Good
  <2>7. Good(s, pcb'.lbb, pcb'.finq, mangled')
    BY ONLY <2>3, <2>4, <2>5, <2>6, mangled => mangled', pcb.finq => pcb'.finq DEF Good
  <2> QED BY <2>4, <2>7 DEF SegOk
<1>6. \A s \in S : SegOk(s, pcb', mangled', right)
  <2>1. SUFFICES ASSUME NEW s \in S PROVE SegOk(s, pcb', mangled', right)
    OBVIOUS
  <2>2. Good(s, pcb'.lbb, pcb'.finq, mangled') /\ (InWindow(q, s) \/ TcpLen(s) = 1)
    BY DEF SentGood
  <2>3. InWindow(q, s) => mangled' \/ End(s) <= right
    <3>1. SUFFICES ASSUME InWindow(q, s), ~ mangled' PROVE End(s) <= right
      OBVIOUS
    <3>2. /\ s \in Segments /\ s.at \in Nat /\ Len(s.data) \in Nat /\ End(s) = s.at + Len(s.data)
          /\ End(s) <= pcb'.lbb
      BY <2>2, SegFields DEF Good
    <3> DEFINE a == s.at
               l == Len(s.data)
               k == q.lastack
               n == q.sndWnd
               j == q.wl2
    <3>3. k \in Nat /\ n \in Nat /\ j \in Nat
      BY PcbFields, Constants
    <3>4. a - k + l <= n
      BY <3>1 DEF InWindow
    <3>5. k <= j /\ j + n <= Edge
      BY DEF Edged
    <3>6. a \in Nat /\ l \in Nat /\ End(s) = a + l /\ a + l <= pcb'.lbb
      BY <3>2
    <3> HIDE DEF a, l, k, n, j
    <3>7. a + l <= Edge
      BY ONLY <3>3, <3>4, <3>5, <3>6, <1>0
    <3>8. CASE ended
      <4>1. Len(app) = pcb.lbb /\ pcb.finq
        BY <3>1, <3>8 DEF SendInv, PeerInv
      <4>2. a + l <= pcb.lbb
        BY <4>1, <3>6
      <4> DEFINE h == Len(app)
      <4>3. h \in Nat /\ h <= right /\ a + l <= h
        BY <4>1, <4>2, <1>0
      <4> HIDE DEF h
      <4> QED BY ONLY <4>3, <3>6, <1>0
    <3>9. CASE ~ ended
      <4>1. Edge = right
        BY <3>9, <1>0 DEF Edge, Bit
      <4> QED BY <4>1, <3>6, <3>7
    <3> QED BY <3>8, <3>9
  <2> QED BY <2>2, <2>3 DEF SegOk
<1>7. \A s \in air' : SegOk(s, pcb', mangled', right')
  BY <1>1, <1>5, <1>6
<1>8. \A a \in acks' : AckOk(a, Taken', Edge')
  BY <1>2 DEF SendInv
<1>9. Edged(pcb', Taken', Edge')
  BY <1>2
<1>10. Fine(pcb', mangled', Len(app'), ended')
  BY <1>1
<1> QED BY <1>4, <1>7, <1>8, <1>9, <1>10 DEF SendInv

-----------------------------------------------------------------------------
(* The actions. *)

\* What a result leaves to Apply.
LEMMA ApplyStep ==
    ASSUME SendInv, UNCHANGED <<app, right, ended>>, acks' \subseteq acks,
           mangled' \in BOOLEAN, mangled => mangled',
           NEW R, Apply(R), NEW q, q \in Pcbs, Edged(q, Taken, Edge),
           pcb.lbb <= q.lbb, pcb.finq => q.finq, q.lbb = pcb.lbb \/ ~ pcb.finq,
           \A r \in R : /\ pcb' = r.pcb =>
                             /\ Fine(r.pcb, mangled', Len(app), ended)
                             /\ Live(r.pcb) => Waiting(r.pcb)
                             /\ SentGood(r.sent, q, mangled')
                        /\ r.pcb.lbb = q.lbb /\ r.pcb.finq = q.finq /\ SameEdges(q, r.pcb)
    PROVE  SendInv'
<1>1. PICK r \in R : pcb' = r.pcb /\ \E arrives \in SUBSET r.sent : air' = air \cup arrives
  BY DEF Apply
<1>2. air' \subseteq air \cup r.sent
  BY <1>1
<1>3. /\ Fine(pcb', mangled', Len(app), ended) /\ (Live(pcb') => Waiting(pcb'))
      /\ SentGood(r.sent, q, mangled')
      /\ pcb'.lbb = q.lbb /\ pcb'.finq = q.finq /\ SameEdges(q, pcb')
  BY <1>1
<1>4. Edged(pcb', Taken, Edge)
  BY <1>3 DEF Edged, SameEdges
<1> QED BY <1>2, <1>3, <1>4, PcbStep

\* tcp_output after a handler has left w.
LEMMA OutputStep ==
    ASSUME SendInv, UNCHANGED <<app, right, ended>>, acks' \subseteq acks,
           mangled' \in BOOLEAN, mangled => mangled',
           NEW w, Fine(w, mangled', Len(app), ended), Live(w), Apply(Output(w)),
           Edged(w, Taken, Edge),
           pcb.lbb <= w.lbb, pcb.finq => w.finq, w.lbb = pcb.lbb \/ ~ pcb.finq
    PROVE  SendInv'
<1>1. w \in Pcbs
  BY DEF Fine
<1>2. ASSUME NEW r \in Output(w)
      PROVE  /\ Fine(r.pcb, mangled', Len(app), ended)
             /\ Waiting(r.pcb)
             /\ SentGood(r.sent, w, mangled')
             /\ r.pcb.lbb = w.lbb /\ r.pcb.finq = w.finq /\ SameEdges(w, r.pcb)
  <2>1. /\ Fine(r.pcb, mangled', Len(app), ended) /\ Alike(w, r.pcb)
        /\ Waiting(r.pcb) /\ SentGood(r.sent, w, mangled')
    BY OutputFine
  <2>2. r.pcb.lbb = w.lbb /\ r.pcb.finq = w.finq /\ SameEdges(w, r.pcb)
    BY <2>1 DEF Alike, SameEdges
  <2> QED BY <2>1, <2>2
<1> DEFINE R == Output(w)
<1>3. \A r \in R : /\ pcb' = r.pcb =>
                             /\ Fine(r.pcb, mangled', Len(app), ended)
                             /\ Live(r.pcb) => Waiting(r.pcb)
                             /\ SentGood(r.sent, w, mangled')
                   /\ r.pcb.lbb = w.lbb /\ r.pcb.finq = w.finq /\ SameEdges(w, r.pcb)
  BY <1>2
<1>4. Apply(R)
  OBVIOUS
<1> HIDE DEF R
<1> QED BY <1>1, <1>3, <1>4, ApplyStep

\* Parts of the invariant.
LEMMA InvFacts ==
    ASSUME SendInv
    PROVE  /\ Fine(pcb, mangled, Len(app), ended) /\ Edged(pcb, Taken, Edge)
           /\ Live(pcb) => Waiting(pcb)
           /\ ended => pcb.finq
           /\ ended /\ ~ mangled => Len(app) = pcb.lbb
BY DEF SendInv, PeerInv

\* tcp_write keeps the invariant.
LEMMA WriteInv == ASSUME SendInv, Write PROVE SendInv'
<1>0. /\ pcb \in Pcbs /\ Len(app) \in Nat /\ pcb.lbb \in Nat /\ mangled \in BOOLEAN
      /\ ended \in BOOLEAN /\ Fine(pcb, mangled, Len(app), ended) /\ Edged(pcb, Taken, Edge)
  BY PeerFields, InvFacts
<1>1. PICK n \in 1 .. Smaller(pcb.sndBuf, Total - pcb.lbb) : Apply(Output(Written(pcb, n)))
  BY DEF Write
<1>2. /\ pcb.state = "OPEN" /\ mangled' = (mangled \/ TailMoved(pcb))
      /\ UNCHANGED <<app, right, ended>> /\ acks' = acks
  BY DEF Write
<1>3. mangled' \in BOOLEAN /\ (mangled => mangled')
  BY <1>2
<1> DEFINE w == Written(pcb, n)
<1>4. /\ Fine(w, mangled', Len(app), ended) /\ SameEdges(pcb, w) /\ w.state = "OPEN"
      /\ w.finq = pcb.finq /\ w.lbb = pcb.lbb + n
  <2> DEFINE h == Len(app)
             M == mangled'
  <2>1. /\ h \in Nat /\ Fine(pcb, mangled, h, ended) /\ M \in BOOLEAN
        /\ (mangled => M) /\ (TailMoved(pcb) => M)
    BY <1>0, <1>2, <1>3
  <2> HIDE DEF h, M, w
  <2>2. WrittenFrom(Written(pcb, n), pcb, n, M, h, ended)
    BY <1>0, <1>2, <2>1, WrittenFine
  <2>3. WrittenFrom(w, pcb, n, mangled', Len(app), ended)
    BY ONLY <2>2 DEF w, h, M
  <2> QED BY ONLY <2>3 DEF WrittenFrom
<1>5. Apply(Output(w))
  BY <1>1
<1> HIDE DEF w
<1>6. Live(w) /\ Edged(w, Taken, Edge)
  BY <1>0, <1>4 DEF Live, Edged, SameEdges
<1>7. n \in Nat
  BY <1>0, PcbFields, Constants DEF Smaller
<1>8. pcb.lbb <= w.lbb /\ ~ pcb.finq
  <2>1. pcb.lbb <= pcb.lbb + n
    BY <1>0, <1>7
  <2> QED BY <2>1, <1>0, <1>2, <1>4 DEF Fine
<1> QED BY <1>2, <1>3, <1>4, <1>5, <1>6, <1>8, OutputStep

\* tcp_close_shutdown_fin keeps the invariant.
LEMMA CloseInv == ASSUME SendInv, CloseShutdownFin PROVE SendInv'
<1>0. /\ pcb \in Pcbs /\ Len(app) \in Nat /\ pcb.lbb \in Nat /\ mangled \in BOOLEAN
      /\ ended \in BOOLEAN /\ Fine(pcb, mangled, Len(app), ended) /\ Edged(pcb, Taken, Edge)
      /\ (Live(pcb) => Waiting(pcb))
  BY PeerFields, InvFacts
<1>1. pcb.state = "OPEN" /\ UNCHANGED <<app, right, ended>> /\ acks' = acks
  BY DEF CloseShutdownFin
<1>2. ASSUME NEW next \in {"FIN_WAIT_1", "LAST_ACK"}, Apply(Output(Fin(pcb, next))),
             mangled' = (mangled \/ TailMoved(pcb))
      PROVE  SendInv'
  <2>1. mangled' \in BOOLEAN /\ (mangled => mangled')
    BY <1>2
  <2> DEFINE w == Fin(pcb, next)
  <2>2. /\ Fine(w, mangled', Len(app), ended) /\ SameEdges(pcb, w) /\ w.finq = TRUE
        /\ w.lbb = pcb.lbb /\ Live(w) /\ pcb.finq = FALSE
    <3> DEFINE h == Len(app)
               M == mangled'
    <3>1. /\ h \in Nat /\ Fine(pcb, mangled, h, ended) /\ M \in BOOLEAN
          /\ (mangled => M) /\ (TailMoved(pcb) => M)
      BY <1>0, <1>2, <2>1
    <3> HIDE DEF h, M, w
    <3>2. FinishedFrom(Fin(pcb, next), pcb, M, h, ended)
      BY <1>0, <1>1, <3>1, FinFine
    <3>3. FinishedFrom(w, pcb, mangled', Len(app), ended)
      BY ONLY <3>2 DEF w, h, M
    <3> QED BY ONLY <3>3 DEF FinishedFrom
  <2>3. Apply(Output(w))
    BY <1>2
  <2> HIDE DEF w
  <2>4. Edged(w, Taken, Edge)
    BY <1>0, <2>2 DEF Edged, SameEdges
  <2>5. pcb.lbb <= w.lbb
    BY <1>0, <2>2
  <2> QED BY <1>1, <2>1, <2>2, <2>3, <2>4, <2>5, OutputStep
<1>3. ASSUME pcb.unsent = <<>>, pcb' = [pcb EXCEPT !.closepend = TRUE, !.memerr = TRUE],
             UNCHANGED <<air, mangled>>
      PROVE  SendInv'
  <2> DEFINE w == pcb'
  <2>1. /\ w \in Pcbs /\ w.unacked = pcb.unacked /\ w.unsent = pcb.unsent /\ w.rtime = pcb.rtime
        /\ w.persist = pcb.persist /\ w.lbb = pcb.lbb /\ w.finq = pcb.finq
        /\ w.sndBuf = pcb.sndBuf /\ w.state = pcb.state /\ SameEdges(pcb, w)
    BY ONLY <1>0, <1>3 DEF Pcbs, SameEdges
  <2> HIDE DEF w
  <2>2. Segs(w) = Segs(pcb) /\ Held(w) = Held(pcb) /\ Live(w) = Live(pcb)
    BY <2>1 DEF Segs, Held, Live
  <2>3. Live(w) => Live(pcb) /\ Timed(w)
    BY <1>0, <2>1, <2>2 DEF Timed, Fine
  <2>4. Fine(w, mangled, Len(app), ended)
    BY <1>0, <2>1, <2>2, <2>3, FineAlike
  <2>5. Waiting(w)
    BY <1>3, <2>1 DEF Waiting
  <2>6. Edged(w, Taken, Edge)
    BY <1>0, <2>1 DEF Edged, SameEdges
  <2>7. mangled' = mangled /\ air' \subseteq air \cup {} /\ SentGood({}, w, mangled')
    BY <1>3 DEF SentGood
  <2>8. pcb.lbb <= w.lbb
    BY <1>0, <2>1
  <2>9. pcb' = w
    BY DEF w
  <2> QED BY <1>0, <1>1, <2>1, <2>4, <2>5, <2>6, <2>7, <2>8, <2>9, PcbStep
<1> QED BY <1>2, <1>3 DEF CloseShutdownFin

\* An acknowledgement that comes in keeps the invariant.
LEMMA AckInInv == ASSUME SendInv, AckIn PROVE SendInv'
<1>0. /\ pcb \in Pcbs /\ Len(app) \in Nat /\ pcb.lbb \in Nat /\ mangled \in BOOLEAN
      /\ ended \in BOOLEAN /\ Fine(pcb, mangled, Len(app), ended) /\ Edged(pcb, Taken, Edge)
      /\ Len(app) <= pcb.lbb /\ Taken \in Nat /\ Edge \in Nat
      /\ (ended /\ ~ mangled => Len(app) = pcb.lbb)
  BY PeerFields, InvFacts
<1>1. Live(pcb) /\ UNCHANGED <<app, right, ended>> /\ mangled' = mangled
  BY DEF AckIn
<1>2. PICK a \in acks : /\ acks' = acks \ {a}
                        /\ \E x \in Process(pcb, a) :
                              IF Live(x) THEN Apply(Output(x)) ELSE pcb' = x /\ air' = air
  BY DEF AckIn
<1>3. PICK x \in Process(pcb, a) :
              IF Live(x) THEN Apply(Output(x)) ELSE pcb' = x /\ air' = air
  BY <1>2
<1>4. a \in AckType /\ a.ack <= Taken /\ a.ack + a.wnd <= Edge
  BY DEF SendInv, AckOk
<1>5. /\ Fine(x, mangled, Len(app), ended) /\ Edged(x, Taken, Edge) /\ x.lbb = pcb.lbb
      /\ x.finq = pcb.finq
  <2> DEFINE h == Len(app)
  <2>1. Taken = h + (IF ended THEN 1 ELSE 0)
    BY DEF Taken, Bit
  <2>2. h \in Nat /\ h <= pcb.lbb /\ (ended /\ ~ mangled => h = pcb.lbb)
        /\ Fine(pcb, mangled, h, ended)
    BY <1>0
  <2> HIDE DEF h
  <2>3. /\ Fine(x, mangled, h, ended) /\ Edged(x, Taken, Edge) /\ x.lbb = pcb.lbb
        /\ x.finq = pcb.finq
    BY <1>0, <1>1, <1>4, <2>1, <2>2, ProcessFine
  <2> QED BY <2>3 DEF h
<1>6. acks' \subseteq acks /\ mangled' \in BOOLEAN /\ (mangled => mangled')
  BY <1>0, <1>1, <1>2
<1>7. pcb.lbb <= x.lbb
  BY <1>0, <1>5
<1>8. CASE Live(x)
  BY <1>1, <1>3, <1>5, <1>6, <1>7, <1>8, OutputStep
<1>9. CASE ~ Live(x)
  <2>1. pcb' = x /\ air' \subseteq air \cup {} /\ SentGood({}, x, mangled')
    BY <1>3, <1>9 DEF SentGood
  <2>2. x \in Pcbs
    BY <1>5 DEF Fine
  <2> QED BY <1>1, <1>5, <1>6, <1>7, <1>9, <2>1, <2>2, PcbStep
<1> QED BY <1>8, <1>9

\* tcp_slowtmr keeps the invariant.
LEMMA SlowTimerInv == ASSUME SendInv, NEW due \in BOOLEAN, SlowTimer(due) PROVE SendInv'
<1>0. /\ pcb \in Pcbs /\ Len(app) \in Nat /\ pcb.lbb \in Nat /\ mangled \in BOOLEAN
      /\ ended \in BOOLEAN /\ Fine(pcb, mangled, Len(app), ended) /\ Edged(pcb, Taken, Edge)
  BY PeerFields, InvFacts
<1>1. /\ Live(pcb) /\ UNCHANGED <<app, right, ended>> /\ acks' \subseteq acks
      /\ Apply(SlowTick(pcb, due))
      /\ mangled' = (mangled \/ (/\ Len(Queued(pcb')) > Len(Queued(pcb))
                                 /\ Head(pcb.unsent).fin))
  BY DEF SlowTimer
<1>2. \A p \in Pcbs : Len(Queued(p)) = Count(p)
  <2>1. SUFFICES ASSUME NEW p \in Pcbs PROVE Len(Queued(p)) = Count(p)
    OBVIOUS
  <2>2. p.unacked \in Seq(Segments) /\ p.unsent \in Seq(Segments)
    BY PcbFields
  <2>3. Len(p.unacked \o p.unsent) = Len(p.unacked) + Len(p.unsent)
    BY <2>2, ConcatProperties
  <2> QED BY <2>3 DEF Queued, Count
<1>3. mangled' \in BOOLEAN /\ (mangled => mangled')
  BY <1>1
<1> DEFINE R == SlowTick(pcb, due)
<1>4. ASSUME NEW r \in R
      PROVE  /\ pcb' = r.pcb =>
                             /\ Fine(r.pcb, mangled', Len(app), ended)
                             /\ Live(r.pcb) => Waiting(r.pcb)
                             /\ SentGood(r.sent, pcb, mangled')
             /\ r.pcb.lbb = pcb.lbb /\ r.pcb.finq = pcb.finq /\ SameEdges(pcb, r.pcb)
  <2>1. Ticked(pcb, r, mangled, Len(app), ended) /\ (Live(r.pcb) => Waiting(r.pcb))
    <3> DEFINE h == Len(app)
    <3>1. h \in Nat /\ Fine(pcb, mangled, h, ended)
      BY <1>0
    <3> HIDE DEF h
    <3>2. Ticked(pcb, r, mangled, h, ended) /\ (Live(r.pcb) => Waiting(r.pcb))
      BY <3>1, <1>0, <1>1, SlowTickFine
    <3> QED BY <3>2 DEF h
  <2>2. r.pcb \in Pcbs
    BY <2>1 DEF Ticked, Fine
  <2>3. pcb' = r.pcb => mangled' = Mangles(pcb, r.pcb, mangled)
    <3>1. SUFFICES ASSUME pcb' = r.pcb PROVE mangled' = Mangles(pcb, r.pcb, mangled)
      OBVIOUS
    <3>2. Len(Queued(pcb')) = Count(r.pcb) /\ Len(Queued(pcb)) = Count(pcb)
      BY <3>1, <2>2, <1>0, <1>2
    <3> QED BY ONLY <3>2, <1>1 DEF Mangles
  <2> QED BY ONLY <2>1, <2>3, Zenon DEF Ticked
<1>5. Apply(R)
  BY <1>1
<1>6. pcb.lbb <= pcb.lbb
  BY <1>0
<1> HIDE DEF R
<1> QED BY <1>0, <1>1, <1>3, <1>4, <1>5, <1>6, ApplyStep

\* The removal of a connection in LAST_ACK keeps the invariant.
LEMMA LastAckTimeoutInv == ASSUME SendInv, LastAckTimeout PROVE SendInv'
<1>0. /\ pcb \in Pcbs /\ pcb.lbb \in Nat /\ mangled \in BOOLEAN
      /\ Fine(pcb, mangled, Len(app), ended) /\ Edged(pcb, Taken, Edge)
  BY PeerFields, InvFacts
<1>1. /\ pcb' = Removed(pcb) /\ air' = air /\ acks' = acks /\ UNCHANGED <<app, right, ended>>
      /\ mangled' = mangled
  BY DEF LastAckTimeout
<1> DEFINE w == Removed(pcb)
<1>2. /\ Fine(w, mangled, Len(app), ended) /\ ~ Live(w) /\ w.lbb = pcb.lbb /\ w.finq = pcb.finq
      /\ SameEdges(pcb, w)
  BY <1>0, RemovedFine
<1>3. pcb' = w
  BY <1>1
<1> HIDE DEF w
<1>4. w \in Pcbs /\ Edged(w, Taken, Edge) /\ SentGood({}, w, mangled')
  BY <1>0, <1>2 DEF Fine, Edged, SameEdges, SentGood
<1>5. pcb.lbb <= w.lbb /\ air' \subseteq air \cup {}
  BY <1>0, <1>1, <1>2
<1> QED BY <1>0, <1>1, <1>2, <1>3, <1>4, <1>5, PcbStep

-----------------------------------------------------------------------------
(* The other end. *)

\* t is what the other end has after s has arrived, and g what it had, with a window
\* that ends at R.
TookFrom(t, g, s, m, R) ==
    /\ t \in Seq(0 .. Total - 1) /\ Len(t) \in Nat
    /\ Len(g) <= Len(t) /\ Len(t) <= R
    /\ Len(t) = Len(g) \/ Len(t) <= End(s)
    /\ m \/ t = Positions(0, Len(t))

\* The bytes of a segment that follow h and end at r.
TakeOf(s, h, r) == SubSeq(s.data, h - s.at + 1, Smaller(Len(s.data), r - s.at))

\* What is taken of a sound segment continues the stream.
LEMMA TakeFacts ==
    ASSUME NEW m \in BOOLEAN, NEW g \in Seq(0 .. Total - 1), NEW s \in Segments, NEW R \in Nat,
           Len(g) <= R, s.at <= Len(g),
           m \/ g = Positions(0, Len(g)),
           m \/ s.data = Positions(s.at, Len(s.data))
    PROVE  TookFrom(g \o TakeOf(s, Len(g), R), g, s, m, R)
<1> DEFINE h == Len(g)
           a == s.at
           d == s.data
           n == Len(d)
           i == h - a + 1
           j == Smaller(n, R - a)
           k == SubSeq(d, i, j)
           t == g \o k
           T == 0 .. Total - 1
<1>1. h \in Nat /\ a \in Nat /\ d \in Seq(T) /\ n \in Nat /\ End(s) = a + n
  BY SegFields, LenProperties
<1>2. h <= R /\ a <= h
  OBVIOUS
<1>3. t = g \o TakeOf(s, Len(g), R)
  BY DEF TakeOf
<1>4. /\ i \in Nat /\ i >= 1 /\ j \in Nat /\ j <= n /\ j <= R - a
  <2> HIDE DEF h, a, n
  <2> QED BY <1>1, <1>2 DEF Smaller
<1>5. \A l \in 1 .. n : d[l] \in T
  <2> HIDE DEF d, T
  <2> QED BY <1>1, ElementOfSeq DEF n
<1>6. \A l \in i .. j : d[l] \in T
  <2> HIDE DEF d, T, n, i, j
  <2> QED BY <1>1, <1>4, <1>5
<1>7. k \in Seq(T) /\ Len(k) = IF i <= j THEN j - i + 1 ELSE 0
  <2> HIDE DEF d, T, i, j
  <2>1. i \in Int /\ j \in Int
    BY <1>4
  <2> QED BY <2>1, <1>6, SubSeqProperties
<1>8. t \in Seq(T) /\ Len(t) = h + Len(k)
  <2> HIDE DEF k, T
  <2>1. g \in Seq(T)
    BY DEF T
  <2> QED BY <2>1, <1>7, ConcatProperties
<1>9. CASE i <= j
  <2>1. Len(t) = a + j
    <3> DEFINE lk == Len(k)
               lt == Len(t)
    <3>1. lk = j - i + 1 /\ lt = h + lk
      BY <1>7, <1>8, <1>9
    <3>2. i = h - a + 1
      OBVIOUS
    <3> HIDE DEF lk, lt, i, j, h, a
    <3>3. lt = a + j
      BY ONLY <3>1, <3>2, <1>1, <1>4
    <3> QED BY <3>3 DEF lt
  <2>2. a + j \in Nat /\ h <= a + j /\ a + j <= R /\ a + j <= a + n
    <3>1. i = h - a + 1
      OBVIOUS
    <3> HIDE DEF i, j, h, a, n
    <3> QED BY ONLY <3>1, <1>1, <1>2, <1>4, <1>9, R \in Nat
  <2>3. m \/ t = Positions(0, Len(t))
    <3>1. SUFFICES ASSUME ~ m PROVE t = Positions(0, Len(t))
      OBVIOUS
    <3>2. g = Positions(0, h) /\ d = Positions(a, n)
      BY <3>1
    <3>3. SubIs(a, n, i, j)
      <4> HIDE DEF a, n, i, j
      <4>1. i <= j + 1
        BY <1>4, <1>9
      <4> QED BY <4>1, <1>1, <1>4, PositionsSub
    <3>4. k = Positions(a + i - 1, j - i + 1)
      <4> HIDE DEF d, a, n, i, j
      <4> QED BY ONLY <3>2, <3>3, Zenon DEF k, SubIs
    <3>5. a + i - 1 = 0 + h /\ j - i + 1 \in Nat /\ h + (j - i + 1) = a + j
      <4>1. i = h - a + 1
        OBVIOUS
      <4> HIDE DEF i, j, h, a, n
      <4> QED BY ONLY <4>1, <1>1, <1>4, <1>9
    <3> DEFINE y == j - i + 1
    <3>6. y \in Nat /\ h + y = a + j /\ k = Positions(0 + h, y)
      <4>1. y \in Nat /\ h + y = a + j
        BY <3>5
      <4>2. k = Positions(0 + h, y)
        <5> HIDE DEF k, h, a, i, j
        <5> QED BY ONLY <3>4, <3>5, Zenon DEF y
      <4> QED BY <4>1, <4>2
    <3> HIDE DEF y, k, h, a, i, j, d, n, t
    <3>7. Positions(0, h) \o Positions(0 + h, y) = Positions(0, h + y)
      BY <1>1, <3>6, PositionsConcat, ZenonT(30)
    <3>8. t = g \o k
      BY DEF t
    <3> QED BY ONLY <3>2, <3>6, <3>7, <3>8, <2>1, Zenon
  <2>4. TookFrom(t, g, s, m, R)
    <3> DEFINE lt == Len(t)
    <3>1. lt = a + j /\ (m \/ t = Positions(0, lt))
      BY <2>1, <2>3
    <3>2. lt \in Nat /\ h <= lt /\ lt <= R /\ lt <= End(s)
      <4> HIDE DEF lt, h, a, j, n
      <4> QED BY <3>1, <2>2, <1>1
    <3> HIDE DEF t
    <3> QED BY ONLY <3>1, <3>2, <1>8 DEF TookFrom, lt, h, T
  <2> QED BY ONLY <2>4, <1>3
<1>10. CASE ~ (i <= j)
  <2>1. k = <<>>
    <3> HIDE DEF d, i, j
    <3>1. i \in Int /\ j \in Int /\ j < i
      BY <1>4, <1>10
    <3> QED BY <3>1, SubSeqEmpty
  <2>2. t = g
    <3> HIDE DEF k
    <3> QED BY <2>1, ConcatEmptySeq
  <2>3. TookFrom(g, g, s, m, R)
    BY <1>1 DEF TookFrom
  <2> HIDE DEF t
  <2> QED BY ONLY <2>2, <2>3, <1>3, Zenon
<1> QED BY <1>9, <1>10

\* A step of the other end or of the network: what was promised still holds.
LEMMA PeerStep ==
    ASSUME SendInv, UNCHANGED <<pcb, mangled>>, PeerInv', air' \subseteq air,
           acks' \subseteq acks \cup {AckNow}, AckNow \in AckType,
           Len(app) <= Len(app'), right <= right', ended => ended'
    PROVE  SendInv'
<1>0. /\ pcb \in Pcbs /\ Len(app) \in Nat /\ right \in Nat /\ Taken \in Nat /\ Edge \in Nat
      /\ pcb.lbb \in Nat /\ mangled \in BOOLEAN /\ ended \in BOOLEAN
  BY PeerFields
<1>1. pcb' = pcb /\ mangled' = mangled
  OBVIOUS
<1>2. Len(app') \in Nat /\ right' \in Nat /\ ended' \in BOOLEAN
  <2>1. app' \in Seq(0 .. Total - 1) /\ right' \in 0 .. Total + PeerWnd /\ ended' \in BOOLEAN
    BY DEF PeerInv
  <2> QED BY <2>1, LenProperties, Constants
<1>3. Taken' \in Nat /\ Edge' \in Nat /\ Taken <= Taken' /\ Edge <= Edge'
  <2> DEFINE h == Len(app)
             H == Len(app')
             b == Bit(ended)
             B == Bit(ended')
             c == right
             C == right'
  <2>1. b \in Nat /\ B \in Nat /\ b <= B
    BY <1>0, <1>2 DEF Bit
  <2>2. h \in Nat /\ H \in Nat /\ h <= H /\ c \in Nat /\ C \in Nat /\ c <= C
    BY <1>0, <1>2
  <2>3. Taken = h + b /\ Taken' = H + B /\ Edge = c + b /\ Edge' = C + B
    BY DEF Taken, Edge
  <2> HIDE DEF h, H, b, B, c, C
  <2>4. H + B \in Nat /\ C + B \in Nat /\ h + b <= H + B /\ c + b <= C + B
    BY ONLY <2>1, <2>2
  <2> QED BY ONLY <2>3, <2>4, Zenon
<1>4. Fine(pcb, mangled, Len(app'), ended')
  <2> DEFINE h == Len(app)
             H == Len(app')
  <2>1. Fine(pcb, mangled, h, ended) /\ h \in Nat /\ H \in Nat /\ h <= H
    BY <1>0, <1>2, InvFacts
  <2> HIDE DEF h, H
  <2>2. Covers(Segs(pcb), h, pcb.lbb) => Covers(Segs(pcb), H, pcb.lbb)
    <3>1. \A b \in H .. pcb.lbb - 1 : b \in h .. pcb.lbb - 1
      BY <2>1, <1>0
    <3> QED BY <3>1 DEF Covers
  <2>3. Fine(pcb, mangled, H, ended')
    BY ONLY <2>1, <2>2, ended => ended', Zenon DEF Fine
  <2> QED BY <2>3 DEF H
<1>5. Live(pcb) => Waiting(pcb)
  BY InvFacts
<1>6. \A s \in air' : SegOk(s, pcb, mangled, right')
  <2>1. SUFFICES ASSUME NEW s \in air' PROVE SegOk(s, pcb, mangled, right')
    OBVIOUS
  <2>2. SegOk(s, pcb, mangled, right)
    BY DEF SendInv
  <2>3. End(s) \in Nat
    BY <2>2, SegFields DEF SegOk, Good
  <2>4. End(s) <= right => End(s) <= right'
    BY <2>3, <1>0, <1>2
  <2> QED BY <2>2, <2>4 DEF SegOk
<1>7. AckOk(AckNow, Taken, Edge)
  <2> DEFINE h == Len(app)
             b == IF ended THEN 1 ELSE 0
  <2>1. AckNow.ack = h + b /\ AckNow.wnd = right - h /\ Taken = h + b /\ Edge = right + b
    BY DEF AckNow, Taken, Edge, Bit
  <2>2. h \in Nat /\ b \in Nat
    BY <1>0
  <2> HIDE DEF h, b
  <2>3. AckNow.ack <= Taken /\ AckNow.ack + AckNow.wnd <= Edge
    BY ONLY <2>1, <2>2, <1>0
  <2> QED BY <2>3 DEF AckOk
<1>8. ASSUME NEW a \in acks' PROVE AckOk(a, Taken', Edge')
  <2>1. AckOk(a, Taken, Edge)
    BY <1>7 DEF SendInv
  <2>2. a \in AckType /\ a.ack \in Nat /\ a.wnd \in Nat
    BY <2>1, Constants DEF AckOk, AckType
  <2> DEFINE x == a.ack
             y == a.wnd
  <2>3. x \in Nat /\ y \in Nat /\ x <= Taken /\ x + y <= Edge
    BY <2>1, <2>2 DEF AckOk
  <2> HIDE DEF x, y
  <2>4. x <= Taken' /\ x + y <= Edge'
    BY ONLY <2>3, <1>0, <1>3
  <2> QED BY <2>2, <2>4 DEF AckOk, x, y
<1>9. Edged(pcb, Taken', Edge')
  <2>1. Edged(pcb, Taken, Edge)
    BY InvFacts
  <2> DEFINE k == pcb.lastack
             n == pcb.sndWnd
             j == pcb.wl2
  <2>2. k \in Nat /\ n \in Nat /\ j \in Nat /\ k <= j /\ k <= Taken /\ j + n <= Edge
    BY <2>1, <1>0, PcbFields, Constants DEF Edged
  <2> HIDE DEF k, n, j
  <2>3. k <= j /\ k <= Taken' /\ j + n <= Edge'
    BY ONLY <2>2, <1>0, <1>3
  <2> QED BY <2>3 DEF Edged, k, n, j
<1> QED BY <1>1, <1>4, <1>5, <1>6, <1>8, <1>9 DEF SendInv

\* An acknowledgement says what the other end has.
LEMMA AckNowType == ASSUME SendInv PROVE AckNow \in AckType
<1>0. /\ Len(app) \in Nat /\ right \in Nat /\ ended \in BOOLEAN /\ Len(app) <= right
      /\ right <= Len(app) + PeerWnd
  BY PeerFields DEF SendInv, PeerInv
<1> DEFINE h == Len(app)
           b == IF ended THEN 1 ELSE 0
<1>1. h \in Nat /\ b \in Nat /\ h <= right /\ right <= h + PeerWnd
  BY <1>0
<1>2. AckNow = [ack |-> h + b, wnd |-> right - h]
  BY DEF AckNow
<1> HIDE DEF h, b
<1>3. h + b \in Nat /\ right - h \in 0 .. PeerWnd
  BY ONLY <1>0, <1>1, Constants
<1> QED BY ONLY <1>2, <1>3 DEF AckType

\* A segment that arrives keeps the invariant.
LEMMA PeerTakesInv == ASSUME SendInv, PeerTakes PROVE SendInv'
<1>0. /\ pcb \in Pcbs /\ Len(app) \in Nat /\ right \in Nat
      /\ pcb.lbb \in Nat /\ mangled \in BOOLEAN /\ ended \in BOOLEAN
      /\ Len(app) <= right /\ Len(app) <= pcb.lbb
  BY PeerFields
<1>1. PeerInv
  BY DEF SendInv
<1> DEFINE In(s) == s.at <= Len(app) /\ ~ ended
<1>2. PICK s \in air :
          /\ air' = air \ {s}
          /\ app' = IF In(s) THEN app \o TakeOf(s, Len(app), right) ELSE app
          /\ ended' = (ended \/ (In(s) /\ s.fin /\ Len(app') = End(s)))
          /\ UNCHANGED <<pcb, acks, right, mangled>>
  BY DEF PeerTakes, TakeOf
<1>3. Good(s, pcb.lbb, pcb.finq, mangled)
  BY DEF SendInv, SegOk
<1>4. s \in Segments /\ End(s) \in Nat /\ s.fin \in BOOLEAN
  BY <1>3, SegFields DEF Good
<1>5. pcb' = pcb /\ right' = right /\ mangled' = mangled /\ air' \subseteq air
      /\ acks' \subseteq acks \cup {AckNow}
  BY <1>2
<1>6. AckNow \in AckType
  BY AckNowType
<1>7. CASE In(s)
  <2>1. TookFrom(app', app, s, mangled, right)
    <3>1. /\ app \in Seq(0 .. Total - 1) /\ (mangled \/ app = Positions(0, Len(app)))
      BY <1>1 DEF PeerInv
    <3>2. mangled \/ s.data = Positions(s.at, Len(s.data))
      BY <1>3 DEF Good
    <3>3. TookFrom(app \o TakeOf(s, Len(app), right), app, s, mangled, right)
      BY <3>1, <3>2, <1>0, <1>4, <1>7, TakeFacts
    <3> QED BY ONLY <3>3, <1>2, <1>7, Zenon
  <2> DEFINE h == Len(app)
             H == Len(app')
             b == pcb.lbb
  <2>2. /\ app' \in Seq(0 .. Total - 1) /\ H \in Nat /\ h <= H /\ H <= right
        /\ H = h \/ H <= End(s)
        /\ mangled \/ app' = Positions(0, H)
    BY <2>1 DEF TookFrom
  <2>3. h \in Nat /\ h <= b /\ b \in Nat /\ End(s) <= b /\ right <= h + PeerWnd
        /\ right \in 0 .. Total + PeerWnd
    BY <1>0, <1>1, <1>3 DEF Good, PeerInv
  <2>4. ended' \in BOOLEAN /\ ended = FALSE
    BY <1>0, <1>2, <1>7
  <2>5. ended' => s.fin /\ H = End(s)
    BY <1>2, <2>4
  <2>6. ended' => pcb.finq
    BY <2>5, <1>3 DEF Good
  <2>7. mangled \/ (ended' => H = b)
    BY <2>5, <1>3 DEF Good
  <2> HIDE DEF h, H, b
  <2>8. H <= b /\ right <= H + PeerWnd
    BY ONLY <2>2, <2>3, <1>0, <1>4, Constants
  <2>9. PeerInv'
    BY ONLY <2>2, <2>3, <2>4, <2>6, <2>7, <2>8, <1>0, <1>5 DEF PeerInv, H, b
  <2>10. Len(app) <= Len(app') /\ right <= right' /\ (ended => ended')
    BY <2>2, <2>4, <1>0, <1>5 DEF h, H
  <2> QED BY <2>9, <2>10, <1>5, <1>6, PeerStep
<1>8. CASE ~ In(s)
  <2>1. app' = app /\ ended' = ended
    BY <1>0, <1>2, <1>8
  <2>2. PeerInv'
    BY ONLY <2>1, <1>1, <1>5 DEF PeerInv
  <2>3. Len(app) <= Len(app') /\ right <= right' /\ (ended => ended')
    BY <2>1, <1>0, <1>5
  <2> QED BY <2>2, <2>3, <1>5, <1>6, PeerStep
<1> QED BY <1>7, <1>8

\* An acknowledgement that is sent or lost keeps the invariant.
LEMMA PeerAcksInv == ASSUME SendInv, PeerAcks \/ AckLost PROVE SendInv'
<1>0. Len(app) \in Nat /\ right \in Nat
  BY PeerFields
<1>1. /\ UNCHANGED <<pcb, mangled>> /\ air' \subseteq air /\ acks' \subseteq acks \cup {AckNow}
      /\ app' = app /\ right' = right /\ ended' = ended
  BY DEF PeerAcks, AckLost
<1>2. PeerInv'
  BY <1>1 DEF SendInv, PeerInv
<1>3. Len(app) <= Len(app') /\ right <= right' /\ (ended => ended')
  BY <1>0, <1>1
<1> QED BY <1>1, <1>2, <1>3, AckNowType, PeerStep

\* A window that opens keeps the invariant.
LEMMA PeerOpensInv == ASSUME SendInv, PeerOpens PROVE SendInv'
<1>0. Len(app) \in Nat /\ right \in Nat /\ Len(app) <= right
  BY PeerFields
<1>1. /\ UNCHANGED <<pcb, mangled>> /\ air' \subseteq air /\ acks' \subseteq acks \cup {AckNow}
      /\ app' = app /\ ended' = ended
  BY DEF PeerOpens
<1>2. right' \in right + 1 .. Smaller(Len(app) + PeerWnd, Total)
  BY DEF PeerOpens
<1> DEFINE h == Len(app)
<1>3. h \in Nat /\ h <= right /\ right' \in right + 1 .. Smaller(h + PeerWnd, Total)
  BY <1>0, <1>2
<1> HIDE DEF h
<1>4. /\ right' \in 0 .. Total + PeerWnd /\ right <= right' /\ h <= right'
      /\ right' <= h + PeerWnd
  BY ONLY <1>0, <1>3, Constants DEF Smaller
<1>5. PeerInv'
  BY <1>1, <1>4 DEF SendInv, PeerInv, h
<1>6. Len(app) <= Len(app') /\ (ended => ended')
  BY <1>0, <1>1
<1> QED BY <1>1, <1>4, <1>5, <1>6, AckNowType, PeerStep

-----------------------------------------------------------------------------
(* The theorems. *)

\* Every step keeps the invariant.
LEMMA StepInv == SendInv /\ [Next]_vars => SendInv'
<1>0. SUFFICES ASSUME SendInv, [Next]_vars PROVE SendInv'
  OBVIOUS
<1>1. CASE Write
  BY <1>0, <1>1, WriteInv
<1>2. CASE Close \/ FastTimer
  BY <1>0, <1>2, CloseInv DEF Close, FastTimer
<1>3. CASE AckIn
  BY <1>0, <1>3, AckInInv
<1>4. CASE LastAckTimeout
  BY <1>0, <1>4, LastAckTimeoutInv
<1>5. ASSUME NEW due \in BOOLEAN, SlowTimer(due) PROVE SendInv'
  BY <1>0, <1>5, SlowTimerInv
<1>6. CASE PeerTakes
  BY <1>0, <1>6, PeerTakesInv
<1>7. CASE PeerAcks \/ AckLost
  BY <1>0, <1>7, PeerAcksInv
<1>8. CASE PeerOpens
  BY <1>0, <1>8, PeerOpensInv
<1>9. CASE UNCHANGED vars
  BY <1>0, <1>9 DEF vars, SendInv, PeerInv, Taken, Edge
<1> QED BY <1>0, <1>1, <1>2, <1>3, <1>4, <1>5, <1>6, <1>7, <1>8, <1>9 DEF Next, Gone

\* The queues, the timers, the other end and the network are consistent in every
\* state of every connection, whatever is lost, delayed or not written (tcp_write,
\* tcp_send_fin, tcp_output, tcp_receive, tcp_slowtmr).
THEOREM SendInvariant == Spec => []SendInv
<1>1. Init => SendInv
  BY InitInv
<1>2. SendInv /\ [Next]_vars => SendInv'
  BY StepInv
<1> QED BY <1>1, <1>2, PTL DEF Spec

\* The other end takes exactly the bytes that tcp_write got, in order, and their end
\* after the last of them, for every stream and every sequence of losses,
\* retransmissions and splits, as long as no segment was changed that should not be.
THEOREM StreamIntactHolds == Spec => []StreamIntact
<1>1. SendInv => StreamIntact
  BY DEF SendInv, PeerInv, StreamIntact
<1> QED BY <1>1, SendInvariant, PTL

\* A segment of either queue has an index in what is queued.
LEMMA QueuedRange ==
    ASSUME NEW p \in Pcbs, NEW s \in Segs(p)
    PROVE  \E i \in 1 .. Len(Queued(p)) : Queued(p)[i] = s
<1>1. p.unacked \in Seq(Segments) /\ p.unsent \in Seq(Segments)
  BY PcbFields
<1>2. Merges(Queued(p), p.unacked, p.unsent)
  BY <1>1, ConcatMerges DEF Queued
<1>3. Queued(p) \in Seq(Segments) /\ s \in Range(Queued(p))
  BY <1>2 DEF Merges, Segs
<1> QED BY <1>3, InRange

\* Nothing is freed that the other end has not taken: the bytes and the FIN that it
\* still lacks are in the queues of every live connection (tcp_free_acked_segments,
\* tcp_rexmit_rto_prepare, tcp_rexmit, tcp_split_unsent_seg).
THEOREM NothingLostHolds == Spec => []NothingLost
<1>1. SendInv => NothingLost
  <2>1. SUFFICES ASSUME SendInv, ~ mangled, Live(pcb) PROVE NothingLost
    BY DEF NothingLost
  <2>2. /\ pcb \in Pcbs /\ Covers(Segs(pcb), Len(app), pcb.lbb)
        /\ pcb.finq /\ ~ ended => HasFin(Segs(pcb))
    BY <2>1 DEF SendInv, Fine
  <2>3. ASSUME NEW b \in Len(app) .. pcb.lbb - 1
        PROVE  \E i \in 1 .. Len(Queued(pcb)) :
                  Queued(pcb)[i].at <= b /\ b < End(Queued(pcb)[i])
    <3>1. PICK s \in Segs(pcb) : s.at <= b /\ b < End(s)
      BY <2>2 DEF Covers
    <3>2. PICK i \in 1 .. Len(Queued(pcb)) : Queued(pcb)[i] = s
      BY <2>2, QueuedRange
    <3> QED BY ONLY <3>1, <3>2, Zenon
  <2>4. pcb.finq /\ ~ ended => \E i \in 1 .. Len(Queued(pcb)) : Queued(pcb)[i].fin
    <3>1. SUFFICES ASSUME pcb.finq /\ ~ ended
                   PROVE  \E i \in 1 .. Len(Queued(pcb)) : Queued(pcb)[i].fin
      OBVIOUS
    <3>2. PICK s \in Segs(pcb) : s.fin
      BY <2>2, <3>1 DEF HasFin
    <3>3. PICK i \in 1 .. Len(Queued(pcb)) : Queued(pcb)[i] = s
      BY <2>2, QueuedRange
    <3> QED BY ONLY <3>2, <3>3, Zenon
  <2> QED BY <2>3, <2>4 DEF NothingLost
<1> QED BY <1>1, SendInvariant, PTL

\* Every byte that the send buffer lacks is in a queue, and every field keeps its
\* type: snd_buf never grows beyond TCP_SND_BUF, snd_lbb and lastack stay within the
\* stream, the windows and the retransmission counters within their limits.
THEOREM SndBufConservedHolds == Spec => []SndBufConserved
<1>1. SendInv => SndBufConserved
  <2>1. SUFFICES ASSUME SendInv PROVE SndBufConserved
    OBVIOUS
  <2>2. Fine(pcb, mangled, Len(app), ended) /\ PeerInv /\ pcb \in Pcbs
    BY <2>1 DEF SendInv, Fine
  <2>3. air \subseteq Segments
    BY <2>1 DEF SendInv, SegOk, Good
  <2>4. TypeOK
    <3>1. /\ pcb.unsent \in Seq(Segments) /\ pcb.unacked \in Seq(Segments)
          /\ {pcb.lastack, pcb.sndNxt} \subseteq 0 .. Total + 1
          /\ pcb.lbb \in 0 .. Total /\ pcb.sndBuf \in 0 .. SndBuf
          /\ pcb.sndWnd \in 0 .. PeerWnd /\ pcb.cwnd \in Mss .. PeerWnd
          /\ pcb.ssthresh \in Mss .. SndBuf + PeerWnd
          /\ {pcb.nrtx, pcb.probes} \subseteq 0 .. MaxRtx /\ pcb.dupacks \in 0 .. DupAcks
          /\ pcb.state \in States
      BY <2>2, PcbFields
    <3>2. {pcb.rtime, pcb.persist, pcb.infr, pcb.memerr, pcb.finq, pcb.closepend,
           ended, mangled} \subseteq BOOLEAN
      <4>1. ended \in BOOLEAN /\ mangled \in BOOLEAN
        BY <2>2 DEF PeerInv
      <4>2. /\ pcb.rtime \in BOOLEAN /\ pcb.persist \in BOOLEAN /\ pcb.infr \in BOOLEAN
            /\ pcb.memerr \in BOOLEAN /\ pcb.finq \in BOOLEAN /\ pcb.closepend \in BOOLEAN
        BY <2>2, PcbFields
      <4> QED BY ONLY <4>1, <4>2, Zenon
    <3>3. app \in Seq(0 .. Total - 1) /\ right \in 0 .. Total + PeerWnd
      BY <2>2 DEF PeerInv
    <3> QED BY ONLY <3>1, <3>2, <3>3, <2>3 DEF TypeOK, States
  <2>5. Bytes(Queued(pcb)) = Held(pcb)
    BY <2>2, PcbFields, BytesConcat DEF Queued, Held
  <2> QED BY <2>2, <2>4, <2>5 DEF SndBufConserved, Fine
<1> QED BY <1>1, SendInvariant, PTL

\* What tcp_output and tcp_zero_window_probe put on the wire lies in the window that
\* the other end announced, or is a probe of one position.
THEOREM WindowRespectedHolds == Spec => []WindowRespected
<1>1. SendInv => WindowRespected
  BY DEF SendInv, SegOk, WindowRespected
<1> QED BY <1>1, SendInvariant, PTL

\* Data in flight has its retransmission timer, the persist timer never runs beside
\* it (the assertions of tcp_slowtmr), and nothing waits in the unsent queue without
\* a timer, but for a queue out of order behind a small congestion window.
THEOREM TimerRunsHolds == Spec => []TimerRuns
<1>1. SendInv => TimerRuns
  BY DEF SendInv, Fine, Timed, Waiting, TimerRuns
<1> QED BY <1>1, SendInvariant, PTL

=============================================================================
