-------------------------- MODULE TcpReceiveProofs --------------------------
(***************************************************************************)
(* Theorems about TcpReceive: its safety invariants for every modulus,     *)
(* first sequence number, stream, window and segment size.                 *)
(*                                                                         *)
(* Sequence numbers are compared modulo M, positions in the stream are     *)
(* natural numbers; the first part shows that within the distances that    *)
(* occur the one order is the other.  The rest of the proof is about       *)
(* positions.                                                              *)
(***************************************************************************)
EXTENDS TcpReceive, SequenceTheorems, InductionLemmas

-----------------------------------------------------------------------------
(* Arithmetic modulo M. *)

\* A number between 0 and m is the remainder of every number that differs from it
\* by a multiple of m.
LEMMA ModIs ==
    ASSUME NEW m \in Nat, m > 0, NEW a \in Int, NEW k \in Int, NEW b \in Int, a = b + m * k,
           0 <= b, b < m
    PROVE  a % m = b
<1>1. a % m \in 0 .. m - 1 /\ a = m * (a \div m) + (a % m) /\ a \div m \in Int
  OBVIOUS
<1> DEFINE r == a % m
           d == a \div m
<1>2. r \in 0 .. m - 1 /\ d \in Int /\ b + m * k = m * d + r
  BY <1>1
<1> HIDE DEF r, d
<1>3. m * (k - d) = r - b
  BY <1>2
<1>4. CASE k - d >= 1
  BY <1>2, <1>3, <1>4
<1>5. CASE k - d <= -1
  BY <1>2, <1>3, <1>5
<1>6. CASE k - d = 0
  BY <1>2, <1>3, <1>6
<1> QED BY <1>2, <1>4, <1>5, <1>6 DEF r

\* What the assumption says of the constants, one by one.
LEMMA Consts ==
    /\ M \in Nat /\ Isn \in Nat /\ Total \in Nat /\ Wnd \in Nat /\ MaxSeg \in Nat
    /\ AnnStep \in Nat /\ UpdStep \in Nat
    /\ Isn < M /\ 2 * (Total + Wnd + 1) < M
    /\ 0 < AnnStep /\ AnnStep <= UpdStep /\ UpdStep < Wnd /\ 0 < MaxSeg
BY ReceiveAssumption

\* A sequence number is the sum it stands for less a multiple of M.
LEMMA SeqNoIs ==
    ASSUME NEW p \in Int
    PROVE  /\ SeqNo(p) \in 0 .. M - 1
           /\ \E k \in Int : SeqNo(p) = Isn + p - M * k
<1>1. M \in Nat /\ Isn \in Nat /\ M > 0
  BY Consts
<1> DEFINE a == Isn + p
<1>2. a \in Int
  BY <1>1
<1> HIDE DEF a
<1>3. a % M \in 0 .. M - 1 /\ a = M * (a \div M) + (a % M) /\ a \div M \in Int
  BY <1>1, <1>2
<1>4. a % M = a - M * (a \div M)
  BY <1>3, <1>1, <1>2
<1> DEFINE d == a \div M
           r == a % M
<1>5. r \in 0 .. M - 1 /\ d \in Int /\ r = a - M * d
  BY <1>3, <1>4
<1>6. SeqNo(p) = r
  BY DEF SeqNo, a
<1> HIDE DEF d, r
<1>7. SeqNo(p) = Isn + p - M * d
  BY <1>1, <1>5, <1>6 DEF a
<1> QED BY <1>5, <1>6, <1>7

\* Adding a number to a sequence number moves its position by that number.
LEMMA SeqNoPlus ==
    ASSUME NEW p \in Int, NEW n \in Int
    PROVE  (SeqNo(p) + n) % M = SeqNo(p + n)
<1>1. M \in Nat /\ Isn \in Nat /\ M > 0
  BY Consts
<1>2. PICK k \in Int : SeqNo(p) = Isn + p - M * k
  BY SeqNoIs
<1>3. p + n \in Int
  OBVIOUS
<1>4. PICK l \in Int : SeqNo(p + n) = Isn + (p + n) - M * l
  BY <1>3, SeqNoIs
<1>5. SeqNo(p + n) \in Int /\ 0 <= SeqNo(p + n) /\ SeqNo(p + n) < M
  BY <1>1, <1>3, SeqNoIs
<1>6. SeqNo(p) + n = SeqNo(p + n) + M * (l - k)
  BY <1>1, <1>2, <1>4
<1>7. SeqNo(p) + n \in Int /\ l - k \in Int
  BY <1>1, SeqNoIs
<1> DEFINE x == SeqNo(p) + n
           y == SeqNo(p + n)
           z == l - k
<1>8. x \in Int /\ y \in Int /\ z \in Int /\ x = y + M * z /\ 0 <= y /\ y < M
  BY <1>5, <1>6, <1>7
<1> HIDE DEF x, y, z
<1>9. x % M = y
  BY ONLY <1>1, <1>8, ModIs
<1> QED BY <1>9 DEF x, y

\* The difference of two sequence numbers, as the unsigned arithmetic gives it.
LEMMA SeqNoMinus ==
    ASSUME NEW p \in Int, NEW q \in Int, p - q < M, q - p < M
    PROVE  (SeqNo(p) - SeqNo(q)) % M = IF p >= q THEN p - q ELSE M + p - q
<1>1. M \in Nat /\ Isn \in Nat /\ M > 0
  BY Consts
<1>2. PICK k \in Int : SeqNo(p) = Isn + p - M * k
  BY SeqNoIs
<1>3. PICK l \in Int : SeqNo(q) = Isn + q - M * l
  BY SeqNoIs
<1>4. SeqNo(p) - SeqNo(q) = (p - q) + M * (l - k)
  BY <1>1, <1>2, <1>3
<1>5. SeqNo(p) - SeqNo(q) = (M + p - q) + M * (l - k - 1)
  BY <1>1, <1>2, <1>3
<1>6. SeqNo(p) - SeqNo(q) \in Int /\ l - k \in Int /\ l - k - 1 \in Int /\ M + p - q \in Int /\ p - q \in Int
  BY <1>1, SeqNoIs
<1> DEFINE x == SeqNo(p) - SeqNo(q)
           y == l - k
           z == l - k - 1
           u == p - q
           v == M + p - q
<1>9. x \in Int /\ y \in Int /\ z \in Int /\ u \in Int /\ v \in Int
      /\ x = u + M * y /\ x = v + M * z
  BY <1>4, <1>5, <1>6
<1>7. CASE p >= q
  <2>1. 0 <= u /\ u < M
    BY <1>7
  <2>2. x % M = u
    <3> HIDE DEF x, y, z, u, v
    <3> QED BY ONLY <1>1, <1>9, <2>1, ModIs
  <2> QED BY <2>2, <1>7
<1>8. CASE ~ (p >= q)
  <2>1. 0 <= v /\ v < M
    BY <1>8, <1>1
  <2>2. x % M = v
    <3> HIDE DEF x, y, z, u, v
    <3> QED BY ONLY <1>1, <1>9, <2>1, ModIs
  <2> QED BY <2>2, <1>8
<1> QED BY <1>7, <1>8

\* The distance within which comparisons are those of the positions.
Near(p, q) == 2 * (p - q) < M /\ 2 * (q - p) < M

\* TCP_SEQ_LT of two sequence numbers is the order of near positions.
LEMMA LtIs ==
    ASSUME NEW p \in Int, NEW q \in Int, Near(p, q)
    PROVE  Lt(SeqNo(p), SeqNo(q)) <=> p < q
<1>1. M \in Nat /\ p - q < M /\ q - p < M
  BY Consts DEF Near
<1> DEFINE d == (SeqNo(p) - SeqNo(q)) % M
<1>2. d = IF p >= q THEN p - q ELSE M + p - q
  BY <1>1, SeqNoMinus
<1>3. Lt(SeqNo(p), SeqNo(q)) <=> 2 * d >= M
  BY DEF Lt
<1> HIDE DEF d
<1> QED BY <1>1, <1>2, <1>3 DEF Near

\* So is TCP_SEQ_LEQ.
LEMMA LeqIs ==
    ASSUME NEW p \in Int, NEW q \in Int, Near(p, q)
    PROVE  Leq(SeqNo(p), SeqNo(q)) <=> p <= q
<1>1. Near(q, p)
  BY DEF Near
<1> QED BY <1>1, LtIs DEF Leq

\* Near positions with one sequence number are one position.
LEMMA SeqNoEq ==
    ASSUME NEW p \in Int, NEW q \in Int, Near(p, q)
    PROVE  SeqNo(p) = SeqNo(q) <=> p = q
<1>1. Near(q, p)
  BY DEF Near
<1>2. SeqNo(p) = SeqNo(q) => Lt(SeqNo(p), SeqNo(q)) = Lt(SeqNo(q), SeqNo(p))
  OBVIOUS
<1>3. (Lt(SeqNo(p), SeqNo(q)) <=> p < q) /\ (Lt(SeqNo(q), SeqNo(p)) <=> q < p)
  BY <1>1, LtIs
<1> QED BY <1>2, <1>3

-----------------------------------------------------------------------------
(* Pieces of the stream, and queues of them. *)

\* The position after the last byte of a segment.
To(s) == s.at + s.len

\* A segment that is a true piece of the stream.
Piece(s) ==
    /\ s \in Segments /\ s.seq = SeqNo(s.at) /\ TcpLen(s) > 0
    /\ To(s) <= Total /\ (s.fin => To(s) = Total)

\* The pieces of q lie between lo and hi, sorted and disjoint, a FIN last.
Queue(q, lo, hi) ==
    /\ q \in Seq(Segments)
    /\ \A i \in 1 .. Len(q) : Piece(q[i]) /\ lo <= q[i].at /\ q[i].at + TcpLen(q[i]) <= hi
    /\ \A i, j \in 1 .. Len(q) : i < j => ~ q[i].fin /\ To(q[i]) <= q[j].at

\* What a piece is made of.
LEMMA PieceFacts ==
    ASSUME NEW s, Piece(s)
    PROVE  /\ s.at \in Nat /\ s.len \in Nat /\ s.fin \in BOOLEAN /\ s.seq \in Nat
           /\ s.at + s.len <= Total /\ To(s) = s.at + s.len /\ To(s) \in Nat
           /\ s.len <= MaxSeg
           /\ s.fin => TcpLen(s) = s.len + 1 /\ To(s) = Total
           /\ ~ s.fin => TcpLen(s) = s.len /\ s.len > 0
           /\ s = [seq |-> s.seq, len |-> s.len, fin |-> s.fin, at |-> s.at]
           /\ TcpLen(s) \in Nat
<1>1. s \in Segments
  BY DEF Piece
<1>2. Total \in Nat /\ MaxSeg \in Nat /\ M \in Nat
  BY Consts
<1>3. /\ s.at \in 0 .. Total /\ s.len \in 0 .. MaxSeg /\ s.fin \in BOOLEAN /\ s.seq \in 0 .. M - 1
      /\ s = [seq |-> s.seq, len |-> s.len, fin |-> s.fin, at |-> s.at]
  BY <1>1 DEF Segments
<1> QED BY <1>2, <1>3 DEF Piece, To, TcpLen

\* Where the data of a piece, and the piece, end as sequence numbers.
LEMMA PieceEnds ==
    ASSUME NEW s, Piece(s)
    PROVE  DataEnd(s) = SeqNo(To(s)) /\ EndOf(s) = SeqNo(s.at + TcpLen(s))
<1>1. s.seq = SeqNo(s.at) /\ s.at \in Int /\ s.len \in Int /\ TcpLen(s) \in Int
  BY PieceFacts DEF Piece
<1>2. (SeqNo(s.at) + s.len) % M = SeqNo(s.at + s.len)
  BY <1>1, SeqNoPlus
<1>3. (SeqNo(s.at) + TcpLen(s)) % M = SeqNo(s.at + TcpLen(s))
  <2> DEFINE n == TcpLen(s)
  <2> HIDE DEF n
  <2>1. n \in Int
    BY <1>1 DEF n
  <2>2. (SeqNo(s.at) + n) % M = SeqNo(s.at + n)
    BY <2>1, <1>1, SeqNoPlus
  <2> QED BY <2>2 DEF n
<1> QED BY <1>1, <1>2, <1>3 DEF DataEnd, EndOf, To

\* Positions of the stream and of the window are near to one another.
LEMMA NearFacts ==
    ASSUME NEW p \in 0 .. Total + Wnd + 1, NEW q \in 0 .. Total + Wnd + 1
    PROVE  /\ Near(p, q) /\ p \in Int /\ q \in Int
           /\ Lt(SeqNo(p), SeqNo(q)) <=> p < q
           /\ Leq(SeqNo(p), SeqNo(q)) <=> p <= q
           /\ SeqNo(p) = SeqNo(q) <=> p = q
           /\ p >= q => (SeqNo(p) - SeqNo(q)) % M = p - q
<1>1. Near(p, q) /\ p \in Int /\ q \in Int /\ p - q < M /\ q - p < M
  BY Consts DEF Near
<1>2. p >= q => (SeqNo(p) - SeqNo(q)) % M = p - q
  BY <1>1, SeqNoMinus
<1> QED BY <1>1, <1>2, LtIs, LeqIs, SeqNoEq

\* Both ends of a piece are such positions.
LEMMA PieceRange ==
    ASSUME NEW s, Piece(s)
    PROVE  /\ s.at \in 0 .. Total + Wnd + 1 /\ To(s) \in 0 .. Total + Wnd + 1
           /\ s.at + TcpLen(s) \in 0 .. Total + Wnd + 1
           /\ s.at \in Nat /\ To(s) \in Nat /\ s.at <= To(s) /\ s.at <= Total /\ To(s) <= Total
<1>1. Total \in Nat /\ Wnd \in Nat
  BY Consts
<1>2. /\ s.at \in Nat /\ s.len \in Nat /\ To(s) = s.at + s.len /\ To(s) <= Total
      /\ TcpLen(s) \in {s.len, s.len + 1} /\ s.fin \in BOOLEAN
  BY PieceFacts DEF Piece
<1> QED BY ONLY <1>1, <1>2

\* A piece cut at a position inside it is a piece up to there.
LEMMA CutPiece ==
    ASSUME NEW s, Piece(s), NEW n \in Nat, s.at < n, n <= To(s), ~ s.fin \/ n < To(s),
           NEW c, c = [s EXCEPT !.len = n - s.at, !.fin = FALSE]
    PROVE  Piece(c) /\ c.at = s.at /\ To(c) = n /\ ~ c.fin /\ TcpLen(c) = n - s.at
<1>1. /\ s.at \in Nat /\ s.len \in Nat /\ s.len <= MaxSeg /\ To(s) = s.at + s.len /\ To(s) <= Total
      /\ s = [seq |-> s.seq, len |-> s.len, fin |-> s.fin, at |-> s.at]
      /\ MaxSeg \in Nat /\ Total \in Nat
  BY PieceFacts, Consts DEF Piece
<1>2. c = [seq |-> s.seq, len |-> n - s.at, fin |-> FALSE, at |-> s.at]
  BY <1>1
<1>3. s.seq \in 0 .. M - 1 /\ s.at \in 0 .. Total /\ s.seq = SeqNo(s.at)
  BY DEF Piece, Segments
<1>4. n - s.at \in 0 .. MaxSeg /\ n - s.at > 0
  BY <1>1
<1>5. c \in Segments /\ c.at = s.at /\ c.len = n - s.at /\ c.fin = FALSE /\ c.seq = SeqNo(c.at)
  BY <1>2, <1>3, <1>4 DEF Segments
<1>6. TcpLen(c) = n - s.at /\ To(c) = n
  BY <1>1, <1>4, <1>5 DEF TcpLen, To
<1> QED BY <1>1, <1>4, <1>5, <1>6 DEF Piece

\* The two parts of a sequence on either side of an index.
LEMMA SplitFacts ==
    ASSUME NEW S, NEW q \in Seq(S), NEW k \in 0 .. Len(q),
           NEW f, f = SubSeq(q, 1, k), NEW b, b = SubSeq(q, k + 1, Len(q))
    PROVE  /\ Len(q) \in Nat
           /\ f \in Seq(S) /\ Len(f) = k /\ \A i \in 1 .. k : f[i] = q[i]
           /\ b \in Seq(S) /\ Len(b) = Len(q) - k /\ \A i \in 1 .. Len(q) - k : b[i] = q[k + i]
           /\ f = <<>> <=> k = 0
           /\ b = <<>> <=> k = Len(q)
           /\ b # <<>> => Head(b) = q[k + 1]
           /\ f # <<>> => Last(f) = q[k]
<1>0. Len(q) \in Nat /\ \A i \in 1 .. Len(q) : q[i] \in S
  BY LenProperties, ElementOfSeq
<1>1. f \in Seq(S) /\ Len(f) = k /\ \A i \in 1 .. k : f[i] = q[i]
  <2>1. 1 \in Int /\ k \in Int /\ \A i \in 1 .. k : q[i] \in S
    BY <1>0
  <2>2. /\ SubSeq(q, 1, k) \in Seq(S)
        /\ Len(SubSeq(q, 1, k)) = IF 1 <= k THEN k - 1 + 1 ELSE 0
        /\ \A i \in 1 .. k - 1 + 1 : SubSeq(q, 1, k)[i] = q[1 + i - 1]
    BY ONLY <2>1, SubSeqProperties
  <2>3. \A i \in 1 .. k : 1 + i - 1 = i /\ i \in 1 .. k - 1 + 1
    BY <2>1
  <2> QED BY <2>2, <2>3, <1>0
<1>2. b \in Seq(S) /\ Len(b) = Len(q) - k /\ \A i \in 1 .. Len(q) - k : b[i] = q[k + i]
  <2> DEFINE l == Len(q)
             m == k + 1
  <2>1. m \in Int /\ l \in Int /\ \A i \in m .. l : q[i] \in S
    BY <1>0
  <2> HIDE DEF l, m
  <2>2. /\ SubSeq(q, m, l) \in Seq(S)
        /\ Len(SubSeq(q, m, l)) = IF m <= l THEN l - m + 1 ELSE 0
        /\ \A i \in 1 .. l - m + 1 : SubSeq(q, m, l)[i] = q[m + i - 1]
    BY ONLY <2>1, SubSeqProperties
  <2>3. \A i \in 1 .. Len(q) - k : m + i - 1 = k + i /\ i \in 1 .. l - m + 1
    BY <1>0 DEF l, m
  <2>4. Len(b) = Len(q) - k
    BY <2>2, <1>0 DEF l, m
  <2>5. b = SubSeq(q, m, l)
    BY DEF l, m
  <2> QED BY <2>2, <2>3, <2>4, <2>5
<1>3. (f = <<>> <=> Len(f) = 0) /\ (b = <<>> <=> Len(b) = 0)
  BY <1>1, <1>2, EmptySeq
<1>4. b # <<>> => Head(b) = q[k + 1]
  <2>1. b # <<>> => Head(b) = b[1]
    BY <1>2
  <2>2. Len(b) # 0 => b[1] = q[k + 1]
    BY <1>2, <1>0
  <2> QED BY <2>1, <2>2, <1>3
<1>5. f # <<>> => Last(f) = q[k]
  BY <1>0, <1>1, <1>3 DEF Last
<1>6. f = <<>> <=> k = 0
  BY <1>1, <1>3
<1>7. b = <<>> <=> k = Len(q)
  BY <1>0, <1>2, <1>3
<1> QED BY <1>0, <1>1, <1>2, <1>4, <1>5, <1>6, <1>7, Zenon

\* Both parts of a queue are queues.
LEMMA SplitQueue ==
    ASSUME NEW q, NEW lo \in Int, NEW hi \in Int, Queue(q, lo, hi), NEW k \in 0 .. Len(q),
           NEW f, f = SubSeq(q, 1, k), NEW b, b = SubSeq(q, k + 1, Len(q))
    PROVE  Queue(f, lo, hi) /\ Queue(b, lo, hi)
<1>1. q \in Seq(Segments)
  BY DEF Queue
<1>2. /\ Len(q) \in Nat
      /\ f \in Seq(Segments) /\ Len(f) = k /\ \A i \in 1 .. k : f[i] = q[i]
      /\ b \in Seq(Segments) /\ Len(b) = Len(q) - k /\ \A i \in 1 .. Len(q) - k : b[i] = q[k + i]
  BY <1>1, SplitFacts
<1>3. \A i \in 1 .. Len(q) : Piece(q[i]) /\ lo <= q[i].at /\ q[i].at + TcpLen(q[i]) <= hi
  BY DEF Queue
<1>4. \A i, j \in 1 .. Len(q) : i < j => ~ q[i].fin /\ To(q[i]) <= q[j].at
  BY DEF Queue
<1>5. Queue(f, lo, hi)
  <2>1. \A i \in 1 .. Len(f) : i \in 1 .. Len(q) /\ f[i] = q[i]
    BY <1>2
  <2> QED BY <2>1, <1>2, <1>3, <1>4 DEF Queue
<1>6. Queue(b, lo, hi)
  <2>1. \A i \in 1 .. Len(b) : k + i \in 1 .. Len(q) /\ b[i] = q[k + i]
    BY <1>2
  <2>2. \A i \in 1 .. Len(b) : Piece(b[i]) /\ lo <= b[i].at /\ b[i].at + TcpLen(b[i]) <= hi
    BY <2>1, <1>3
  <2>3. \A i, j \in 1 .. Len(b) : i < j => ~ b[i].fin /\ To(b[i]) <= b[j].at
    <3>1. SUFFICES ASSUME NEW i \in 1 .. Len(b), NEW j \in 1 .. Len(b), i < j
                   PROVE  ~ b[i].fin /\ To(b[i]) <= b[j].at
      OBVIOUS
    <3>2. k + i < k + j
      BY <3>1, <1>2
    <3> QED BY <3>2, <2>1, <1>4
  <2> QED BY <1>2, <2>2, <2>3 DEF Queue
<1> QED BY <1>5, <1>6

\* One queue behind another.
LEMMA ConcatQueue ==
    ASSUME NEW q, NEW r, NEW lo \in Int, NEW hi \in Int, Queue(q, lo, hi), Queue(r, lo, hi),
           \A i \in 1 .. Len(q), j \in 1 .. Len(r) : ~ q[i].fin /\ To(q[i]) <= r[j].at
    PROVE  Queue(q \o r, lo, hi)
<1> DEFINE t == q \o r
           m == Len(q)
           n == Len(r)
<1>1. q \in Seq(Segments) /\ r \in Seq(Segments) /\ m \in Nat /\ n \in Nat
  BY LenProperties DEF Queue
<1>2. t \in Seq(Segments) /\ Len(t) = m + n
      /\ \A i \in 1 .. m + n : t[i] = IF i <= m THEN q[i] ELSE r[i - m]
  BY <1>1, ConcatProperties
<1>3. /\ \A i \in 1 .. m : Piece(q[i]) /\ lo <= q[i].at /\ q[i].at + TcpLen(q[i]) <= hi
      /\ \A i, j \in 1 .. m : i < j => ~ q[i].fin /\ To(q[i]) <= q[j].at
      /\ \A i \in 1 .. n : Piece(r[i]) /\ lo <= r[i].at /\ r[i].at + TcpLen(r[i]) <= hi
      /\ \A i, j \in 1 .. n : i < j => ~ r[i].fin /\ To(r[i]) <= r[j].at
      /\ \A i \in 1 .. m, j \in 1 .. n : ~ q[i].fin /\ To(q[i]) <= r[j].at
  BY DEF Queue
<1> HIDE DEF t, m, n
<1>4. \A i \in 1 .. m + n : \/ i \in 1 .. m /\ t[i] = q[i]
                            \/ i - m \in 1 .. n /\ i > m /\ t[i] = r[i - m]
  BY <1>1, <1>2
<1>5. \A i \in 1 .. m + n : Piece(t[i]) /\ lo <= t[i].at /\ t[i].at + TcpLen(t[i]) <= hi
  BY <1>3, <1>4
<1>6. ASSUME NEW i \in 1 .. m + n, NEW j \in 1 .. m + n, i < j
      PROVE  ~ t[i].fin /\ To(t[i]) <= t[j].at
  <2>1. CASE i \in 1 .. m /\ t[i] = q[i] /\ j \in 1 .. m /\ t[j] = q[j]
    BY <2>1, <1>3, <1>6
  <2>2. CASE i \in 1 .. m /\ t[i] = q[i] /\ j - m \in 1 .. n /\ t[j] = r[j - m]
    BY <2>2, <1>3
  <2>3. CASE i - m \in 1 .. n /\ i > m /\ t[i] = r[i - m] /\ j - m \in 1 .. n /\ t[j] = r[j - m]
    <3>1. i - m < j - m
      BY <1>6, <1>1
    <3> QED BY <2>3, <3>1, <1>3
  <2>4. ~ (i > m /\ j \in 1 .. m)
    BY <1>6, <1>1
  <2> QED BY <2>1, <2>2, <2>3, <2>4, <1>4
<1>7. Queue(t, lo, hi)
  BY <1>2, <1>5, <1>6 DEF Queue
<1> QED BY <1>7 DEF t

\* A queue of one piece.
LEMMA OneQueue ==
    ASSUME NEW s, NEW lo \in Int, NEW hi \in Int, Piece(s), lo <= s.at, s.at + TcpLen(s) <= hi
    PROVE  Queue(<<s>>, lo, hi) /\ Len(<<s>>) = 1 /\ <<s>>[1] = s
<1>1. s \in Segments
  BY DEF Piece
<1>2. <<s>> \in Seq(Segments) /\ Len(<<s>>) = 1 /\ <<s>>[1] = s
  BY <1>1
<1>3. \A i \in 1 .. 1 : i = 1
  OBVIOUS
<1>4. \A i, j \in 1 .. 1 : ~ (i < j)
  OBVIOUS
<1> QED BY <1>2, <1>3, <1>4 DEF Queue

-----------------------------------------------------------------------------
(* The operations on the out-of-order queue. *)

\* r is what Swallow leaves of s and q when it takes the first k segments.
Swallowed(s, q, r, k) ==
    /\ \A i \in 1 .. k : To(q[i]) <= To(s)
    /\ k < Len(q) => To(s) < To(q[k + 1])
    /\ r.rest = SubSeq(q, k + 1, Len(q))
    /\ r.seg = [s EXCEPT !.fin = \E i \in 1 .. k : q[i].fin]

\* Swallow takes the leading segments that end where the new one ends or before,
\* and only them.
LEMMA SwallowFacts ==
    ASSUME NEW q, NEW lo \in Int, NEW hi \in Int, Queue(q, lo, hi), NEW s, Piece(s), ~ s.fin,
           NEW r, r = Swallow(s, q, SeqNo(To(s)))
    PROVE  \E k \in 0 .. Len(q) : Swallowed(s, q, r, k)
<1> DEFINE n == Len(q)
           K == {k \in 1 .. n : \A i \in 1 .. k : Leq(DataEnd(q[i]), SeqNo(To(s)))}
           c == Cardinality(K)
<1>1. n \in Nat /\ \A i \in 1 .. n : Piece(q[i])
  BY LenProperties DEF Queue
<1>2. To(s) \in 0 .. Total + Wnd + 1 /\ Wnd \in Nat /\ Total \in Nat
  BY PieceFacts, Consts
<1>3. ASSUME NEW i \in 1 .. n
      PROVE  Leq(DataEnd(q[i]), SeqNo(To(s))) <=> To(q[i]) <= To(s)
  <2>1. Piece(q[i])
    BY <1>1
  <2>2. DataEnd(q[i]) = SeqNo(To(q[i])) /\ To(q[i]) \in Nat /\ To(q[i]) <= Total
    BY <2>1, PieceEnds, PieceFacts DEF Piece
  <2>3. To(q[i]) \in 0 .. Total + Wnd + 1
    BY <2>2, <1>2
  <2>4. Leq(SeqNo(To(q[i])), SeqNo(To(s))) <=> To(q[i]) <= To(s)
    <3> DEFINE u == To(q[i])
               v == To(s)
    <3>1. u \in 0 .. Total + Wnd + 1 /\ v \in 0 .. Total + Wnd + 1
      BY <2>3, <1>2
    <3> HIDE DEF u, v
    <3>2. Leq(SeqNo(u), SeqNo(v)) <=> u <= v
      BY <3>1, NearFacts
    <3> QED BY <3>2 DEF u, v
  <2> QED BY <2>2, <2>4
<1>4. K \in SUBSET (1 .. n) /\ \A k \in K : \A i \in 1 .. k : i \in K
  BY <1>1
<1>5. c \in 0 .. n /\ K = 1 .. c
  <2> HIDE DEF K, n
  <2> QED BY <1>1, <1>4, PrefixInterval
<1>6. \A i \in 1 .. c : To(q[i]) <= To(s)
  <2>1. \A i \in 1 .. c : i \in K
    BY <1>5
  <2>2. \A i \in K : i \in 1 .. n /\ Leq(DataEnd(q[i]), SeqNo(To(s)))
    <3> HIDE DEF n
    <3> QED BY <1>1
  <2> HIDE DEF K, c
  <2> QED BY <2>1, <2>2, <1>3
<1>7. c < n => To(s) < To(q[c + 1])
  <2>1. SUFFICES ASSUME c < n PROVE To(s) < To(q[c + 1])
    OBVIOUS
  <2>2. c + 1 \in 1 .. n /\ ~ (c + 1 \in K)
    <3> HIDE DEF K, c
    <3> QED BY <2>1, <1>1, <1>5
  <2>3. \A i \in 1 .. c : Leq(DataEnd(q[i]), SeqNo(To(s)))
    <3>1. \A i \in 1 .. c : i \in 1 .. n
      <4> HIDE DEF K, c, n
      <4> QED BY <1>1, <1>5
    <3> HIDE DEF K, c, n
    <3> QED BY <3>1, <1>6, <1>3
  <2>4. ~ Leq(DataEnd(q[c + 1]), SeqNo(To(s)))
    <3>1. SUFFICES ASSUME Leq(DataEnd(q[c + 1]), SeqNo(To(s))) PROVE FALSE
      OBVIOUS
    <3>2. \A i \in 1 .. c + 1 : Leq(DataEnd(q[i]), SeqNo(To(s)))
      <4> HIDE DEF K, c, n
      <4> QED BY <3>1, <2>3, <1>5
    <3>3. c + 1 \in K
      <4> HIDE DEF c
      <4> QED BY <3>2, <2>2
    <3> QED BY <3>3, <2>2
  <2>5. ~ (To(q[c + 1]) <= To(s))
    <3> HIDE DEF K, c, n
    <3> QED BY <2>2, <2>4, <1>3
  <2>6. To(q[c + 1]) \in Nat /\ To(s) \in Nat
    <3>1. Piece(q[c + 1])
      <4> HIDE DEF K, c, n
      <4> QED BY <2>2, <1>1
    <3> QED BY <3>1, PieceFacts
  <2> HIDE DEF K, c, n
  <2> QED BY <2>5, <2>6
<1>8. /\ r.rest = SubSeq(q, c + 1, n)
      /\ r.seg = [s EXCEPT !.fin = s.fin \/ \E i \in 1 .. c : q[i].fin]
  BY DEF Swallow, Prefix
<1>9. (s.fin \/ \E i \in 1 .. c : q[i].fin) = (\E i \in 1 .. c : q[i].fin)
  OBVIOUS
<1>10. r.seg = [s EXCEPT !.fin = \E i \in 1 .. c : q[i].fin]
  BY <1>8, <1>9, Zenon
<1> HIDE DEF K, c
<1>11. Swallowed(s, q, r, c)
  BY <1>6, <1>7, <1>8, <1>10, Zenon DEF Swallowed
<1> QED BY <1>5, <1>11

\* c, which begins where s does, goes in front of the queue q.
Fronted(c, q, s, lo, hi) ==
    Piece(c) /\ c.at = s.at /\ Queue(q, lo, hi) /\ Queue(<<c>> \o q, lo, hi)

\* A segment in front of a queue of which it has swallowed what it covers, cut where
\* the rest begins, is the first of a queue again.
LEMMA TrimmedQueue ==
    ASSUME NEW q, NEW lo \in Nat, NEW hi \in Int, Queue(q, lo, hi), NEW s, Piece(s), ~ s.fin,
           s.at + TcpLen(s) <= hi, lo <= s.at, \A i \in 1 .. Len(q) : s.at <= q[i].at,
           q # <<>> => s.at < q[1].at \/ To(q[1]) <= To(s),
           NEW r, r = Swallow(s, q, SeqNo(To(s))),
           NEW e, e \in {SeqNo(To(s)), EndOf(r.seg)},
           NEW c, c = CutTo(r.seg, r.rest, e)
    PROVE  Fronted(c, r.rest, s, lo, hi)
<1>0. /\ q \in Seq(Segments) /\ Len(q) \in Nat
      /\ \A i \in 1 .. Len(q) : Piece(q[i]) /\ lo <= q[i].at /\ q[i].at + TcpLen(q[i]) <= hi
      /\ \A i, j \in 1 .. Len(q) : i < j => ~ q[i].fin /\ To(q[i]) <= q[j].at
  BY LenProperties DEF Queue
<1>i. lo \in Int
  OBVIOUS
<1>k. PICK k \in 0 .. Len(q) : Swallowed(s, q, r, k)
  BY <1>i, SwallowFacts
<1>1. /\ \A i \in 1 .. k : To(q[i]) <= To(s)
      /\ k < Len(q) => To(s) < To(q[k + 1])
      /\ r.rest = SubSeq(q, k + 1, Len(q))
      /\ r.seg = [s EXCEPT !.fin = \E i \in 1 .. k : q[i].fin]
  BY <1>k, Zenon DEF Swallowed
<1>2. /\ r.rest \in Seq(Segments) /\ Len(r.rest) = Len(q) - k
      /\ \A i \in 1 .. Len(q) - k : r.rest[i] = q[k + i]
      /\ r.rest = <<>> <=> k = Len(q)
      /\ r.rest # <<>> => Head(r.rest) = q[k + 1]
  <2> DEFINE f == SubSeq(q, 1, k)
             b == SubSeq(q, k + 1, Len(q))
  <2>1. f = SubSeq(q, 1, k) /\ b = SubSeq(q, k + 1, Len(q))
    OBVIOUS
  <2> HIDE DEF f, b
  <2>2. /\ b \in Seq(Segments) /\ Len(b) = Len(q) - k /\ \A i \in 1 .. Len(q) - k : b[i] = q[k + i]
        /\ b = <<>> <=> k = Len(q)
        /\ b # <<>> => Head(b) = q[k + 1]
    <3>1. q \in Seq(Segments) /\ k \in 0 .. Len(q)
      BY <1>0
    <3>2. b \in Seq(Segments) /\ Len(b) = Len(q) - k
      BY ONLY <2>1, <3>1, SplitFacts
    <3>3. \A i \in 1 .. Len(q) - k : b[i] = q[k + i]
      BY ONLY <2>1, <3>1, SplitFacts
    <3>4. b = <<>> <=> k = Len(q)
      <4>1. b = <<>> <=> Len(b) = 0
        BY ONLY <3>2, EmptySeq
      <4> QED BY <4>1, <3>2, <1>0
    <3>5. b # <<>> => Head(b) = q[k + 1]
      BY ONLY <2>1, <3>1, SplitFacts
    <3> QED BY ONLY <3>2, <3>3, <3>4, <3>5
  <2>3. b = r.rest
    BY <2>1, <1>1
  <2> QED BY <2>2, <2>3
<1>3. Queue(r.rest, lo, hi)
  <2> DEFINE f == SubSeq(q, 1, k)
             b == SubSeq(q, k + 1, Len(q))
  <2>1. f = SubSeq(q, 1, k) /\ b = SubSeq(q, k + 1, Len(q))
    OBVIOUS
  <2> HIDE DEF f, b
  <2>2. Queue(b, lo, hi)
    BY ONLY <2>1, <1>i, hi \in Int, Queue(q, lo, hi), k \in 0 .. Len(q), SplitQueue
  <2>3. b = r.rest
    BY <2>1, <1>1
  <2> QED BY <2>2, <2>3
<1>4. /\ s.at \in Nat /\ s.len \in Nat /\ To(s) = s.at + s.len /\ To(s) \in Nat /\ s.len <= MaxSeg
      /\ TcpLen(s) = s.len /\ s.len > 0 /\ To(s) <= Total /\ Total \in Nat
      /\ s = [seq |-> s.seq, len |-> s.len, fin |-> s.fin, at |-> s.at]
      /\ s.seq = SeqNo(s.at) /\ s.fin = FALSE
  BY PieceFacts, Consts DEF Piece
<1>5. /\ Piece(c) /\ c.at = s.at /\ c.at + TcpLen(c) <= hi
      /\ \A j \in 1 .. Len(r.rest) : ~ c.fin /\ To(c) <= r.rest[j].at
  <2>1. CASE k = Len(q)
    <3>1. r.rest = <<>> /\ c = r.seg
      BY <2>1, <1>2 DEF CutTo
    <3>2. \A j \in 1 .. Len(r.rest) : FALSE
      BY <2>1, <1>0, <1>2
    <3>3. CASE \E i \in 1 .. k : q[i].fin
      <4>1. PICK i \in 1 .. k : q[i].fin
        BY <3>3
      <4>2. Piece(q[i]) /\ q[i].at + TcpLen(q[i]) <= hi /\ To(q[i]) <= To(s)
        BY <4>1, <1>0, <1>1
      <4>3. To(q[i]) = Total /\ q[i].at + TcpLen(q[i]) = Total + 1
        <5> DEFINE x == q[i]
        <5>1. Piece(x) /\ x.fin
          BY <4>1, <4>2
        <5>2. To(x) = Total /\ TcpLen(x) = x.len + 1 /\ To(x) = x.at + x.len /\ x.at \in Nat /\ x.len \in Nat
          <6> HIDE DEF x
          <6> QED BY <5>1, PieceFacts
        <5>3. Total \in Nat
          BY Consts
        <5>4. To(x) = Total /\ x.at + TcpLen(x) = Total + 1
          <6> HIDE DEF x
          <6> QED BY ONLY <5>2, <5>3
        <5> QED BY <5>4
      <4>4. To(s) = Total /\ s.at + (s.len + 1) <= hi
        BY <4>2, <4>3, <1>4
      <4>5. (\E j \in 1 .. k : q[j].fin) = TRUE
        BY <3>3
      <4>6. c = [s EXCEPT !.fin = TRUE]
        BY <3>1, <1>1, <4>5, Zenon
      <4>7. c = [seq |-> s.seq, len |-> s.len, fin |-> TRUE, at |-> s.at]
        BY <4>6, <1>4
      <4>8. s \in Segments
        BY DEF Piece
      <4>9. c \in Segments /\ c.seq = SeqNo(c.at) /\ c.at = s.at /\ c.len = s.len /\ c.fin = TRUE
        BY <4>7, <4>8, <1>4 DEF Segments
      <4>10. TcpLen(c) = s.len + 1 /\ To(c) = Total
        BY <4>9, <4>4, <1>4 DEF TcpLen, To
      <4>11. Piece(c) /\ c.at + TcpLen(c) <= hi
        BY <4>9, <4>10, <4>4, <1>4 DEF Piece
      <4> QED BY <4>9, <4>11, <3>2
    <3>4. CASE ~ \E i \in 1 .. k : q[i].fin
      <4>1. (\E j \in 1 .. k : q[j].fin) = FALSE
        BY <3>4
      <4>2. c = [s EXCEPT !.fin = FALSE]
        BY <3>1, <1>1, <4>1, Zenon
      <4>3. c = s
        BY <4>2, <1>4
      <4> QED BY <4>3, <3>2
    <3> QED BY <3>3, <3>4
  <2>2. CASE k < Len(q)
    <3> DEFINE h == q[k + 1]
    <3>1. /\ k + 1 \in 1 .. Len(q) /\ Piece(h) /\ r.rest # <<>> /\ Head(r.rest) = h
          /\ To(s) < To(h) /\ h.at \in Nat /\ h.at <= Total
      <4>1. k + 1 \in 1 .. Len(q) /\ r.rest # <<>> /\ To(s) < To(q[k + 1])
        <5>1. k + 1 \in 1 .. Len(q) /\ k # Len(q)
          BY <2>2, <1>0
        <5> QED BY <5>1, <2>2, <1>1, <1>2
      <4>2. Piece(h)
        BY <4>1, <1>0
      <4>3. h.at \in Nat /\ h.at <= Total
        <5> HIDE DEF h
        <5> QED BY ONLY <4>2, PieceRange
      <4> QED BY <4>1, <4>2, <4>3, <1>2
    <3>h. h = q[k + 1]
      OBVIOUS
    <3> HIDE DEF h
    <3>2. \A j \in 1 .. k : ~ q[j].fin
      <4>1. \A j \in 1 .. k : j \in 1 .. Len(q) /\ j < k + 1
        BY <1>0
      <4> QED BY <4>1, <3>1, <1>0
    <3>3. r.seg = s
      <4>1. (\E j \in 1 .. k : q[j].fin) = FALSE
        BY <3>2
      <4>2. r.seg = [s EXCEPT !.fin = FALSE]
        BY <1>1, <4>1, Zenon
      <4> QED BY <4>2, <1>4
    <3>e. e = SeqNo(To(s))
      <4>1. EndOf(s) = SeqNo(s.at + TcpLen(s)) /\ s.at + TcpLen(s) = To(s)
        BY <1>4, PieceEnds
      <4> QED BY <4>1, <3>3
    <3>4. s.at < h.at
      <4>1. CASE k = 0
        <5>1. h = q[1] /\ q # <<>> /\ To(q[1]) \in Nat
          BY <4>1, <3>1, <3>h, <2>2, <1>0, PieceFacts, EmptySeq
        <5> QED BY <5>1, <3>1, <1>4
      <4>2. CASE k > 0
        <5>1. k \in 1 .. Len(q) /\ k < k + 1 /\ Piece(q[k]) /\ ~ q[k].fin /\ s.at <= q[k].at
          BY <4>2, <3>2, <1>0
        <5>2. To(q[k]) <= h.at
          BY <5>1, <3>1, <3>h, <1>0
        <5>3. q[k].at < To(q[k]) /\ q[k].at \in Nat /\ To(q[k]) \in Nat
          <6> DEFINE x == q[k]
          <6>1. Piece(x) /\ ~ x.fin
            BY <5>1
          <6> HIDE DEF x
          <6>2. x.at \in Nat /\ x.len \in Nat /\ x.len > 0 /\ To(x) = x.at + x.len
            BY ONLY <6>1, PieceFacts
          <6>3. x.at < To(x) /\ x.at \in Nat /\ To(x) \in Nat
            BY ONLY <6>2
          <6> QED BY <6>3 DEF x
        <5> QED BY <5>1, <5>2, <5>3, <3>1, <1>4
      <4> QED BY <4>1, <4>2
    <3>5. ASSUME NEW j \in 1 .. Len(r.rest) PROVE h.at <= r.rest[j].at
      <4>1. r.rest[j] = q[k + j] /\ k + j \in 1 .. Len(q)
        <5>1. Len(r.rest) = Len(q) - k /\ Len(q) \in Nat
          BY <1>0, <1>2
        <5>2. j \in 1 .. Len(q) - k
          BY ONLY <5>1, <3>5
        <5>3. k + j \in 1 .. Len(q)
          BY ONLY <5>1, <5>2, k \in 0 .. Len(q)
        <5> QED BY <5>2, <5>3, <1>2
      <4>2. CASE j = 1
        BY <4>1, <4>2, <3>1, <3>h
      <4>3. CASE j > 1
        <5>1. k + 1 < k + j
          BY <4>3, <1>0
        <5>2. To(h) <= r.rest[j].at
          BY <5>1, <4>1, <3>1, <3>h, <1>0
        <5>3. h.at <= To(h) /\ To(h) \in Nat /\ r.rest[j].at \in Nat
          <6>1. Piece(r.rest[j])
            BY <4>1, <1>0
          <6>2. r.rest[j].at \in Nat
            BY <6>1, PieceFacts
          <6>3. h.at <= To(h) /\ To(h) \in Nat
            <7> HIDE DEF h
            <7> QED BY <3>1, PieceRange
          <6> QED BY <6>2, <6>3
        <5> QED BY <5>2, <5>3, <3>1
      <4> QED BY <4>2, <4>3, <1>2
    <3>6. h.seq = SeqNo(h.at) /\ (Lt(h.seq, e) <=> h.at < To(s))
      <4> DEFINE u == h.at
                 v == To(s)
      <4>1. u \in 0 .. Total + Wnd + 1 /\ v \in 0 .. Total + Wnd + 1
        BY ONLY <3>1, Piece(s), PieceRange
      <4>2. h.seq = SeqNo(u)
        BY <3>1 DEF Piece
      <4>3. Lt(SeqNo(u), SeqNo(v)) <=> u < v
        <5> HIDE DEF u, v
        <5> QED BY <4>1, NearFacts
      <4> QED BY <4>2, <4>3, <3>1, <3>e
    <3>7. CASE h.at < To(s)
      <4>1. c = Cut(s, h.seq)
        BY <3>7, <3>6, <3>3, <3>1 DEF CutTo
      <4>2. (h.seq - s.seq) % M = h.at - s.at
        <5> DEFINE u == h.at
                   v == s.at
        <5>1. u \in 0 .. Total + Wnd + 1 /\ v \in 0 .. Total + Wnd + 1 /\ u >= v
          <6>1. u \in 0 .. Total + Wnd + 1 /\ v \in 0 .. Total + Wnd + 1 /\ u \in Nat /\ v \in Nat
            BY ONLY <3>1, Piece(s), PieceRange
          <6> QED BY ONLY <6>1, <3>4
        <5>2. (SeqNo(u) - SeqNo(v)) % M = u - v
          <6> HIDE DEF u, v
          <6> QED BY <5>1, NearFacts
        <5> QED BY <5>2, <3>6, <1>4
      <4>3. c = [s EXCEPT !.len = h.at - s.at]
        BY <4>1, <4>2, Zenon DEF Cut
      <4>4. c = [s EXCEPT !.len = h.at - s.at, !.fin = FALSE]
        BY <4>3, <1>4
      <4> DEFINE n == h.at
      <4>5. n \in Nat /\ s.at < n /\ n <= To(s)
        BY <3>1, <3>4, <3>7, <1>4
      <4>6. Piece(c) /\ c.at = s.at /\ To(c) = n /\ ~ c.fin /\ TcpLen(c) = n - s.at
        <5> HIDE DEF n
        <5>1. c = [s EXCEPT !.len = n - s.at, !.fin = FALSE]
          BY <4>4 DEF n
        <5> QED BY <5>1, <4>5, CutPiece
      <4>7. c.at + TcpLen(c) <= hi
        BY <4>5, <4>6, <1>4
      <4> QED BY <4>6, <4>7, <3>5
    <3>8. CASE ~ (h.at < To(s))
      <4>1. c = s
        BY <3>8, <3>6, <3>3, <3>1 DEF CutTo
      <4>2. \A j \in 1 .. Len(r.rest) : To(s) <= r.rest[j].at
        <5>1. \A j \in 1 .. Len(r.rest) : r.rest[j].at \in Nat
          BY <1>3, PieceFacts DEF Queue
        <5>2. To(s) <= h.at /\ To(s) \in Nat /\ h.at \in Nat
          BY ONLY <3>8, <3>1, <1>4
        <5> QED BY ONLY <5>1, <5>2, <3>5
      <4> QED BY <4>1, <4>2, <1>4
    <3> QED BY <3>7, <3>8
  <2> QED BY <2>1, <2>2, <1>0
<1>6. Queue(<<c>>, lo, hi) /\ Len(<<c>>) = 1 /\ <<c>>[1] = c
  BY <1>5, <1>4, OneQueue
<1>7. Queue(<<c>> \o r.rest, lo, hi)
  <2>1. \A i \in 1 .. Len(<<c>>), j \in 1 .. Len(r.rest) : ~ <<c>>[i].fin /\ To(<<c>>[i]) <= r.rest[j].at
    BY <1>5, <1>6
  <2> DEFINE x == <<c>>
             y == r.rest
  <2>2. Queue(x, lo, hi) /\ Queue(y, lo, hi)
        /\ \A i \in 1 .. Len(x), j \in 1 .. Len(y) : ~ x[i].fin /\ To(x[i]) <= y[j].at
    BY <1>6, <1>3, <2>1
  <2>3. Queue(x \o y, lo, hi)
    <3> HIDE DEF x, y
    <3> QED BY <2>2, ConcatQueue
  <2> QED BY <2>3
<1> QED BY <1>3, <1>5, <1>7 DEF Fronted

\* A queue also lies above any smaller bound.
LEMMA LowerQueue ==
    ASSUME NEW q, NEW a \in Int, NEW lo \in Int, NEW hi \in Int, lo <= a, Queue(q, a, hi)
    PROVE  Queue(q, lo, hi)
<1>1. \A i \in 1 .. Len(q) : q[i].at \in Nat
  BY PieceFacts DEF Queue
<1>2. \A i \in 1 .. Len(q) : a <= q[i].at
  BY DEF Queue
<1>3. \A i \in 1 .. Len(q) : lo <= q[i].at
  BY <1>1, <1>2
<1> QED BY <1>3 DEF Queue

\* tcp_oos_insert_segment makes a queue of a segment and what lies behind its
\* first byte.
LEMMA InsertQueue ==
    ASSUME NEW q, NEW hi \in Int, NEW s, Piece(s), Queue(q, s.at, hi), s.at + TcpLen(s) <= hi,
           q # <<>> => s.at < q[1].at \/ To(q[1]) <= To(s)
    PROVE  Queue(OosInsert(s, q), s.at, hi)
<1>1. s.at \in Nat /\ s.at <= s.at /\ s.at \in Int
  BY PieceFacts
<1>2. CASE s.fin
  <2>1. OosInsert(s, q) = <<s>>
    BY <1>2 DEF OosInsert
  <2> QED BY <2>1, <1>1, OneQueue
<1>3. CASE ~ s.fin
  <2> DEFINE r == Swallow(s, q, SeqNo(To(s)))
             e == SeqNo(To(s))
             c == CutTo(r.seg, r.rest, e)
             lo == s.at
  <2>1. OosInsert(s, q) = <<c>> \o r.rest
    BY <1>3, PieceEnds DEF OosInsert
  <2>2. \A i \in 1 .. Len(q) : s.at <= q[i].at
    BY DEF Queue
  <2>3. /\ r = Swallow(s, q, SeqNo(To(s))) /\ c = CutTo(r.seg, r.rest, e)
        /\ e = SeqNo(To(s)) /\ lo \in Nat /\ Queue(q, lo, hi) /\ lo <= s.at
    BY <1>1
  <2> HIDE DEF r, e, c, lo
  <2>4. Queue(<<c>> \o r.rest, lo, hi)
    <3>1. Fronted(c, r.rest, s, lo, hi)
      BY <1>3, <2>2, <2>3, TrimmedQueue
    <3> QED BY <3>1 DEF Fronted
  <2> QED BY <2>1, <2>4 DEF lo
<1> QED BY <1>2, <1>3

\* Cutting the last segment of a queue where s begins leaves a queue that ends there.
LEMMA CutLastQueue ==
    ASSUME NEW q, NEW lo \in Int, NEW hi \in Int, Queue(q, lo, hi), q # <<>>, NEW s, Piece(s),
           \A i \in 1 .. Len(q) : ~ q[i].fin /\ q[i].at < s.at,
           NEW t, t = CutLast(q, s)
    PROVE  Queue(t, lo, hi) /\ \A i \in 1 .. Len(t) : ~ t[i].fin /\ To(t[i]) <= s.at
<1> DEFINE n == Len(q)
           l == q[n]
<1>1. q \in Seq(Segments) /\ n \in Nat /\ n # 0
  BY EmptySeq, LenProperties DEF Queue
<1>2. /\ \A i \in 1 .. n : Piece(q[i]) /\ lo <= q[i].at /\ q[i].at + TcpLen(q[i]) <= hi
      /\ \A i, j \in 1 .. n : i < j => ~ q[i].fin /\ To(q[i]) <= q[j].at
  BY DEF Queue
<1>3. n \in 1 .. n /\ Last(q) = l /\ Piece(l) /\ ~ l.fin /\ l.at < s.at
      /\ lo <= l.at /\ l.at + TcpLen(l) <= hi
  BY <1>1, <1>2 DEF Last
<1>4. /\ s.at \in Nat /\ s.at \in 0 .. Total + Wnd + 1 /\ s.seq = SeqNo(s.at)
      /\ \A i \in 1 .. n : q[i].at \in Nat /\ To(q[i]) \in Nat
  BY <1>2, PieceRange DEF Piece
<1>5. /\ l.at \in Nat /\ l.at \in 0 .. Total + Wnd + 1 /\ To(l) \in Nat /\ To(l) \in 0 .. Total + Wnd + 1
      /\ l.seq = SeqNo(l.at) /\ DataEnd(l) = SeqNo(To(l)) /\ TcpLen(l) = l.len /\ To(l) = l.at + l.len
      /\ l = [seq |-> l.seq, len |-> l.len, fin |-> l.fin, at |-> l.at] /\ l.len \in Nat /\ l.fin = FALSE
  BY <1>3, PieceRange, PieceEnds, PieceFacts DEF Piece
<1>6. \A i \in 1 .. n - 1 : i \in 1 .. n /\ To(q[i]) <= l.at
  <2>1. \A i \in 1 .. n - 1 : i \in 1 .. n /\ i < n
    BY <1>1
  <2> QED BY <2>1, <1>2, <1>3
<1>7. Lt(s.seq, DataEnd(l)) <=> s.at < To(l)
  <2> DEFINE u == s.at
             v == To(l)
  <2>1. u \in 0 .. Total + Wnd + 1 /\ v \in 0 .. Total + Wnd + 1 /\ s.seq = SeqNo(u) /\ DataEnd(l) = SeqNo(v)
    BY <1>4, <1>5
  <2> HIDE DEF u, v
  <2>2. Lt(SeqNo(u), SeqNo(v)) <=> u < v
    BY <2>1, NearFacts
  <2> QED BY <2>1, <2>2 DEF u, v
<1> HIDE DEF l
<1>8. CASE ~ (s.at < To(l))
  <2>1. t = q
    BY <1>3, <1>7, <1>8 DEF CutLast
  <2>2. ASSUME NEW i \in 1 .. n PROVE To(q[i]) <= s.at
    <3>1. CASE i = n
      BY <3>1, <1>8, <1>4, <1>5 DEF l
    <3>2. CASE i # n
      <4>1. i \in 1 .. n - 1
        BY <3>2, <1>1
      <4>2. To(q[i]) <= l.at /\ To(q[i]) \in Nat
        BY <4>1, <1>6, <1>4
      <4> QED BY <4>2, <1>3, <1>4, <1>5
    <3> QED BY <3>1, <3>2
  <2> QED BY <2>1, <2>2
<1>9. CASE s.at < To(l)
  <2> DEFINE c == Cut(l, s.seq)
             f == SubSeq(q, 1, n - 1)
             b == SubSeq(q, n - 1 + 1, n)
             x == <<c>>
  <2>1. t = Append(f, c)
    BY <1>3, <1>7, <1>9 DEF CutLast, Front
  <2>2. (s.seq - l.seq) % M = s.at - l.at
    <3> DEFINE u == s.at
               v == l.at
    <3>1. u \in 0 .. Total + Wnd + 1 /\ v \in 0 .. Total + Wnd + 1 /\ s.seq = SeqNo(u) /\ l.seq = SeqNo(v)
          /\ u >= v
      BY <1>3, <1>4, <1>5
    <3> HIDE DEF u, v
    <3>2. (SeqNo(u) - SeqNo(v)) % M = u - v
      BY <3>1, NearFacts
    <3> QED BY <3>1, <3>2 DEF u, v
  <2>3. c = [l EXCEPT !.len = s.at - l.at]
    BY <2>2, Zenon DEF Cut
  <2>4. c = [l EXCEPT !.len = s.at - l.at, !.fin = FALSE]
    BY <2>3, <1>5
  <2>5. Piece(c) /\ c.at = l.at /\ To(c) = s.at /\ ~ c.fin /\ TcpLen(c) = s.at - l.at
    <3> HIDE DEF c
    <3> DEFINE m == s.at
    <3>1. m \in Nat /\ l.at < m /\ m <= To(l) /\ Piece(l) /\ ~ l.fin
          /\ c = [l EXCEPT !.len = m - l.at, !.fin = FALSE]
      BY <2>4, <1>3, <1>4, <1>5, <1>9
    <3> HIDE DEF m
    <3>2. Piece(c) /\ c.at = l.at /\ To(c) = m /\ ~ c.fin /\ TcpLen(c) = m - l.at
      BY <3>1, CutPiece
    <3> QED BY <3>2 DEF m
  <2>6. c.at + TcpLen(c) <= hi /\ lo <= c.at
    BY <2>5, <1>3, <1>4, <1>5, <1>9
  <2> HIDE DEF c
  <2>7. Queue(x, lo, hi) /\ Len(x) = 1 /\ x[1] = c
    BY <2>5, <2>6, OneQueue
  <2>8. n - 1 \in 0 .. n
    BY <1>1
  <2>9. Queue(f, lo, hi) /\ f \in Seq(Segments) /\ Len(f) = n - 1 /\ \A i \in 1 .. n - 1 : f[i] = q[i]
    <3> DEFINE k == n - 1
               ff == SubSeq(q, 1, k)
               bb == SubSeq(q, k + 1, n)
    <3>1. k \in 0 .. n /\ ff = SubSeq(q, 1, k) /\ bb = SubSeq(q, k + 1, n)
      BY <2>8
    <3> HIDE DEF k, ff, bb
    <3>2. Queue(ff, lo, hi)
      BY ONLY <3>1, Queue(q, lo, hi), lo \in Int, hi \in Int, SplitQueue DEF n
    <3>3. ff \in Seq(Segments) /\ Len(ff) = k /\ \A i \in 1 .. k : ff[i] = q[i]
      BY ONLY <3>1, <1>1, SplitFacts DEF n
    <3> QED BY <3>2, <3>3 DEF k, ff
  <2> HIDE DEF f
  <2>10. t = f \o x
    <3>1. c \in Segments
      BY <2>5 DEF Piece
    <3> QED BY <3>1, <2>1, <2>9, AppendIsConcat
  <2>11. ASSUME NEW i \in 1 .. n - 1 PROVE ~ f[i].fin /\ To(f[i]) <= c.at /\ To(f[i]) <= s.at
    <3>1. f[i] = q[i] /\ i \in 1 .. n /\ To(q[i]) <= l.at /\ To(q[i]) \in Nat
      BY <2>9, <1>4, <1>6
    <3> QED BY <3>1, <2>5, <1>3, <1>4, <1>5
  <2>12. Queue(f \o x, lo, hi)
    <3>1. \A i \in 1 .. Len(f), j \in 1 .. Len(x) : ~ f[i].fin /\ To(f[i]) <= x[j].at
      <4>1. \A j \in 1 .. Len(x) : x[j] = c
        BY <2>7
      <4> HIDE DEF x
      <4> QED BY <4>1, <2>9, <2>11
    <3> HIDE DEF x
    <3> QED BY ONLY <3>1, <2>7, <2>9, lo \in Int, hi \in Int, ConcatQueue
  <2>13. ASSUME NEW i \in 1 .. Len(t) PROVE ~ t[i].fin /\ To(t[i]) <= s.at
    <3>1. x \in Seq(Segments)
      BY <2>7 DEF Queue
    <3> HIDE DEF x
    <3>2. /\ Len(f \o x) = Len(f) + Len(x)
          /\ \A j \in 1 .. Len(f) + Len(x) : (f \o x)[j] = IF j <= Len(f) THEN f[j] ELSE x[j - Len(f)]
      BY ONLY <3>1, <2>9, ConcatProperties
    <3>3. i \in 1 .. n
      BY <2>13, <3>2, <2>7, <2>9, <2>10, <1>1
    <3>4. CASE i = n
      <4>1. t[i] = x[1]
        BY <3>2, <3>4, <2>7, <2>9, <2>10, <1>1
      <4> QED BY <4>1, <2>7, <2>5, <1>4
    <3>5. CASE i # n
      <4>1. i \in 1 .. n - 1 /\ t[i] = f[i]
        BY <3>2, <3>3, <3>5, <2>7, <2>9, <2>10, <1>1
      <4> QED BY <4>1, <2>11
    <3> QED BY <3>4, <3>5
  <2> QED BY <2>10, <2>12, <2>13
<1> QED BY <1>8, <1>9

\* The segments in front of a new one are those that begin before it.
LEMMA BeforeFacts ==
    ASSUME NEW lo \in Int, NEW hi \in Int, Queue(ooseq, lo, hi), NEW s, Piece(s),
           NEW k, k = Before(s)
    PROVE  /\ k \in 0 .. Len(ooseq)
           /\ \A i \in 1 .. k : ooseq[i].at < s.at
           /\ \A i \in k + 1 .. Len(ooseq) : s.at <= ooseq[i].at
<1> DEFINE q == ooseq
           n == Len(q)
           K == {j \in 1 .. n : \A i \in 1 .. j : Lt(q[i].seq, s.seq)}
<1>1. n \in Nat /\ \A i \in 1 .. n : Piece(q[i])
  BY LenProperties DEF Queue
<1>2. /\ \A i \in 1 .. n : q[i].at \in Nat /\ To(q[i]) \in Nat /\ q[i].at <= To(q[i])
      /\ s.at \in Nat
  BY <1>1, PieceRange
<1>3. ASSUME NEW i \in 1 .. n PROVE Lt(q[i].seq, s.seq) <=> q[i].at < s.at
  <2> DEFINE u == q[i].at
             v == s.at
  <2>1. u \in 0 .. Total + Wnd + 1 /\ v \in 0 .. Total + Wnd + 1
    BY <1>1, PieceRange
  <2>2. q[i].seq = SeqNo(u) /\ s.seq = SeqNo(v)
    BY <1>1 DEF Piece
  <2> HIDE DEF u, v
  <2>3. Lt(SeqNo(u), SeqNo(v)) <=> u < v
    BY <2>1, NearFacts
  <2> QED BY <2>2, <2>3 DEF u, v
<1>4. k = Cardinality(K)
  BY DEF Before, Prefix
<1>5. K \in SUBSET (1 .. n) /\ \A j \in K : \A i \in 1 .. j : i \in K
  BY <1>1
<1>6. k \in 0 .. n /\ K = 1 .. k
  <2>1. n \in Nat
    BY <1>1
  <2> HIDE DEF K, n
  <2> QED BY ONLY <2>1, <1>4, <1>5, PrefixInterval
<1>7. ASSUME NEW i \in 1 .. k PROVE i \in 1 .. n /\ q[i].at < s.at
  <2>1. i \in K
    <3> HIDE DEF K
    <3> QED BY <1>6
  <2>2. i \in 1 .. n /\ Lt(q[i].seq, s.seq)
    <3> HIDE DEF n, q
    <3> QED BY <2>1, <1>1
  <2> QED BY <2>2, <1>3
<1>8. ASSUME NEW i \in k + 1 .. n PROVE s.at <= q[i].at
  <2>1. k + 1 \in 1 .. n /\ k + 1 \notin K /\ i \in 1 .. n
    <3> HIDE DEF K, n, q
    <3> QED BY <1>1, <1>6
  <2>2. ~ (q[k + 1].at < s.at)
    <3>1. SUFFICES ASSUME q[k + 1].at < s.at PROVE FALSE
      OBVIOUS
    <3>2. \A j \in 1 .. k + 1 : j \in 1 .. n /\ q[j].at < s.at
      <4>1. \A j \in 1 .. k + 1 : j \in 1 .. k \/ j = k + 1
        <5> HIDE DEF K, n, q
        <5> QED BY <1>6
      <4> HIDE DEF K, n, q
      <4> QED BY <4>1, <3>1, <1>7, <2>1
    <3>3. \A j \in 1 .. k + 1 : Lt(q[j].seq, s.seq)
      <4> HIDE DEF K, n, q
      <4> QED BY <3>2, <1>3
    <3>4. k + 1 \in K
      <4> HIDE DEF n, q
      <4> QED BY <3>3, <2>1
    <3> QED BY <3>4, <2>1
  <2>3. CASE i = k + 1
    <3> HIDE DEF K, n, q
    <3> QED BY <2>3, <2>2, <1>2, <2>1
  <2>4. CASE i # k + 1
    <3>1. k + 1 < i
      <4> HIDE DEF K, n, q
      <4> QED BY <2>4, <1>6, <1>8
    <3>2. To(q[k + 1]) <= q[i].at
      BY <3>1, <2>1 DEF Queue
    <3> HIDE DEF K, n, q
    <3> QED BY <3>2, <2>1, <2>2, <1>2
  <2> QED BY <2>3, <2>4
<1> HIDE DEF K
<1> QED BY <1>6, <1>7, <1>8

\* A segment beyond the next byte, inside the window, leaves a sound queue.
LEMMA EnqueueQueue ==
    ASSUME NEW lo \in Int, NEW hi \in Int, Queue(ooseq, lo, hi), NEW s, Piece(s),
           lo <= s.at, s.at + TcpLen(s) <= hi, FitWindow(s) = s
    PROVE  Queue(Enqueue(s), lo, hi)
<1> DEFINE k == Before(s)
           f == SubSeq(ooseq, 1, k)
           b == SubSeq(ooseq, k + 1, Len(ooseq))
<1>1. /\ k \in 0 .. Len(ooseq)
      /\ \A i \in 1 .. k : ooseq[i].at < s.at
      /\ \A i \in k + 1 .. Len(ooseq) : s.at <= ooseq[i].at
  <2> HIDE DEF k
  <2> QED BY BeforeFacts DEF k
<1>2. Enqueue(s) = IF ooseq = <<>> THEN <<s>>
        ELSE IF b # <<>> /\ Head(b).seq = s.seq
        THEN IF s.len > Head(b).len /\ Len(b) > 1 THEN f \o OosInsert(s, b) ELSE ooseq
        ELSE IF f = <<>> THEN OosInsert(s, b)
        ELSE IF b # <<>> THEN CutLast(f, s) \o OosInsert(s, b)
        ELSE IF Last(f).fin THEN ooseq
        ELSE CutLast(f, s) \o <<FitWindow(s)>>
  BY DEF Enqueue
<1>3. f = SubSeq(ooseq, 1, k) /\ b = SubSeq(ooseq, k + 1, Len(ooseq))
  OBVIOUS
<1> HIDE DEF k, f, b
<1>4. ooseq \in Seq(Segments)
  BY DEF Queue
<1>5. Queue(f, lo, hi) /\ Queue(b, lo, hi)
  BY ONLY <1>1, <1>3, Queue(ooseq, lo, hi), lo \in Int, hi \in Int, SplitQueue
<1>6. /\ Len(ooseq) \in Nat
      /\ f \in Seq(Segments) /\ Len(f) = k /\ \A i \in 1 .. k : f[i] = ooseq[i]
      /\ b \in Seq(Segments) /\ Len(b) = Len(ooseq) - k
      /\ \A i \in 1 .. Len(ooseq) - k : b[i] = ooseq[k + i]
  BY ONLY <1>1, <1>3, <1>4, SplitFacts
<1>7. /\ f = <<>> <=> k = 0
      /\ b = <<>> <=> k = Len(ooseq)
  <2>1. (f = <<>> <=> Len(f) = 0) /\ (b = <<>> <=> Len(b) = 0)
    BY ONLY <1>6, EmptySeq
  <2> QED BY ONLY <2>1, <1>6, <1>1
<1>8. b # <<>> => 1 \in 1 .. Len(b) /\ Head(b) = b[1]
  <2>1. b # <<>> => 1 \in 1 .. Len(b)
    BY <1>1, <1>6, <1>7
  <2> QED BY <2>1, <1>6
<1>9. s.at \in Nat /\ s.at \in Int /\ s.at \in 0 .. Total + Wnd + 1 /\ s.seq = SeqNo(s.at)
  BY PieceRange DEF Piece
<1>10. Queue(b, s.at, hi)
  <2>1. \A i \in 1 .. Len(b) : s.at <= b[i].at
    <3>1. \A i \in 1 .. Len(b) : k + i \in k + 1 .. Len(ooseq) /\ b[i] = ooseq[k + i]
      BY <1>1, <1>6
    <3> QED BY <3>1, <1>1
  <2> QED BY <2>1, <1>5 DEF Queue
<1>11. \A i \in 1 .. Len(f) : i \in 1 .. Len(ooseq) /\ f[i] = ooseq[i] /\ f[i].at < s.at
  BY <1>1, <1>6
<1>12. \A i \in 1 .. Len(f), j \in 1 .. Len(b) : ~ f[i].fin /\ To(f[i]) <= b[j].at
  <2>1. SUFFICES ASSUME NEW i \in 1 .. Len(f), NEW j \in 1 .. Len(b)
                 PROVE  ~ f[i].fin /\ To(f[i]) <= b[j].at
    OBVIOUS
  <2>2. i \in 1 .. Len(ooseq) /\ k + j \in 1 .. Len(ooseq) /\ i < k + j
        /\ f[i] = ooseq[i] /\ b[j] = ooseq[k + j]
    BY <1>1, <1>6
  <2> QED BY <2>2 DEF Queue
<1>13. CASE ooseq = <<>>
  <2>1. Enqueue(s) = <<s>>
    BY <1>13, <1>2
  <2> QED BY <2>1, OneQueue
<1>14. CASE b # <<>> /\ Head(b).seq = s.seq /\ ooseq # <<>>
  <2>1. CASE ~ (s.len > Head(b).len /\ Len(b) > 1)
    BY <2>1, <1>14, <1>2
  <2>2. CASE s.len > Head(b).len /\ Len(b) > 1
    <3> DEFINE h == b[1]
               o == OosInsert(s, b)
    <3>1. Piece(h) /\ h.seq = s.seq /\ s.len > h.len
      BY <2>2, <1>14, <1>8, <1>5 DEF Queue
    <3>2. h.at = s.at
      <4> DEFINE u == h.at
                 v == s.at
      <4>1. u \in 0 .. Total + Wnd + 1 /\ v \in 0 .. Total + Wnd + 1
            /\ SeqNo(u) = SeqNo(v)
        <5> HIDE DEF h
        <5> QED BY <3>1, <1>9, PieceRange DEF Piece
      <4> HIDE DEF u, v
      <4>2. u = v
        BY <4>1, NearFacts
      <4> QED BY <4>2 DEF u, v
    <3>3. To(h) <= To(s)
      <4> HIDE DEF h
      <4>1. h.len \in Nat /\ s.len \in Nat /\ To(h) = h.at + h.len /\ To(s) = s.at + s.len
        BY <3>1, PieceFacts
      <4> QED BY <4>1, <3>1, <3>2, <1>9
    <3>4. Queue(o, s.at, hi)
      BY <3>3, <1>10, InsertQueue
    <3>5. Queue(o, lo, hi)
      <4> HIDE DEF o
      <4> QED BY <3>4, <1>9, LowerQueue
    <3>6. Enqueue(s) = f \o o
      BY <2>2, <1>14, <1>2
    <3>7. \A i \in 1 .. Len(f), j \in 1 .. Len(o) : ~ f[i].fin /\ To(f[i]) <= o[j].at
      <4>1. SUFFICES ASSUME NEW i \in 1 .. Len(f), NEW j \in 1 .. Len(o)
                     PROVE  ~ f[i].fin /\ To(f[i]) <= o[j].at
        OBVIOUS
      <4>2. s.at <= o[j].at /\ o[j].at \in Nat
        <5> HIDE DEF o
        <5> QED BY <3>4, PieceFacts DEF Queue
      <4>3. ~ f[i].fin /\ To(f[i]) <= s.at
        BY <1>12, <1>8, <1>14, <3>2
      <4>4. To(f[i]) \in Nat
        BY <1>5, PieceRange DEF Queue
      <4> HIDE DEF o
      <4> QED BY <4>2, <4>3, <4>4, <1>9
    <3> HIDE DEF o
    <3> QED BY <3>5, <3>6, <3>7, <1>5, ConcatQueue
  <2> QED BY <2>1, <2>2
<1>15. ASSUME ~ (b # <<>> /\ Head(b).seq = s.seq)
       PROVE  Queue(OosInsert(s, b), s.at, hi) /\ Queue(OosInsert(s, b), lo, hi)
  <2>1. b # <<>> => s.at < b[1].at
    <3>1. SUFFICES ASSUME b # <<>> PROVE s.at < b[1].at
      OBVIOUS
    <3> DEFINE h == b[1]
    <3>2. Piece(h) /\ s.at <= h.at /\ h.seq # s.seq
      BY <3>1, <1>8, <1>10, <1>15 DEF Queue
    <3>3. h.at # s.at /\ h.at \in Nat
      <4> HIDE DEF h
      <4> QED BY <3>2, <1>9, PieceRange DEF Piece
    <3> HIDE DEF h
    <3>4. s.at < h.at
      BY <3>2, <3>3, <1>9
    <3> QED BY <3>4 DEF h
  <2>2. Queue(OosInsert(s, b), s.at, hi)
    BY <2>1, <1>10, InsertQueue
  <2> DEFINE o == OosInsert(s, b)
  <2>3. Queue(o, lo, hi)
    <3>1. Queue(o, s.at, hi)
      BY <2>2
    <3> HIDE DEF o
    <3> QED BY <3>1, <1>9, LowerQueue
  <2> QED BY <2>2, <2>3
<1>16. CASE ~ (b # <<>> /\ Head(b).seq = s.seq) /\ ooseq # <<>> /\ f = <<>>
  BY <1>16, <1>15, <1>2
<1>17. ASSUME f # <<>>, \A i \in 1 .. Len(f) : ~ f[i].fin, NEW o, Queue(o, s.at, hi), Queue(o, lo, hi)
       PROVE  Queue(CutLast(f, s) \o o, lo, hi)
  <2> DEFINE t == CutLast(f, s)
  <2>1. t = CutLast(f, s)
    OBVIOUS
  <2> HIDE DEF t
  <2>2. Queue(t, lo, hi) /\ \A i \in 1 .. Len(t) : ~ t[i].fin /\ To(t[i]) <= s.at
    BY <2>1, <1>17, <1>11, <1>5, CutLastQueue
  <2>3. \A i \in 1 .. Len(t), j \in 1 .. Len(o) : ~ t[i].fin /\ To(t[i]) <= o[j].at
    <3>1. \A j \in 1 .. Len(o) : s.at <= o[j].at /\ o[j].at \in Nat
      BY <1>17, PieceFacts DEF Queue
    <3>2. \A i \in 1 .. Len(t) : To(t[i]) \in Nat
      BY <2>2, PieceRange DEF Queue
    <3> QED BY <3>1, <3>2, <2>2, <1>9
  <2>4. Queue(t \o o, lo, hi)
    BY <2>2, <2>3, <1>17, ConcatQueue
  <2> QED BY <2>4 DEF t
<1>18. CASE ~ (b # <<>> /\ Head(b).seq = s.seq) /\ ooseq # <<>> /\ f # <<>> /\ b # <<>>
  <2>1. Enqueue(s) = CutLast(f, s) \o OosInsert(s, b)
    BY <1>18, <1>2
  <2>2. \A i \in 1 .. Len(f) : ~ f[i].fin
    BY <1>18, <1>8, <1>12
  <2> DEFINE o == OosInsert(s, b)
  <2>3. Queue(o, s.at, hi) /\ Queue(o, lo, hi)
    BY <1>18, <1>15
  <2>4. Queue(CutLast(f, s) \o o, lo, hi)
    <3> HIDE DEF o
    <3> QED BY <2>2, <2>3, <1>17, <1>18
  <2> QED BY <2>1, <2>4
<1>19. CASE ooseq # <<>> /\ f # <<>> /\ b = <<>>
  <2>1. CASE Last(f).fin
    BY <2>1, <1>19, <1>2
  <2>2. CASE ~ Last(f).fin
    <3>1. Enqueue(s) = CutLast(f, s) \o <<s>>
      BY <2>2, <1>19, <1>2
    <3>2. Last(f) = f[Len(f)] /\ Len(f) \in Nat
      BY <1>6, LenProperties DEF Last
    <3>3. ASSUME NEW i \in 1 .. Len(f) PROVE ~ f[i].fin
      <4>1. CASE i = Len(f)
        BY <4>1, <3>2, <2>2
      <4>2. CASE i # Len(f)
        <5>1. i < Len(f) /\ Len(f) \in 1 .. Len(f)
          BY <4>2, <3>2
        <5> QED BY <5>1, <1>5 DEF Queue
      <4> QED BY <4>1, <4>2
    <3> DEFINE o == <<s>>
    <3>4. Queue(o, s.at, hi) /\ Queue(o, lo, hi)
      BY <1>9, OneQueue
    <3>5. Queue(CutLast(f, s) \o o, lo, hi)
      <4> HIDE DEF o
      <4> QED BY <3>3, <3>4, <1>17, <1>19
    <3> QED BY <3>1, <3>5
  <2> QED BY <2>1, <2>2
<1> QED BY <1>13, <1>14, <1>16, <1>18, <1>19

-----------------------------------------------------------------------------
(* Delivery. *)

\* The recursive function of FlattenSeq.
IsFlat(f, seqs) ==
    f = [i \in 1 .. Len(seqs) |-> IF i = 1 THEN seqs[i] ELSE f[i - 1] \o seqs[i]]

\* The positions from a up to b, in order.
Bytes(a, b) == [i \in 1 .. b - a |-> a + i - 1]

\* They are a sequence.
LEMMA BytesFacts ==
    ASSUME NEW a \in Nat, NEW b \in Nat, a <= b
    PROVE  /\ Bytes(a, b) \in Seq(Nat) /\ Len(Bytes(a, b)) = b - a
           /\ \A i \in 1 .. b - a : Bytes(a, b)[i] = a + i - 1
<1> DEFINE n == b - a
           f == Bytes(a, b)
<1>1. n \in Nat /\ f = [i \in 1 .. n |-> a + i - 1]
  BY DEF Bytes
<1>2. \A i \in 1 .. n : a + i - 1 \in Nat
  BY <1>1
<1>3. f \in [1 .. n -> Nat] /\ \A i \in 1 .. n : f[i] = a + i - 1
  BY <1>1, <1>2
<1> HIDE DEF n, f
<1>4. f \in Seq(Nat)
  BY <1>1, <1>3, SeqDef
<1>5. Len(f) = n
  BY <1>1, <1>3, <1>4, LenProperties
<1> QED BY <1>3, <1>4, <1>5 DEF n, f

\* Two stretches that meet are one.
LEMMA BytesConcat ==
    ASSUME NEW a \in Nat, NEW b \in Nat, NEW c \in Nat, a <= b, b <= c
    PROVE  Bytes(a, b) \o Bytes(b, c) = Bytes(a, c)
<1> DEFINE f == Bytes(a, b)
           g == Bytes(b, c)
           h == Bytes(a, c)
<1>1. f \in Seq(Nat) /\ Len(f) = b - a /\ \A i \in 1 .. b - a : f[i] = a + i - 1
  BY BytesFacts
<1>2. g \in Seq(Nat) /\ Len(g) = c - b /\ \A i \in 1 .. c - b : g[i] = b + i - 1
  BY BytesFacts
<1>3. a <= c
  OBVIOUS
<1>4. h \in Seq(Nat) /\ Len(h) = c - a /\ \A i \in 1 .. c - a : h[i] = a + i - 1
  BY <1>3, BytesFacts
<1> HIDE DEF f, g, h
<1>5. /\ f \o g \in Seq(Nat) /\ Len(f \o g) = Len(f) + Len(g)
      /\ \A i \in 1 .. Len(f) + Len(g) : (f \o g)[i] = IF i <= Len(f) THEN f[i] ELSE g[i - Len(f)]
  BY <1>1, <1>2, ConcatProperties
<1>6. Len(f \o g) = c - a /\ Len(f) + Len(g) = c - a
  BY <1>1, <1>2, <1>5
<1>7. ASSUME NEW i \in 1 .. c - a PROVE (f \o g)[i] = h[i]
  <2>1. (f \o g)[i] = IF i <= b - a THEN f[i] ELSE g[i - (b - a)]
    BY <1>1, <1>5, <1>6
  <2>2. CASE i <= b - a
    <3>1. i \in 1 .. b - a
      BY <2>2
    <3> QED BY <3>1, <2>1, <2>2, <1>1, <1>4
  <2>3. CASE ~ (i <= b - a)
    <3>1. i - (b - a) \in 1 .. c - b /\ b + (i - (b - a)) - 1 = a + i - 1
      BY <2>3
    <3> QED BY <3>1, <2>1, <2>3, <1>2, <1>4
  <2> QED BY <2>2, <2>3
<1>8. \A i \in 1 .. Len(f \o g) : (f \o g)[i] = h[i]
  BY <1>6, <1>7
<1>9. f \o g = h
  BY <1>4, <1>5, <1>6, <1>8, SeqEqual
<1> QED BY <1>9 DEF f, g, h

\* The payload of a piece.
LEMMA PayloadIs ==
    ASSUME NEW s, Piece(s)
    PROVE  Payload(s) = Bytes(s.at, To(s))
<1>1. s.len \in Nat /\ s.at \in Nat /\ To(s) = s.at + s.len
  BY PieceFacts
<1>2. To(s) - s.at = s.len
  BY <1>1
<1> QED BY <1>2 DEF Payload, Bytes

\* Segments that follow one another are together one stretch of the stream.
LEMMA FlatIs ==
    ASSUME NEW t, NEW lo \in Int, NEW hi \in Int, Queue(t, lo, hi), NEW n \in 1 .. Len(t),
           \A i \in 1 .. n - 1 : t[i + 1].at = To(t[i])
    PROVE  /\ FlattenSeq([i \in 1 .. n |-> Payload(t[i])]) = Bytes(t[1].at, To(t[n]))
           /\ t[1].at <= To(t[n])
<1> DEFINE a == t[1].at
           seqs == [i \in 1 .. n |-> Payload(t[i])]
           g == [i \in 1 .. n |-> Bytes(a, To(t[i]))]
<1>1. n \in Nat /\ n > 0 /\ 1 \in 1 .. n /\ Len(t) \in Nat /\ \A i \in 1 .. n : i \in 1 .. Len(t)
  BY LenProperties DEF Queue
<1>2. \A i \in 1 .. n : Piece(t[i])
  BY <1>1 DEF Queue
<1>3. ASSUME NEW i \in 1 .. n
      PROVE  t[i].at \in Nat /\ To(t[i]) \in Nat /\ t[i].at <= To(t[i]) /\ a \in Nat /\ a <= t[i].at
             /\ a <= To(t[i]) /\ Payload(t[i]) = Bytes(t[i].at, To(t[i]))
  <2>1. Piece(t[i]) /\ Piece(t[1])
    BY <1>1, <1>2
  <2>2. t[i].at \in Nat /\ To(t[i]) \in Nat /\ t[i].at <= To(t[i])
    BY <2>1, PieceRange
  <2>3. a \in Nat /\ To(t[1]) \in Nat /\ a <= To(t[1])
    BY <2>1, PieceRange
  <2>4. a <= t[i].at
    <3>1. CASE i = 1
      BY <3>1, <2>3
    <3>2. CASE i # 1
      <4>1. To(t[1]) <= t[i].at
        <5>1. 1 < i /\ 1 \in 1 .. Len(t) /\ i \in 1 .. Len(t)
          BY <3>2, <1>1
        <5> QED BY <5>1 DEF Queue
      <4> QED BY <4>1, <2>2, <2>3
    <3> QED BY <3>1, <3>2
  <2>5. Payload(t[i]) = Bytes(t[i].at, To(t[i]))
    BY <2>1, PayloadIs
  <2>6. a <= To(t[i])
    BY <2>2, <2>3, <2>4
  <2> QED BY <2>2, <2>3, <2>4, <2>5, <2>6
<1>4. \A i \in 1 .. n : seqs[i] = Bytes(t[i].at, To(t[i])) /\ g[i] = Bytes(a, To(t[i]))
  BY <1>3
<1>5. ASSUME NEW i \in 1 .. n, i # 1
      PROVE  g[i - 1] \o seqs[i] = g[i]
  <2>1. i - 1 \in 1 .. n /\ i - 1 \in 1 .. n - 1 /\ (i - 1) + 1 = i
    BY <1>5
  <2>2. t[i].at = To(t[i - 1])
    BY <2>1
  <2> DEFINE u == To(t[i - 1])
             v == To(t[i])
  <2>3. a \in Nat /\ u \in Nat /\ v \in Nat /\ a <= u /\ u <= v
    BY <1>3, <2>1, <2>2
  <2>4. g[i - 1] = Bytes(a, u) /\ seqs[i] = Bytes(u, v) /\ g[i] = Bytes(a, v)
    <3> HIDE DEF g, seqs, a
    <3> QED BY <1>4, <2>1, <2>2
  <2> HIDE DEF a, u, v, g, seqs
  <2>5. Bytes(a, u) \o Bytes(u, v) = Bytes(a, v)
    BY <2>3, BytesConcat
  <2> QED BY <2>4, <2>5
<1>6. Len(seqs) = n
  <2>1. DOMAIN seqs = 1 .. n
    OBVIOUS
  <2>2. seqs \in Seq({seqs[i] : i \in 1 .. n})
    <3> DEFINE S == {seqs[i] : i \in 1 .. n}
    <3>1. seqs \in [1 .. n -> S]
      OBVIOUS
    <3> HIDE DEF S, seqs
    <3>2. seqs \in Seq(S)
      BY <3>1, <1>1, SeqDef
    <3> QED BY <3>2 DEF S
  <2> HIDE DEF seqs
  <2>3. DOMAIN seqs = 1 .. Len(seqs) /\ Len(seqs) \in Nat
    BY <2>2, LenProperties
  <2> QED BY <2>1, <2>3, <1>1
<1>7. IsFlat(g, seqs)
  <2>1. seqs[1] = g[1]
    BY <1>4, <1>1
  <2>2. \A i \in 1 .. n : g[i] = IF i = 1 THEN seqs[i] ELSE g[i - 1] \o seqs[i]
    <3> HIDE DEF g, seqs
    <3> QED BY <2>1, <1>5
  <2>3. g = [i \in 1 .. n |-> g[i]]
    OBVIOUS
  <2> HIDE DEF g, seqs
  <2>4. g = [i \in 1 .. n |-> IF i = 1 THEN seqs[i] ELSE g[i - 1] \o seqs[i]]
    BY <2>2, <2>3
  <2> QED BY <2>4, <1>6 DEF IsFlat
<1>8. ASSUME NEW f, IsFlat(f, seqs)
      PROVE  f[n] = g[n]
  <2> DEFINE S == {m \in Nat : m = 0 \/ m > n \/ f[m] = g[m]}
  <2>1. 0 \in S
    OBVIOUS
  <2>2. \A i \in 1 .. n : f[i] = IF i = 1 THEN seqs[i] ELSE f[i - 1] \o seqs[i]
    <3> HIDE DEF seqs, g
    <3> QED BY <1>6, <1>8 DEF IsFlat
  <2>3. \A i \in 1 .. n : g[i] = IF i = 1 THEN seqs[i] ELSE g[i - 1] \o seqs[i]
    <3> HIDE DEF seqs, g
    <3> QED BY <1>6, <1>7 DEF IsFlat
  <2> HIDE DEF seqs, g
  <2>4. ASSUME NEW m \in Nat, m \in S PROVE m + 1 \in S
    <3>1. CASE m + 1 > n
      BY <3>1
    <3>2. CASE m + 1 <= n /\ m = 0
      <4>1. m + 1 = 1 /\ m + 1 \in 1 .. n
        BY <3>2, <1>1
      <4>2. f[1] = seqs[1] /\ g[1] = seqs[1]
        BY <2>2, <2>3, <1>1
      <4>3. f[m + 1] = g[m + 1]
        BY <4>1, <4>2, Zenon
      <4> QED BY <4>3
    <3>3. CASE m + 1 <= n /\ m # 0
      <4>1. m + 1 \in 1 .. n /\ m + 1 # 1 /\ (m + 1) - 1 = m /\ f[m] = g[m]
        BY <2>4, <3>3, <1>1
      <4>2. f[m + 1] = f[m] \o seqs[m + 1] /\ g[m + 1] = g[m] \o seqs[m + 1]
        BY <2>2, <2>3, <4>1
      <4>3. f[m + 1] = g[m + 1]
        BY <4>1, <4>2, Zenon
      <4> QED BY <4>3
    <3> QED BY <3>1, <3>2, <3>3, <1>1
  <2>5. n \in S
    <3> HIDE DEF S
    <3> QED BY <2>1, <2>4, <1>1, SetInduction
  <2> QED BY <2>5, <1>1
<1>9. FlattenSeq(seqs) = g[n]
  <2> DEFINE c == CHOOSE f : IsFlat(f, seqs)
  <2>1. IsFlat(c, seqs)
    <3> HIDE DEF seqs, g
    <3> QED BY <1>7
  <2>2. FlattenSeq(seqs) = c[n]
    <3> HIDE DEF seqs
    <3> QED BY <1>6, <1>1 DEF FlattenSeq, IsFlat
  <2> HIDE DEF c, seqs, g
  <2> QED BY <2>1, <2>2, <1>8
<1>10. n \in 1 .. n
  BY <1>1
<1>11. g[n] = Bytes(a, To(t[n])) /\ a <= To(t[n])
  BY <1>3, <1>4, <1>10
<1> QED BY <1>9, <1>11

\* In t, c and the queue r behind it, k segments of r follow c without a gap.
InRow(c, r, t, k) ==
    /\ k \in 0 .. Len(r) /\ Len(r) \in Nat
    /\ Len(t) = Len(r) + 1 /\ t[1] = c /\ \A i \in 1 .. Len(r) : t[i + 1] = r[i]
    /\ \A i \in 1 .. k : t[i + 1].at = t[i].at + TcpLen(t[i])
    /\ k < Len(r) => t[(k + 1) + 1].at # t[k + 1].at + TcpLen(t[k + 1])

\* InSequence counts how far the segments behind c follow one another.
LEMMA SequenceFacts ==
    ASSUME NEW lo \in Int, NEW hi \in Int, NEW c, Piece(c), NEW r, Queue(r, lo, hi),
           NEW t, t = <<c>> \o r, NEW k, k = InSequence(EndOf(c), r)
    PROVE  InRow(c, r, t, k)
<1> DEFINE n == Len(r)
           P(i) == r[i].seq = IF i = 1 THEN EndOf(c) ELSE EndOf(r[i - 1])
           K == {j \in 1 .. n : \A i \in 1 .. j : P(i)}
<1>1. n \in Nat /\ r \in Seq(Segments) /\ \A i \in 1 .. n : Piece(r[i])
  BY LenProperties DEF Queue
<1>2. Len(t) = n + 1 /\ t[1] = c /\ \A i \in 1 .. n : t[i + 1] = r[i]
  <2> DEFINE x == <<c>>
  <2>1. c \in Segments
    BY DEF Piece
  <2>2. x \in Seq(Segments) /\ Len(x) = 1 /\ x[1] = c
    BY <2>1
  <2> HIDE DEF x
  <2>3. /\ Len(x \o r) = Len(x) + Len(r)
        /\ \A i \in 1 .. Len(x) + Len(r) : (x \o r)[i] = IF i <= Len(x) THEN x[i] ELSE r[i - Len(x)]
    BY <1>1, <2>2, ConcatProperties
  <2>4. t = x \o r
    BY DEF x
  <2>5. \A i \in 1 .. n : t[i + 1] = r[i]
    <3>1. SUFFICES ASSUME NEW i \in 1 .. n PROVE t[i + 1] = r[i]
      OBVIOUS
    <3>2. i + 1 \in 1 .. 1 + n /\ ~ (i + 1 <= 1) /\ (i + 1) - 1 = i
      BY <1>1
    <3> QED BY <3>2, <2>2, <2>3, <2>4
  <2>6. Len(t) = n + 1 /\ t[1] = c
    BY <2>2, <2>3, <2>4, <1>1
  <2> QED BY <2>5, <2>6
<1>3. ASSUME NEW i \in 1 .. n
      PROVE  P(i) <=> t[i + 1].at = t[i].at + TcpLen(t[i])
  <2>1. Piece(t[i]) /\ t[i + 1] = r[i] /\ Piece(r[i])
        /\ (IF i = 1 THEN EndOf(c) ELSE EndOf(r[i - 1])) = EndOf(t[i])
    <3>1. t[i + 1] = r[i] /\ Piece(r[i])
      BY <1>1, <1>2
    <3>2. CASE i = 1
      BY <3>1, <3>2, <1>2
    <3>3. CASE i # 1
      <4>1. i - 1 \in 1 .. n /\ (i - 1) + 1 = i
        BY <3>3, <1>1
      <4>2. t[i] = r[i - 1]
        BY <4>1, <1>2
      <4> QED BY <3>1, <3>3, <4>1, <4>2, <1>1
    <3> QED BY <3>2, <3>3
  <2> DEFINE u == r[i].at
             v == t[i].at + TcpLen(t[i])
  <2>2. u \in 0 .. Total + Wnd + 1 /\ v \in 0 .. Total + Wnd + 1
    BY <2>1, PieceRange
  <2>3. r[i].seq = SeqNo(u) /\ EndOf(t[i]) = SeqNo(v)
    BY <2>1, PieceEnds DEF Piece
  <2>4. SeqNo(u) = SeqNo(v) <=> u = v
    <3> HIDE DEF u, v
    <3> QED BY <2>2, NearFacts
  <2> QED BY <2>1, <2>3, <2>4
<1>4. k = Cardinality(K)
  BY DEF InSequence, Prefix
<1>5. K \in SUBSET (1 .. n) /\ \A j \in K : \A i \in 1 .. j : i \in K
  <2> HIDE DEF P, n
  <2> QED BY <1>1
<1>6. k \in 0 .. n /\ K = 1 .. k
  <2>1. n \in Nat
    BY <1>1
  <2> HIDE DEF K, n
  <2> QED BY ONLY <2>1, <1>4, <1>5, PrefixInterval
<1>7. ASSUME NEW i \in 1 .. k PROVE i \in 1 .. n /\ P(i)
  <2>1. i \in K
    <3> HIDE DEF K
    <3> QED BY <1>6
  <2> HIDE DEF P, n
  <2> QED BY <2>1, <1>1
<1>8. k < n => ~ P(k + 1)
  <2>1. SUFFICES ASSUME k < n, P(k + 1) PROVE FALSE
    OBVIOUS
  <2> HIDE DEF P, n
  <2>2. k + 1 \in 1 .. n /\ k + 1 \notin K
    <3> HIDE DEF K
    <3> QED BY <2>1, <1>1, <1>6
  <2>3. \A j \in 1 .. k + 1 : P(j)
    <3>1. \A j \in 1 .. k + 1 : j \in 1 .. k \/ j = k + 1
      <4> HIDE DEF K
      <4> QED BY <1>6
    <3> HIDE DEF K
    <3> QED BY <3>1, <2>1, <1>7
  <2>4. k + 1 \in K
    BY <2>2, <2>3
  <2> QED BY <2>2, <2>4
<1>9. \A i \in 1 .. k : t[i + 1].at = t[i].at + TcpLen(t[i])
  <2> HIDE DEF P, K, n
  <2> QED BY <1>3, <1>7
<1>10. k < n => t[(k + 1) + 1].at # t[k + 1].at + TcpLen(t[k + 1])
  <2>1. SUFFICES ASSUME k < n PROVE t[(k + 1) + 1].at # t[k + 1].at + TcpLen(t[k + 1])
    OBVIOUS
  <2> HIDE DEF P, K, n
  <2>2. k + 1 \in 1 .. n
    BY <2>1, <1>1, <1>6
  <2> QED BY <2>1, <2>2, <1>3, <1>8
<1> HIDE DEF K, P
<1> QED BY <1>1, <1>2, <1>6, <1>9, <1>10 DEF InRow

\* What is left of an in-order segment c and of the queue after they were cut
\* against each other is a queue that begins with c's first byte.
LEMMA FittedFacts ==
    ASSUME NEW hi \in Int, NEW c, Piece(c), c.at + TcpLen(c) <= hi, Queue(ooseq, c.at + 1, hi),
           FitWindow(c) = c, NEW f, f = Fitted(c)
    PROVE  /\ Piece(f.seg) /\ f.seg.at = c.at /\ Queue(f.rest, c.at, hi)
           /\ Queue(<<f.seg>> \o f.rest, c.at, hi)
<1>1. c.at \in Nat /\ c.at \in Int /\ c.at + 1 \in Int /\ c.at <= c.at + 1
  BY PieceFacts
<1>2. Queue(ooseq, c.at, hi)
  <2> DEFINE a == c.at + 1
             lo == c.at
  <2>1. a \in Int /\ lo \in Int /\ lo <= a /\ Queue(ooseq, a, hi)
    BY <1>1
  <2> HIDE DEF a, lo
  <2>2. Queue(ooseq, lo, hi)
    BY <2>1, LowerQueue
  <2> QED BY <2>2 DEF lo
<1>3. CASE c.fin
  <2>1. f.seg = c /\ f.rest = <<>>
    BY <1>3 DEF Fitted
  <2>2. Queue(<<>>, c.at, hi)
    BY EmptySeq DEF Queue
  <2>3. Queue(<<c>>, c.at, hi)
    BY <1>1, OneQueue
  <2>4. <<c>> \o <<>> = <<c>>
    <3>1. <<c>> \in Seq(Segments)
      BY <2>3 DEF Queue
    <3> QED BY <3>1, ConcatEmptySeq
  <2> QED BY <2>1, <2>2, <2>3, <2>4
<1>4. CASE ~ c.fin
  <2> DEFINE r == Swallow(c, ooseq, SeqNo(To(c)))
             e == EndOf(r.seg)
             d == CutTo(r.seg, r.rest, e)
             lo == c.at
  <2>1. EndOf(c) = SeqNo(To(c))
    BY <1>4, PieceFacts, PieceEnds
  <2>2. f.seg = d /\ f.rest = r.rest
    <3>1. f = [r EXCEPT !.seg = d]
      BY <1>4, <2>1, Zenon DEF Fitted
    <3>2. r = [seg |-> r.seg, rest |-> r.rest]
      BY DEF Swallow
    <3> HIDE DEF r, d
    <3> QED BY <3>1, <3>2
  <2>3. /\ \A i \in 1 .. Len(ooseq) : c.at <= ooseq[i].at
        /\ ooseq # <<>> => c.at < ooseq[1].at \/ To(ooseq[1]) <= To(c)
    <3>1. ASSUME NEW i \in 1 .. Len(ooseq) PROVE c.at + 1 <= ooseq[i].at /\ ooseq[i].at \in Nat
      BY PieceFacts DEF Queue
    <3>2. ooseq # <<>> => 1 \in 1 .. Len(ooseq)
      BY EmptySeq DEF Queue
    <3> QED BY <3>1, <3>2, <1>1
  <2>4. /\ r = Swallow(c, ooseq, SeqNo(To(c))) /\ e \in {SeqNo(To(c)), EndOf(r.seg)}
        /\ d = CutTo(r.seg, r.rest, e) /\ lo \in Nat /\ lo <= c.at /\ Queue(ooseq, lo, hi)
    BY <1>1, <1>2
  <2>n. ~ c.fin
    BY <1>4
  <2> HIDE DEF r, e, d, lo
  <2>5. /\ Piece(d) /\ d.at = c.at /\ Queue(r.rest, lo, hi)
        /\ Queue(<<d>> \o r.rest, lo, hi)
    <3>1. Fronted(d, r.rest, c, lo, hi)
      BY <2>3, <2>4, <2>n, TrimmedQueue
    <3> QED BY <3>1 DEF Fronted
  <2> QED BY <2>2, <2>5 DEF lo
<1> QED BY <1>3, <1>4

-----------------------------------------------------------------------------
(* The inductive invariant. *)

\* What the invariants of TcpReceive need to be inductive: the queue is a queue
\* of the stream inside the window, the announced edge is a promise that the
\* window announced last covers, and that window is part of the real one.
IInv ==
    /\ TypeOK /\ StreamInOrder /\ WindowConserved /\ WindowReopens
    /\ Len(app) <= Total
    /\ eof <=> state = "CLOSE_WAIT"
    /\ annRight = SeqNo(edge)
    /\ Queue(ooseq, Pos + 1, Pos + rcvWnd)
    /\ edge <= Pos + annWnd /\ annWnd <= rcvWnd

\* The numbers of the state.
LEMMA IFacts ==
    ASSUME IInv
    PROVE  /\ Pos \in Nat /\ Pos <= Total + 1 /\ Pos \in Int /\ Pos + 1 \in Int /\ Pos + rcvWnd \in Int
           /\ rcvWnd \in Nat /\ rcvWnd <= Wnd /\ annWnd \in Nat /\ annWnd <= rcvWnd
           /\ held \in Nat /\ rcvWnd + held = Wnd /\ edge \in Nat /\ edge <= Pos + annWnd
           /\ edge <= Pos + rcvWnd /\ edge \in 0 .. Total + Wnd + 1 /\ Pos \in 0 .. Total + Wnd + 1
           /\ Pos + rcvWnd \in 0 .. Total + Wnd + 1
           /\ Len(app) \in Nat /\ Len(app) <= Total /\ eof \in BOOLEAN
           /\ ~ eof => Pos = Len(app)
           /\ rcvNxt = SeqNo(Pos) /\ annRight = SeqNo(edge)
<1>1. Total \in Nat /\ Wnd \in Nat
  BY Consts
<1>2. /\ rcvWnd \in 0 .. Wnd /\ annWnd \in 0 .. Wnd /\ held \in 0 .. Wnd /\ eof \in BOOLEAN
      /\ edge \in 0 .. Total + Wnd + 1 /\ app \in Seq(0 .. Total - 1)
      /\ rcvWnd + held = Wnd /\ annWnd <= rcvWnd /\ edge <= Pos + annWnd /\ Len(app) <= Total
      /\ rcvNxt = SeqNo(Pos) /\ annRight = SeqNo(edge)
  BY DEF IInv, TypeOK, WindowConserved, StreamInOrder
<1>3. Len(app) \in Nat
  BY <1>2, LenProperties
<1>4. Pos = (IF eof THEN Len(app) + 1 ELSE Len(app))
  BY <1>2, <1>3 DEF Pos
<1> QED BY <1>1, <1>2, <1>3, <1>4

\* tcp_update_rcv_ann_wnd never takes back what was announced, and what it
\* leaves unannounced is less than a step.
LEMMA AnnWndFacts ==
    ASSUME NEW p \in 0 .. Total + 1, NEW w \in 0 .. Wnd, NEW e \in 0 .. Total + Wnd + 1,
           e <= p + w, annRight = SeqNo(e), NEW n, n = SeqNo(p)
    PROVE  /\ AnnWnd(n, w) \in 0 .. w /\ e <= p + AnnWnd(n, w)
           /\ Inflation(n, w) < UpdStep => e > p + w - UpdStep
           /\ Inflation(n, w) >= UpdStep => AnnWnd(n, w) = w
<1>1. /\ M \in Nat /\ Total \in Nat /\ Wnd \in Nat /\ AnnStep \in Nat /\ UpdStep \in Nat /\ Isn \in Nat
      /\ 2 * (Total + Wnd + 1) < M /\ 0 < AnnStep /\ AnnStep <= UpdStep /\ UpdStep < Wnd
  BY Consts
<1>2. p \in Int /\ w \in Int /\ e \in Int /\ AnnStep \in Int
  BY <1>1
<1> DEFINE u == e + AnnStep
           v == p + w
<1>3. (annRight + AnnStep) % M = SeqNo(u) /\ (n + w) % M = SeqNo(v)
  BY <1>2, SeqNoPlus
<1>4. u \in Int /\ v \in Int /\ Near(u, v) /\ Near(v, u)
  BY <1>1 DEF Near
<1>5. Leq((annRight + AnnStep) % M, (n + w) % M) <=> e + AnnStep <= p + w
  <2> HIDE DEF u, v
  <2>1. Leq(SeqNo(u), SeqNo(v)) <=> u <= v
    BY <1>4, LeqIs
  <2> QED BY <2>1, <1>3 DEF u, v
<1>6. p \in 0 .. Total + Wnd + 1
  BY <1>1
<1>7. /\ Lt(annRight, n) <=> e < p
      /\ e >= p => (annRight - n) % M = e - p
  BY <1>6, NearFacts
<1>8. e + AnnStep <= p + w => (n + w - annRight) % M = p + w - e
  <2>1. SUFFICES ASSUME e + AnnStep <= p + w PROVE (n + w - annRight) % M = p + w - e
    OBVIOUS
  <2>2. PICK k \in Int : n = Isn + p - M * k
    BY <1>2, SeqNoIs
  <2>3. PICK l \in Int : annRight = Isn + e - M * l
    BY <1>2, SeqNoIs
  <2> DEFINE a == n + w - annRight
             b == p + w - e
             j == l - k
  <2>4. n \in Int /\ annRight \in Int
    <3>1. SeqNo(p) \in 0 .. M - 1 /\ SeqNo(e) \in 0 .. M - 1
      BY <1>2, SeqNoIs
    <3> QED BY <3>1, <1>1
  <2>5. a = b + M * j
    BY <2>2, <2>3, <2>4, <1>1, <1>2
  <2>6. a \in Int /\ b \in Int /\ j \in Int /\ 0 <= b /\ b < M /\ M > 0
    BY <2>1, <2>4, <1>1
  <2> HIDE DEF a, b, j
  <2>7. a % M = b
    BY ONLY <2>5, <2>6, <1>1, ModIs
  <2> QED BY <2>7 DEF a, b
<1>9. CASE e + AnnStep <= p + w
  <2>1. AnnWnd(n, w) = w /\ Inflation(n, w) = p + w - e
    BY <1>5, <1>8, <1>9 DEF AnnWnd, Inflation
  <2> QED BY <2>1, <1>1, <1>2
<1>10. CASE ~ (e + AnnStep <= p + w)
  <2>1. Inflation(n, w) = 0
    BY <1>5, <1>10 DEF Inflation
  <2>2. AnnWnd(n, w) = IF e < p THEN 0 ELSE e - p
    BY <1>5, <1>7, <1>10 DEF AnnWnd
  <2> QED BY <2>1, <2>2, <1>1, <1>2, <1>10
<1> QED BY <1>9, <1>10

\* An announcement moves the edge to where the announced window ends.
LEMMA AnnounceFacts ==
    ASSUME NEW p \in Nat, NEW a \in Nat, edge \in Nat, edge <= p + a, NEW n, n = SeqNo(p), Announce(n, p, a)
    PROVE  annRight' = SeqNo(p + a) /\ edge' = p + a /\ ackDelay' \in BOOLEAN
<1>1. (SeqNo(p) + a) % M = SeqNo(p + a)
  BY SeqNoPlus
<1>2. annRight' = SeqNo(p + a)
  BY <1>1 DEF Announce
<1>4. ackDelay' \in BOOLEAN
  BY Zenon DEF Announce
<1>3. edge' = IF p + a > edge THEN p + a ELSE edge
  BY DEF Announce
<1> QED BY <1>2, <1>3, <1>4

\* A queue also lies below any larger bound.
LEMMA WidenQueue ==
    ASSUME NEW q, NEW lo, NEW hi \in Int, NEW h \in Int, hi <= h, Queue(q, lo, hi)
    PROVE  Queue(q, lo, h)
<1>1. \A i \in 1 .. Len(q) : q[i].at + TcpLen(q[i]) \in Int
  BY PieceFacts DEF Queue
<1>2. \A i \in 1 .. Len(q) : q[i].at + TcpLen(q[i]) <= hi
  BY DEF Queue
<1>3. \A i \in 1 .. Len(q) : q[i].at + TcpLen(q[i]) <= h
  BY <1>1, <1>2
<1> QED BY <1>3 DEF Queue

\* A step that moves neither the stream nor the window keeps the invariant, if
\* its queue is sound and it announces, at most, the window announced last.
LEMMA QuietStep ==
    ASSUME IInv, Queue(ooseq', Pos + 1, Pos + rcvWnd),
           UNCHANGED <<rcvNxt, rcvWnd, annWnd, state, app, held, eof>>,
           UNCHANGED <<annRight, edge, ackDelay>> \/ Announce(rcvNxt, Pos, annWnd)
    PROVE  IInv'
<1>1. /\ rcvNxt' = rcvNxt /\ rcvWnd' = rcvWnd /\ annWnd' = annWnd /\ state' = state
      /\ app' = app /\ held' = held /\ eof' = eof /\ Pos' = Pos
  BY DEF Pos
<1>2. /\ Pos \in Nat /\ annWnd \in Nat /\ edge \in Nat /\ edge <= Pos + annWnd /\ rcvNxt = SeqNo(Pos)
      /\ annRight = SeqNo(edge) /\ Pos <= Total + 1 /\ annWnd <= Wnd
      /\ Total \in Nat /\ Wnd \in Nat /\ UpdStep \in Nat /\ M \in Nat /\ Len(app) \in Nat
  BY IFacts, Consts
<1>3. /\ annRight' = SeqNo(edge') /\ edge' \in Nat /\ edge <= edge' /\ edge' <= Pos + annWnd
      /\ ackDelay' \in BOOLEAN
  <2>1. CASE UNCHANGED <<annRight, edge, ackDelay>>
    <3>1. ackDelay \in BOOLEAN
      BY DEF IInv, TypeOK
    <3> QED BY <2>1, <3>1, <1>2
  <2>2. CASE Announce(rcvNxt, Pos, annWnd)
    <3> DEFINE p == Pos
               a == annWnd
               n == rcvNxt
    <3>1. p \in Nat /\ a \in Nat /\ edge \in Nat /\ edge <= p + a /\ n = SeqNo(p) /\ Announce(n, p, a)
      BY <2>2, <1>2
    <3> HIDE DEF p, a, n
    <3>2. annRight' = SeqNo(p + a) /\ edge' = p + a /\ ackDelay' \in BOOLEAN
      BY <3>1, AnnounceFacts
    <3>3. annRight' = SeqNo(edge')
      BY <3>2, Zenon
    <3>4. edge' \in Nat /\ edge <= edge' /\ edge' <= p + a /\ ackDelay' \in BOOLEAN
      BY <3>1, <3>2
    <3> QED BY <3>3, <3>4 DEF p, a
  <2> QED BY <2>1, <2>2
<1>4. TypeOK'
  <2>1. annRight' \in 0 .. M - 1
    BY <1>3, SeqNoIs
  <2>2. ooseq' \in Seq(Segments)
    BY DEF Queue
  <2>3. edge' \in 0 .. Total + Wnd + 1
    BY <1>2, <1>3
  <2> QED BY <1>1, <1>3, <2>1, <2>2, <2>3 DEF IInv, TypeOK
<1>5. StreamInOrder' /\ WindowConserved'
  BY <1>1 DEF IInv, StreamInOrder, WindowConserved
<1>6. WindowReopens'
  <2>1. held = 0 /\ ~ eof => edge > Pos + Wnd - UpdStep
    BY DEF IInv, WindowReopens
  <2>2. held = 0 /\ ~ eof => edge' > Pos + Wnd - UpdStep
    BY <2>1, <1>2, <1>3
  <2> QED BY <1>1, <2>2 DEF WindowReopens
<1>7. /\ (Len(app) <= Total)' /\ (eof <=> state = "CLOSE_WAIT")'
      /\ (annWnd <= rcvWnd)'
  BY <1>1 DEF IInv
<1>8. (edge <= Pos + annWnd)' /\ (annRight = SeqNo(edge))' /\ Queue(ooseq, Pos + 1, Pos + rcvWnd)'
  BY <1>1, <1>3
<1> QED BY <1>4, <1>5, <1>6, <1>7, <1>8 DEF IInv

\* tcp_recved gives the bytes back to the window and announces it in steps.
LEMMA RecvedStep ==
    ASSUME IInv, NEW n \in 1 .. Wnd, Recved(n)
    PROVE  IInv'
<1>1. /\ Pos \in Nat /\ Pos <= Total + 1 /\ rcvWnd \in Nat /\ rcvWnd <= Wnd /\ annWnd \in Nat
      /\ annWnd <= rcvWnd /\ held \in Nat /\ rcvWnd + held = Wnd /\ edge \in Nat
      /\ edge <= Pos + rcvWnd /\ edge \in 0 .. Total + Wnd + 1
      /\ rcvNxt = SeqNo(Pos) /\ annRight = SeqNo(edge) /\ Pos \in 0 .. Total + 1
  BY IFacts
<1>2. Total \in Nat /\ Wnd \in Nat /\ UpdStep \in Nat /\ M \in Nat
  BY Consts
<1> DEFINE w == IF rcvWnd + n > Wnd THEN Wnd ELSE rcvWnd + n
           a == AnnWnd(rcvNxt, w)
<1>3. /\ n <= held /\ held' = held - n /\ rcvWnd' = w /\ annWnd' = a
      /\ IF Inflation(rcvNxt, w) >= UpdStep THEN Announce(rcvNxt, Pos, a)
         ELSE UNCHANGED <<annRight, edge, ackDelay>>
  BY DEF Recved
<1>4. rcvNxt' = rcvNxt /\ ooseq' = ooseq /\ state' = state /\ app' = app /\ eof' = eof /\ Pos' = Pos
  BY DEF Recved, Pos
<1>5. w = rcvWnd + n
  BY <1>1, <1>2, <1>3
<1>6. w \in 0 .. Wnd /\ edge <= Pos + w /\ rcvWnd <= w
  BY <1>1, <1>2, <1>3, <1>5
<1> HIDE DEF w
<1>7. /\ a \in 0 .. w /\ edge <= Pos + a
      /\ Inflation(rcvNxt, w) < UpdStep => edge > Pos + w - UpdStep
      /\ Inflation(rcvNxt, w) >= UpdStep => a = w
  <2> DEFINE p == Pos
             e == edge
             m == rcvNxt
  <2>1. /\ p \in 0 .. Total + 1 /\ e \in 0 .. Total + Wnd + 1 /\ e <= p + w /\ w \in 0 .. Wnd
        /\ annRight = SeqNo(e) /\ m = SeqNo(p)
    BY <1>1, <1>6
  <2> HIDE DEF p, e, m
  <2>2. /\ AnnWnd(m, w) \in 0 .. w /\ e <= p + AnnWnd(m, w)
        /\ Inflation(m, w) < UpdStep => e > p + w - UpdStep
        /\ Inflation(m, w) >= UpdStep => AnnWnd(m, w) = w
    BY ONLY <2>1, AnnWndFacts
  <2> QED BY <2>2 DEF p, e, m
<1> HIDE DEF a
<1>8. a \in Nat /\ a <= Wnd
  BY <1>6, <1>7, <1>2
<1>9. /\ annRight' = SeqNo(edge') /\ edge' \in Nat /\ edge' <= Pos + a /\ ackDelay' \in BOOLEAN
      /\ edge' > Pos + w - UpdStep
  <2>1. CASE Inflation(rcvNxt, w) >= UpdStep
    <3> DEFINE p == Pos
               m == rcvNxt
    <3>1. p \in Nat /\ a \in Nat /\ edge \in Nat /\ edge <= p + a /\ m = SeqNo(p) /\ Announce(m, p, a)
      BY <2>1, <1>1, <1>3, <1>7, <1>8
    <3> HIDE DEF p, m
    <3>2. annRight' = SeqNo(p + a) /\ edge' = p + a /\ ackDelay' \in BOOLEAN
      BY <3>1, AnnounceFacts
    <3>3. a = w /\ UpdStep > 0
      BY <2>1, <1>7, Consts
    <3>4. annRight' = SeqNo(edge')
      BY <3>2, Zenon
    <3>5. edge' \in Nat /\ edge' <= p + a /\ ackDelay' \in BOOLEAN /\ edge' > p + w - UpdStep
      BY <3>1, <3>2, <3>3, <1>2
    <3> QED BY <3>4, <3>5 DEF p
  <2>2. CASE ~ (Inflation(rcvNxt, w) >= UpdStep)
    <3>1. annRight' = annRight /\ edge' = edge /\ ackDelay' = ackDelay
      BY <2>2, <1>3
    <3>2. ackDelay \in BOOLEAN
      BY DEF IInv, TypeOK
    <3>3. Inflation(rcvNxt, w) \in Int
      <4>1. Inflation(rcvNxt, w) \in {0, (rcvNxt + w - annRight) % M}
        BY DEF Inflation
      <4>2. (rcvNxt + w - annRight) % M \in Int
        <5>1. SeqNo(Pos) \in 0 .. M - 1 /\ SeqNo(edge) \in 0 .. M - 1
          BY <1>1, SeqNoIs
        <5>2. rcvNxt + w - annRight \in Int /\ M > 0
          BY <5>1, <1>1, <1>2, <1>6, Consts
        <5> DEFINE x == rcvNxt + w - annRight
        <5> HIDE DEF x
        <5>3. x % M \in 0 .. M - 1
          BY <5>2, <1>2 DEF x
        <5> QED BY <5>3, <1>2 DEF x
      <4> QED BY <4>1, <4>2
    <3> QED BY <2>2, <3>1, <3>2, <3>3, <1>1, <1>2, <1>7
  <2> QED BY <2>1, <2>2
<1>10. TypeOK'
  <2>1. annRight' \in 0 .. M - 1
    BY <1>9, SeqNoIs
  <2>2. edge' \in 0 .. Total + Wnd + 1
    BY <1>1, <1>2, <1>8, <1>9
  <2>3. held' \in 0 .. Wnd /\ rcvWnd' \in 0 .. Wnd /\ annWnd' \in 0 .. Wnd
    BY <1>1, <1>2, <1>3, <1>6, <1>8
  <2> QED BY <1>4, <1>9, <2>1, <2>2, <2>3 DEF IInv, TypeOK
<1>11. StreamInOrder'
  BY <1>4 DEF IInv, StreamInOrder
<1>12. WindowConserved'
  BY <1>1, <1>2, <1>3, <1>5 DEF WindowConserved
<1>13. WindowReopens'
  <2>1. held' = 0 => w = Wnd
    BY <1>1, <1>2, <1>3, <1>5
  <2> QED BY <2>1, <1>4, <1>9 DEF WindowReopens
<1>14. (Len(app) <= Total)' /\ (eof <=> state = "CLOSE_WAIT")'
  BY <1>4 DEF IInv
<1>15. (edge <= Pos + annWnd)' /\ (annRight = SeqNo(edge))' /\ (annWnd <= rcvWnd)'
  BY <1>3, <1>4, <1>6, <1>7, <1>9
<1>16. Queue(ooseq, Pos + 1, Pos + rcvWnd)'
  <2>1. Queue(ooseq, Pos + 1, Pos + rcvWnd)
    BY DEF IInv
  <2>2. Queue(ooseq, Pos + 1, Pos + w)
    <3> DEFINE p == Pos
               hi == p + rcvWnd
               x == p + w
               lo == p + 1
    <3>1. hi \in Int /\ x \in Int /\ hi <= x
      BY <1>1, <1>6
    <3>2. Queue(ooseq, lo, hi)
      BY <2>1
    <3> HIDE DEF p, hi, x, lo
    <3>3. Queue(ooseq, lo, x)
      BY <3>1, <3>2, WidenQueue
    <3> QED BY <3>3 DEF p, x, lo
  <2> QED BY <2>2, <1>3, <1>4
<1> QED BY <1>10, <1>11, <1>12, <1>13, <1>14, <1>15, <1>16 DEF IInv

-----------------------------------------------------------------------------
(* The segments that arrive. *)

\* What the sender may send is a piece of the stream.
LEMMA SegmentFacts ==
    ASSUME NEW p \in 0 .. Total + 1, NEW len \in 0 .. MaxSeg, NEW fin \in BOOLEAN, edge \in Nat,
           Sendable(p, len, fin), NEW s, s = Segment(p, len, fin), TcpLen(s) > 0
    PROVE  /\ Piece(s) /\ s.at = p /\ s.len = len /\ s.fin = fin
           /\ p + TcpLen(s) <= edge \/ (TcpLen(s) = 1 /\ p = edge)
<1>1. Total \in Nat /\ MaxSeg \in Nat /\ M \in Nat
  BY Consts
<1>2. s = [seq |-> SeqNo(p), len |-> len, fin |-> fin, at |-> p]
  BY DEF Segment
<1>3. s.seq = SeqNo(p) /\ s.len = len /\ s.fin = fin /\ s.at = p
  BY <1>2
<1>4. /\ p + len <= Total /\ (fin => p + len = Total)
      /\ p + TcpLen(s) <= edge \/ (TcpLen(s) = 1 /\ p = edge)
  BY <1>3 DEF Sendable, TcpLen
<1>5. p \in 0 .. Total /\ p \in Int
  BY <1>1, <1>4
<1>6. SeqNo(p) \in 0 .. M - 1
  BY <1>5, SeqNoIs
<1>7. s \in Segments
  BY <1>2, <1>5, <1>6 DEF Segments
<1> QED BY <1>3, <1>4, <1>7 DEF Piece, To

\* Cutting off what was received before leaves a piece with the same end.
LEMMA CutFirstFacts ==
    ASSUME IInv, NEW s, Piece(s), NEW c, c = CutFirst(s)
    PROVE  /\ Piece(c) /\ c.at + TcpLen(c) = s.at + TcpLen(s)
           /\ c = s \/ (c.at = Pos /\ s.at < Pos /\ TcpLen(s) > 1)
<1> DEFINE p == s.at
           n == TcpLen(s)
           P == Pos
           y == p + 1
           z == p + (n - 1)
<1>1. /\ s.at \in Nat /\ s.len \in Nat /\ s.fin \in BOOLEAN /\ To(s) = s.at + s.len /\ To(s) <= Total
      /\ s.len <= MaxSeg /\ TcpLen(s) \in Nat /\ TcpLen(s) > 0 /\ s.seq = SeqNo(s.at)
      /\ s = [seq |-> s.seq, len |-> s.len, fin |-> s.fin, at |-> s.at]
      /\ s.fin => TcpLen(s) = s.len + 1 /\ To(s) = Total
      /\ ~ s.fin => TcpLen(s) = s.len
  BY PieceFacts DEF Piece
<1>2. P \in Nat /\ P \in 0 .. Total + Wnd + 1 /\ rcvNxt = SeqNo(P)
  BY IFacts
<1>3. Total \in Nat /\ Wnd \in Nat /\ MaxSeg \in Nat /\ M \in Nat
  BY Consts
<1>4. y \in 0 .. Total + Wnd + 1 /\ z \in 0 .. Total + Wnd + 1 /\ p \in 0 .. Total + Wnd + 1
  BY <1>1, <1>3
<1>5. (s.seq + 1) % M = SeqNo(y) /\ (s.seq + TcpLen(s) - 1) % M = SeqNo(z)
  <2> DEFINE m == n - 1
             o == 1
  <2>1. m \in Int /\ p \in Int /\ o \in Int /\ s.seq = SeqNo(p)
    BY <1>1
  <2>2. s.seq + n - 1 = s.seq + m
    <3>1. s.seq \in Int /\ n \in Int
      BY <1>1, PieceFacts
    <3> HIDE DEF n
    <3> QED BY <3>1
  <2> HIDE DEF m, p, o
  <2>3. (SeqNo(p) + m) % M = SeqNo(p + m) /\ (SeqNo(p) + o) % M = SeqNo(p + o)
    BY <2>1, SeqNoPlus
  <2> QED BY <2>1, <2>2, <2>3 DEF m, o
<1>6. Between(rcvNxt, (s.seq + 1) % M, (s.seq + TcpLen(s) - 1) % M) <=> y <= P /\ P <= z
  <2> HIDE DEF P, y, z
  <2>1. (Leq(SeqNo(y), SeqNo(P)) <=> y <= P) /\ (Leq(SeqNo(P), SeqNo(z)) <=> P <= z)
    BY <1>2, <1>4, NearFacts
  <2> QED BY <2>1, <1>2, <1>5 DEF Between
<1>7. CASE ~ (y <= P /\ P <= z)
  <2>1. c = s
    BY <1>6, <1>7 DEF CutFirst
  <2> QED BY <2>1
<1>8. CASE y <= P /\ P <= z
  <2> DEFINE off == (rcvNxt - s.seq) % M
  <2>1. off = P - p
    <3>1. P >= p /\ s.seq = SeqNo(p)
      BY <1>1, <1>2, <1>8
    <3> HIDE DEF P, p
    <3> QED BY <3>1, <1>2, <1>4, NearFacts
  <2>2. c = [s EXCEPT !.seq = rcvNxt, !.at = @ + off, !.len = @ - off]
    BY <1>6, <1>8 DEF CutFirst
  <2> HIDE DEF off
  <2>3. c = [seq |-> rcvNxt, len |-> s.len - off, fin |-> s.fin, at |-> s.at + off]
    BY <2>2, <1>1
  <2>4. c.seq = rcvNxt /\ c.len = s.len - off /\ c.fin = s.fin /\ c.at = s.at + off
    BY <2>3
  <2>5. s.at + off = P /\ s.len - off \in Nat /\ s.len - off <= MaxSeg /\ P <= Total /\ n > 1 /\ s.at < P
        /\ P + (s.len - off) = s.at + s.len /\ (~ s.fin => s.len - off > 0)
    <3> HIDE DEF P
    <3> QED BY <2>1, <1>1, <1>2, <1>3, <1>8
  <2>6. c.seq = SeqNo(c.at) /\ c.at = P
    BY <2>4, <2>5, <1>2
  <2>7. SeqNo(P) \in 0 .. M - 1
    BY <1>2, SeqNoIs
  <2>8. c \in Segments
    <3>1. rcvNxt \in 0 .. M - 1 /\ s.len - off \in 0 .. MaxSeg /\ s.at + off \in 0 .. Total
      BY <2>5, <2>7, <1>2, <1>3
    <3> QED BY <3>1, <2>3, <1>1 DEF Segments
  <2>9. TcpLen(c) = IF s.fin THEN (s.len - off) + 1 ELSE s.len - off
    BY <2>4, <2>5, <1>1 DEF TcpLen
  <2>10. To(c) = To(s) /\ TcpLen(c) > 0 /\ c.at + TcpLen(c) = s.at + TcpLen(s)
    <3>1. To(c) = P + (s.len - off)
      BY <2>4, <2>6 DEF To
    <3> HIDE DEF P
    <3> QED BY <3>1, <2>5, <2>6, <2>9, <1>1, <1>2
  <2>11. Piece(c)
    BY <2>4, <2>6, <2>8, <2>10, <1>1 DEF Piece
  <2> QED BY <2>5, <2>6, <2>10, <2>11
<1> QED BY <1>7, <1>8

\* What is in the window begins behind rcv_nxt and ends inside the window: a
\* sender that keeps to the edge never sends past the window, and the probe of a
\* closed window is in it only if it is open.
LEMMA InWindowFacts ==
    ASSUME IInv, NEW s, Piece(s), s.at + TcpLen(s) <= edge \/ (TcpLen(s) = 1 /\ s.at = edge),
           NEW c, c = CutFirst(s), InWindow(c)
    PROVE  /\ Piece(c) /\ Pos <= c.at /\ c.at + TcpLen(c) <= Pos + rcvWnd
           /\ FitWindow(c) = c /\ (c.seq = rcvNxt <=> c.at = Pos)
<1>1. /\ Piece(c) /\ c.at + TcpLen(c) = s.at + TcpLen(s)
      /\ c = s \/ (c.at = Pos /\ s.at < Pos /\ TcpLen(s) > 1)
  BY CutFirstFacts
<1> DEFINE u == c.at
           P == Pos
           h == P + rcvWnd
           z == P + (rcvWnd - 1)
           e == u + TcpLen(c)
<1>2. /\ P \in Nat /\ P \in 0 .. Total + Wnd + 1 /\ P <= Total + 1 /\ rcvNxt = SeqNo(P) /\ rcvWnd \in Nat /\ rcvWnd <= Wnd
      /\ h \in 0 .. Total + Wnd + 1 /\ edge \in Nat /\ edge <= h
  BY IFacts
<1>3. /\ u \in 0 .. Total + Wnd + 1 /\ u \in Nat /\ u <= Total /\ c.seq = SeqNo(u) /\ e \in 0 .. Total + Wnd + 1
      /\ EndOf(c) = SeqNo(e) /\ TcpLen(c) \in Nat /\ TcpLen(s) \in Nat /\ s.at \in Nat
  BY <1>1, PieceRange, PieceEnds, PieceFacts DEF Piece
<1>4. Total \in Nat /\ Wnd \in Nat /\ M \in Nat /\ 2 * (Total + Wnd + 1) < M
  BY Consts
<1>5. (rcvNxt + rcvWnd - 1) % M = SeqNo(z) /\ (rcvNxt + rcvWnd) % M = SeqNo(h)
  <2> DEFINE w == rcvWnd
             m == w - 1
  <2>1. m \in Int /\ w \in Int /\ P \in Int
    BY <1>2
  <2>2. rcvNxt + rcvWnd - 1 = rcvNxt + m
    <3>1. SeqNo(P) \in 0 .. M - 1
      BY <2>1, SeqNoIs
    <3>2. rcvNxt \in Int
      BY <3>1, <1>2, <1>4
    <3> QED BY <3>2, <1>2
  <2> HIDE DEF m, w, P
  <2>3. (SeqNo(P) + m) % M = SeqNo(P + m) /\ (SeqNo(P) + w) % M = SeqNo(P + w)
    BY <2>1, SeqNoPlus
  <2> QED BY <2>2, <2>3, <1>2 DEF m, w
<1>6. P <= u /\ u <= z
  <2>1. Leq(SeqNo(P), SeqNo(u)) /\ Leq(SeqNo(u), SeqNo(z))
    <3> HIDE DEF P, u, z
    <3> QED BY <1>2, <1>3, <1>5 DEF InWindow, Between
  <2>2. u \in Int /\ z \in Int /\ P \in Int /\ Near(u, z) /\ Near(P, u)
    <3> HIDE DEF P, u
    <3> QED BY <1>2, <1>3, <1>4 DEF Near
  <2> HIDE DEF P, u, z
  <2> QED BY <2>1, <2>2, LeqIs
<1>7. e <= h
  <2>1. CASE s.at + TcpLen(s) <= edge
    <3> HIDE DEF P, h
    <3> QED BY <2>1, <1>1, <1>2, <1>3
  <2>2. CASE TcpLen(s) = 1 /\ s.at = edge
    <3>1. c = s
      BY <2>2, <1>1
    <3> HIDE DEF P
    <3> QED BY <2>2, <3>1, <1>2, <1>3, <1>6
  <2> QED BY <2>1, <2>2
<1>8. FitWindow(c) = c
  <2>1. Lt(SeqNo(h), SeqNo(e)) <=> h < e
    <3> HIDE DEF h, e
    <3> QED BY <1>2, <1>3, NearFacts
  <2>2. ~ (h < e)
    BY <1>7, <1>2, <1>3
  <2>3. ~ Lt((rcvNxt + rcvWnd) % M, EndOf(c))
    BY <2>1, <2>2, <1>3, <1>5
  <2> QED BY <2>3 DEF FitWindow
<1>9. c.seq = rcvNxt <=> u = P
  <2> HIDE DEF P, u
  <2>1. SeqNo(u) = SeqNo(P) <=> u = P
    BY <1>2, <1>3, NearFacts
  <2> QED BY <2>1, <1>2, <1>3
<1> QED BY <1>1, <1>6, <1>7, <1>8, <1>9

-----------------------------------------------------------------------------
(* Delivery. *)

\* What one delivery takes, for the lower end lo and upper end hi of the window:
\* l is the last segment of the run, data the bytes, rest what stays queued.
RunTaken(l, data, rest, lo, hi) ==
    /\ Piece(l) /\ lo <= l.at /\ l.at + TcpLen(l) <= hi
    /\ data = Bytes(lo, To(l)) /\ lo <= To(l)
    /\ Queue(rest, (l.at + TcpLen(l)) + 1, hi)

\* The run that an in-order segment starts is one stretch of the stream, and a
\* gap follows it.
LEMMA RunFacts ==
    ASSUME NEW lo \in Nat, NEW hi \in Int, NEW c, Piece(c), c.at = lo, NEW r, Queue(r, lo, hi),
           Queue(<<c>> \o r, lo, hi), NEW k, k = InSequence(EndOf(c), r),
           NEW segs, segs = <<c>> \o SubSeq(r, 1, k),
           NEW data, data = FlattenSeq([i \in 1 .. k + 1 |-> Payload(segs[i])]),
           NEW rest, rest = SubSeq(r, k + 1, Len(r))
    PROVE  k + 1 \in 1 .. Len(segs) /\ RunTaken(segs[k + 1], data, rest, lo, hi)
<1> DEFINE t == <<c>> \o r
           n == k + 1
<1>t. t = <<c>> \o r /\ Queue(t, lo, hi)
  OBVIOUS
<1> HIDE DEF t
<1>1. /\ k \in 0 .. Len(r) /\ Len(r) \in Nat
      /\ Len(t) = Len(r) + 1 /\ t[1] = c /\ \A i \in 1 .. Len(r) : t[i + 1] = r[i]
      /\ \A i \in 1 .. k : t[i + 1].at = t[i].at + TcpLen(t[i])
      /\ k < Len(r) => t[(k + 1) + 1].at # t[k + 1].at + TcpLen(t[k + 1])
  <2>1. lo \in Int
    OBVIOUS
  <2>2. InRow(c, r, t, k)
    BY ONLY <2>1, <1>t, hi \in Int, Piece(c), Queue(r, lo, hi), k = InSequence(EndOf(c), r),
            SequenceFacts
  <2> QED BY <2>2 DEF InRow
<1>2. /\ t \in Seq(Segments) /\ Len(t) \in Nat
      /\ \A i \in 1 .. Len(t) : Piece(t[i]) /\ lo <= t[i].at /\ t[i].at + TcpLen(t[i]) <= hi
      /\ \A i, j \in 1 .. Len(t) : i < j => ~ t[i].fin /\ To(t[i]) <= t[j].at
  BY <1>t, LenProperties DEF Queue
<1>3. n \in 1 .. Len(t) /\ n \in Nat /\ k \in Nat
  BY <1>1
<1>4. \A i \in 1 .. Len(t) : /\ t[i].at \in Nat /\ To(t[i]) \in Nat /\ t[i].at <= To(t[i])
                             /\ ~ t[i].fin => t[i].at + TcpLen(t[i]) = To(t[i])
  <2>1. SUFFICES ASSUME NEW i \in 1 .. Len(t)
                 PROVE  /\ t[i].at \in Nat /\ To(t[i]) \in Nat /\ t[i].at <= To(t[i])
                        /\ ~ t[i].fin => t[i].at + TcpLen(t[i]) = To(t[i])
    OBVIOUS
  <2> QED BY <1>2, PieceFacts, PieceRange
<1>5. r \in Seq(Segments) /\ c \in Segments
  BY DEF Queue, Piece
<1> DEFINE g == SubSeq(r, 1, k)
<1>g. g = SubSeq(r, 1, k)
  OBVIOUS
<1> HIDE DEF g
<1>6. /\ g \in Seq(Segments) /\ Len(g) = k /\ \A i \in 1 .. k : g[i] = r[i]
      /\ rest \in Seq(Segments) /\ Len(rest) = Len(r) - k
      /\ \A i \in 1 .. Len(r) - k : rest[i] = r[k + i]
  BY ONLY <1>1, <1>5, <1>g, rest = SubSeq(r, k + 1, Len(r)), SplitFacts
<1>7. Len(segs) = k + 1 /\ \A i \in 1 .. k + 1 : segs[i] = t[i]
  <2> DEFINE x == <<c>>
  <2>1. x \in Seq(Segments) /\ Len(x) = 1 /\ x[1] = c
    BY <1>5
  <2>2. segs = x \o g
    BY <1>g
  <2> HIDE DEF x
  <2>3. /\ Len(segs) = 1 + k
        /\ \A i \in 1 .. 1 + k : segs[i] = IF i <= 1 THEN x[i] ELSE g[i - 1]
    <3>1. /\ Len(x \o g) = Len(x) + Len(g)
          /\ \A i \in 1 .. Len(x) + Len(g) : (x \o g)[i] = IF i <= Len(x) THEN x[i] ELSE g[i - Len(x)]
      BY ONLY <2>1, <1>6, ConcatProperties
    <3> QED BY ONLY <2>1, <2>2, <3>1, <1>6
  <2>4. ASSUME NEW i \in 1 .. k + 1 PROVE segs[i] = t[i]
    <3>1. i \in 1 .. 1 + k /\ segs[i] = IF i <= 1 THEN x[i] ELSE g[i - 1]
      BY <2>3, <1>3
    <3>2. CASE i = 1
      BY <3>1, <3>2, <2>1, <1>1
    <3>3. CASE i # 1
      <4>1. i - 1 \in 1 .. k /\ i - 1 \in 1 .. Len(r) /\ (i - 1) + 1 = i /\ ~ (i <= 1)
        BY <3>3, <1>1
      <4>2. t[(i - 1) + 1] = r[i - 1] /\ g[i - 1] = r[i - 1]
        BY <4>1, <1>1, <1>6
      <4> QED BY <4>1, <4>2, <3>1
    <3> QED BY <3>2, <3>3
  <2> QED BY <2>3, <2>4, <1>3
<1>8. \A i \in 1 .. n - 1 : t[i + 1].at = To(t[i])
  <2>1. SUFFICES ASSUME NEW i \in 1 .. n - 1 PROVE t[i + 1].at = To(t[i])
    OBVIOUS
  <2>2. i \in 1 .. k /\ i \in 1 .. Len(t) /\ i + 1 \in 1 .. Len(t) /\ i < i + 1
    BY <1>1, <1>3
  <2>3. ~ t[i].fin
    BY <2>2, <1>2
  <2> QED BY <2>2, <2>3, <1>1, <1>4
<1>9. data = Bytes(lo, To(t[n])) /\ lo <= To(t[n])
  <2>1. [i \in 1 .. n |-> Payload(segs[i])] = [i \in 1 .. n |-> Payload(t[i])]
    BY <1>7
  <2>2. data = FlattenSeq([i \in 1 .. n |-> Payload(t[i])])
    BY <2>1
  <2>3. /\ FlattenSeq([i \in 1 .. n |-> Payload(t[i])]) = Bytes(t[1].at, To(t[n]))
        /\ t[1].at <= To(t[n])
    <3> HIDE DEF n
    <3>1. lo \in Int
      OBVIOUS
    <3> QED BY ONLY <3>1, <1>t, <1>3, <1>8, hi \in Int, FlatIs
  <2> QED BY <2>2, <2>3, <1>1
<1> DEFINE l == t[n]
           N == l.at + TcpLen(l)
<1>10. /\ Piece(l) /\ lo <= l.at /\ N <= hi /\ segs[k + 1] = l /\ l.at \in Nat /\ N \in Nat
       /\ k + 1 \in 1 .. Len(segs)
  <2>1. k + 1 \in 1 .. k + 1
    BY <1>3
  <2>2. Piece(l) /\ lo <= l.at /\ N <= hi /\ segs[k + 1] = l /\ k + 1 \in 1 .. Len(segs)
    BY <2>1, <1>2, <1>3, <1>7
  <2> HIDE DEF l
  <2>3. l.at \in Nat /\ TcpLen(l) \in Nat
    BY <2>2, PieceFacts
  <2> QED BY ONLY <2>2, <2>3
<1>11. ASSUME NEW j \in 1 .. Len(rest) PROVE N + 1 <= rest[j].at
  <2> DEFINE m == n + 1
             i == n + j
  <2>1. k < Len(r) /\ k + j \in 1 .. Len(r) /\ m \in 1 .. Len(t) /\ i \in 1 .. Len(t) /\ n < m
        /\ j \in 1 .. Len(r) - k /\ i = (k + j) + 1 /\ (i = m \/ m < i)
    <3>1. j \in 1 .. Len(r) - k
      BY ONLY <1>6, <1>11
    <3>2. k \in 0 .. Len(r) /\ Len(r) \in Nat /\ Len(t) = Len(r) + 1
      BY ONLY <1>1
    <3> QED BY ONLY <3>1, <3>2
  <2>2. rest[j] = t[i]
    <3>1. rest[j] = r[k + j] /\ t[(k + j) + 1] = r[k + j]
      BY <2>1, <1>1, <1>6
    <3> QED BY <3>1, <2>1
  <2>3. ~ l.fin /\ To(l) <= t[m].at /\ t[m].at # N
    <3>1. ~ t[n].fin /\ To(t[n]) <= t[m].at
      BY <2>1, <1>2, <1>3
    <3>2. t[m].at # t[n].at + TcpLen(t[n])
      BY <2>1, <1>1
    <3> QED BY <3>1, <3>2
  <2>4. N = To(l)
    BY <2>3, <1>3, <1>4
  <2>5. t[m].at \in Nat /\ N + 1 <= t[m].at /\ To(t[m]) \in Nat /\ t[m].at <= To(t[m]) /\ t[i].at \in Nat
    <3>1. t[m].at \in Nat /\ To(t[m]) \in Nat /\ t[m].at <= To(t[m]) /\ t[i].at \in Nat
      BY <2>1, <1>4
    <3> HIDE DEF l, N, m, i
    <3>2. N \in Nat
      BY <1>10
    <3> QED BY ONLY <3>1, <3>2, <2>3, <2>4
  <2>6. CASE i = m
    <3> HIDE DEF l, N, m, i
    <3> QED BY <2>2, <2>5, <2>6
  <2>7. CASE m < i
    <3>1. To(t[m]) <= t[i].at
      BY <2>1, <2>7, <1>2
    <3> HIDE DEF l, N, m, i
    <3>2. N \in Nat
      BY <1>10
    <3> QED BY ONLY <3>1, <3>2, <2>2, <2>5
  <2> QED BY <2>1, <2>6, <2>7
<1>12. Queue(rest, lo, hi)
  <2>1. lo \in Int
    OBVIOUS
  <2> QED BY ONLY <2>1, <1>1, <1>g, hi \in Int, Queue(r, lo, hi), rest = SubSeq(r, k + 1, Len(r)), SplitQueue
<1>13. Queue(rest, N + 1, hi)
  <2> HIDE DEF N
  <2> QED BY <1>11, <1>12 DEF Queue
<1> QED BY <1>9, <1>10, <1>13 DEF RunTaken

\* Delivering the run of an in-order segment c keeps the invariant.
LEMMA DeliverStep ==
    ASSUME IInv, state = "ESTABLISHED", NEW c, Piece(c), c.at = Pos,
           c.at + TcpLen(c) <= Pos + rcvWnd, FitWindow(c) = c, Deliver(c)
    PROVE  IInv'
<1> DEFINE f == Fitted(c)
           k == InSequence(EndOf(f.seg), f.rest)
           segs == <<f.seg>> \o SubSeq(f.rest, 1, k)
           l == segs[k + 1]
           nxt == EndOf(l)
           data == FlattenSeq([i \in 1 .. k + 1 |-> Payload(segs[i])])
           rest == SubSeq(f.rest, k + 1, Len(f.rest))
           taken == (nxt - rcvNxt) % M
           w == rcvWnd - taken
           P == Pos
           hi == P + rcvWnd
           N == l.at + TcpLen(l)
<1>1. /\ rcvNxt' = nxt /\ ooseq' = rest
      /\ rcvWnd' = (IF l.fin THEN FinBack(w) ELSE w) /\ annWnd' = AnnWnd(nxt, w)
      /\ app' = app \o data /\ held' = held + Len(data)
      /\ eof' = (eof \/ l.fin) /\ state' = IF l.fin THEN "CLOSE_WAIT" ELSE state
      /\ IF ackDelay \/ l.fin
         THEN Announce(nxt, Len(app) + taken, annWnd')
         ELSE ackDelay' = TRUE /\ UNCHANGED <<annRight, edge>>
  BY DEF Deliver
<1>2. ~ eof /\ app = [i \in 1 .. Len(app) |-> i - 1] /\ Queue(ooseq, Pos + 1, Pos + rcvWnd)
  BY DEF IInv, StreamInOrder
<1>3. /\ P \in Nat /\ P = Len(app) /\ P <= Total /\ P \in 0 .. Total + Wnd + 1
      /\ rcvWnd \in Nat /\ rcvWnd <= Wnd /\ held \in Nat /\ rcvWnd + held = Wnd
      /\ edge \in Nat /\ edge <= hi /\ edge \in 0 .. Total + Wnd + 1 /\ hi \in Int
      /\ rcvNxt = SeqNo(P) /\ annRight = SeqNo(edge)
  BY <1>2, IFacts
<1>4. Total \in Nat /\ Wnd \in Nat /\ M \in Nat
  BY Consts
<1>5. RunTaken(l, data, rest, P, hi)
  <2>1. /\ Piece(f.seg) /\ f.seg.at = P /\ Queue(f.rest, P, hi)
        /\ Queue(<<f.seg>> \o f.rest, P, hi)
    <3>1. c.at + TcpLen(c) <= hi /\ Queue(ooseq, c.at + 1, hi) /\ f = Fitted(c)
      BY <1>2
    <3> HIDE DEF f, hi
    <3>2. /\ Piece(f.seg) /\ f.seg.at = c.at /\ Queue(f.rest, c.at, hi)
          /\ Queue(<<f.seg>> \o f.rest, c.at, hi)
      BY ONLY <3>1, <1>3, Piece(c), FitWindow(c) = c, FittedFacts
    <3> QED BY <3>2
  <2> DEFINE s == f.seg
             r == f.rest
  <2>2. /\ k = InSequence(EndOf(s), r) /\ segs = <<s>> \o SubSeq(r, 1, k)
        /\ data = FlattenSeq([i \in 1 .. k + 1 |-> Payload(segs[i])])
        /\ rest = SubSeq(r, k + 1, Len(r))
    OBVIOUS
  <2>3. P \in Nat /\ hi \in Int /\ Piece(s) /\ s.at = P /\ Queue(r, P, hi) /\ Queue(<<s>> \o r, P, hi)
    BY <1>3, <2>1
  <2>4. l = segs[k + 1]
    OBVIOUS
  <2> HIDE DEF f, s, r, k, segs, l, data, rest, P, hi
  <2>5. RunTaken(segs[k + 1], data, rest, P, hi)
    BY ONLY <2>2, <2>3, RunFacts
  <2> QED BY <2>4, <2>5
<1> HIDE DEF f, k, segs, l, data, rest
<1>6. /\ Piece(l) /\ P <= l.at /\ N <= hi /\ data = Bytes(P, To(l)) /\ P <= To(l)
      /\ Queue(rest, N + 1, hi)
  BY <1>5 DEF RunTaken
<1>7. /\ To(l) \in Nat /\ To(l) <= Total /\ l.at \in Nat /\ l.at <= To(l) /\ N \in Nat
      /\ l.fin \in BOOLEAN /\ N \in 0 .. Total + Wnd + 1 /\ nxt = SeqNo(N) /\ N > P
      /\ l.fin => N = To(l) + 1 /\ To(l) = Total
      /\ ~ l.fin => N = To(l)
  <2>1. /\ l.at \in Nat /\ l.len \in Nat /\ To(l) = l.at + l.len /\ To(l) <= Total /\ l.fin \in BOOLEAN
        /\ TcpLen(l) \in Nat /\ TcpLen(l) > 0
        /\ l.fin => TcpLen(l) = l.len + 1 /\ To(l) = Total
        /\ ~ l.fin => TcpLen(l) = l.len
    BY <1>6, PieceFacts DEF Piece
  <2>2. nxt = SeqNo(N) /\ N \in 0 .. Total + Wnd + 1
    BY <1>6, PieceEnds, PieceRange
  <2>3. P <= l.at /\ P \in Nat
    BY <1>3, <1>6
  <2> HIDE DEF nxt, P, hi
  <2>4. N > P /\ N \in Nat /\ l.at <= To(l) /\ To(l) \in Nat
    BY ONLY <2>1, <2>3
  <2>5. (l.fin => N = To(l) + 1) /\ (~ l.fin => N = To(l))
    BY ONLY <2>1
  <2> QED BY <2>1, <2>2, <2>4, <2>5
<1>8. taken = N - P
  <2>1. N >= P
    BY <1>3, <1>7
  <2> HIDE DEF N, P, nxt
  <2> QED BY <2>1, <1>3, <1>7, NearFacts
<1> HIDE DEF taken, nxt, N, P
<1>9. w \in Nat /\ w <= Wnd /\ w < Wnd /\ N + w = hi /\ w \in 0 .. Wnd /\ w = rcvWnd - (N - P)
  BY ONLY <1>3, <1>4, <1>6, <1>7, <1>8
<1> HIDE DEF w
<1> DEFINE a == AnnWnd(nxt, w)
<1>10. a \in 0 .. w /\ edge <= N + a
  <2> DEFINE e == edge
  <2>1. /\ N \in 0 .. Total + 1 /\ w \in 0 .. Wnd /\ e \in 0 .. Total + Wnd + 1 /\ e <= N + w
        /\ annRight = SeqNo(e) /\ nxt = SeqNo(N)
    BY ONLY <1>3, <1>4, <1>7, <1>9
  <2> HIDE DEF e, hi
  <2>2. AnnWnd(nxt, w) \in 0 .. w /\ e <= N + AnnWnd(nxt, w)
    BY ONLY <2>1, AnnWndFacts
  <2> QED BY <2>2 DEF e
<1>11. annWnd' = a
  BY <1>1
<1> HIDE DEF a
<1>12. a \in Nat /\ a <= w
  BY <1>9, <1>10
<1>13. app' = Bytes(0, To(l)) /\ Len(app') = To(l) /\ Len(data) = To(l) - P
  <2>1. app = Bytes(0, P)
    <3>1. P - 0 = P /\ \A i \in 1 .. P : 0 + i - 1 = i - 1
      BY <1>3
    <3>2. Bytes(0, P) = [i \in 1 .. P - 0 |-> 0 + i - 1]
      BY DEF Bytes
    <3>3. [i \in 1 .. P - 0 |-> 0 + i - 1] = [i \in 1 .. P |-> i - 1]
      BY ONLY <3>1
    <3> QED BY <3>2, <3>3, <1>2, <1>3
  <2> DEFINE v == To(l)
             z == 0
  <2>2. v \in Nat /\ P \in Nat /\ z \in Nat /\ z <= P /\ P <= v /\ z <= v
    BY <1>3, <1>6, <1>7
  <2>3. data = Bytes(P, v) /\ app = Bytes(z, P) /\ app' = app \o data
    BY <2>1, <1>1, <1>6
  <2> HIDE DEF v, z
  <2>4. Bytes(z, P) \o Bytes(P, v) = Bytes(z, v)
    BY ONLY <2>2, BytesConcat
  <2>5. Len(Bytes(z, v)) = v - z /\ Len(Bytes(P, v)) = v - P
    BY ONLY <2>2, BytesFacts
  <2>6. app' = Bytes(z, v) /\ Len(app') = v - z /\ Len(data) = v - P
    BY <2>3, <2>4, <2>5
  <2>7. v - z = v
    BY <2>2 DEF z
  <2> QED BY <2>6, <2>7 DEF v, z
<1>14. eof' = l.fin
  BY <1>1, <1>2, <1>7, Zenon
<1>15. Pos' = N
  <2>1. Pos' = Len(app') + (IF eof' THEN 1 ELSE 0)
    BY DEF Pos
  <2> QED BY <2>1, <1>7, <1>13, <1>14
<1>16. /\ rcvWnd' \in Nat /\ w <= rcvWnd' /\ rcvWnd' + held' = Wnd /\ held' \in Nat
       /\ rcvWnd' <= Wnd /\ held' <= Wnd /\ (held' = 0 => l.fin)
  <2>1. held' = held + (To(l) - P)
    BY <1>1, <1>13
  <2> DEFINE t == To(l)
  <2>t. t \in Nat /\ P <= t /\ P \in Nat /\ held' = held + (t - P)
    BY <2>1, <1>3, <1>6, <1>7
  <2>h. held \in Nat /\ rcvWnd \in Nat /\ rcvWnd + held = Wnd
    BY <1>3
  <2>n. N \in Nat /\ (l.fin => N = t + 1) /\ (~ l.fin => N = t) /\ N > P
    BY <1>7
  <2> HIDE DEF t
  <2>2. CASE l.fin
    <3>1. rcvWnd' = w + 1
      BY <2>2, <1>1, <1>9, <1>4 DEF FinBack
    <3> QED BY ONLY <3>1, <2>t, <2>h, <2>n, <2>2, <1>4, <1>9
  <2>3. CASE ~ l.fin
    <3>1. rcvWnd' = w
      BY <2>3, <1>1
    <3> QED BY ONLY <3>1, <2>t, <2>h, <2>n, <2>3, <1>4, <1>9
  <2> QED BY <2>2, <2>3, <1>7
<1>17. annRight' = SeqNo(edge') /\ edge' \in Nat /\ edge' <= N + a /\ ackDelay' \in BOOLEAN
  <2>1. CASE ackDelay \/ l.fin
    <3>1. Len(app) + taken = N
      BY <1>3, <1>7, <1>8
    <3>2. Announce(nxt, N, a) /\ N \in Nat /\ a \in Nat /\ edge \in Nat /\ edge <= N + a /\ nxt = SeqNo(N)
      BY <2>1, <3>1, <1>1, <1>3, <1>7, <1>10, <1>11, <1>12
    <3>3. annRight' = SeqNo(N + a) /\ edge' = N + a /\ ackDelay' \in BOOLEAN
      BY <3>2, AnnounceFacts
    <3>4. annRight' = SeqNo(edge')
      BY <3>3, Zenon
    <3>5. edge' \in Nat /\ edge' <= N + a
      BY ONLY <3>2, <3>3
    <3> QED BY <3>3, <3>4, <3>5
  <2>2. CASE ~ (ackDelay \/ l.fin)
    <3>1. ackDelay' = TRUE /\ annRight' = annRight /\ edge' = edge
      BY <2>2, <1>1
    <3>2. ackDelay' \in BOOLEAN
      BY <3>1, Zenon
    <3> QED BY <3>1, <3>2, <1>3, <1>10
  <2> QED BY <2>1, <2>2
<1>18. TypeOK'
  <2>1. rcvNxt' \in 0 .. M - 1 /\ annRight' \in 0 .. M - 1
    BY <1>1, <1>7, <1>17, SeqNoIs
  <2>2. rcvWnd' \in 0 .. Wnd /\ annWnd' \in 0 .. Wnd /\ held' \in 0 .. Wnd
    BY ONLY <1>4, <1>9, <1>11, <1>12, <1>16
  <2>3. ooseq' \in Seq(Segments)
    BY <1>1, <1>6 DEF Queue
  <2>4. app' \in Seq(0 .. Total - 1)
    <3> DEFINE v == To(l)
               z == 0
    <3>1. v \in Nat /\ z \in Nat /\ z <= v /\ v <= Total /\ z = 0
      BY <1>7
    <3> HIDE DEF v, z
    <3>2. /\ Bytes(z, v) \in Seq(Nat) /\ Len(Bytes(z, v)) = v - z
          /\ \A i \in 1 .. v - z : Bytes(z, v)[i] = z + i - 1
      BY ONLY <3>1, BytesFacts
    <3> DEFINE b == Bytes(z, v)
    <3> HIDE DEF b
    <3>3. b \in Seq(Nat) /\ Len(b) = v /\ \A i \in 1 .. v : b[i] = i - 1
      BY ONLY <3>1, <3>2 DEF b
    <3>4. b \in [1 .. v -> Nat]
      BY ONLY <3>3, LenProperties
    <3>5. \A i \in 1 .. v : b[i] \in 0 .. Total - 1
      BY ONLY <3>1, <3>3, <1>4
    <3>6. b \in [1 .. v -> 0 .. Total - 1]
      BY ONLY <3>4, <3>5
    <3>7. b \in Seq(0 .. Total - 1)
      BY ONLY <3>1, <3>6, SeqDef
    <3> QED BY <3>7, <1>13 DEF b, v, z
  <2>5. edge' \in 0 .. Total + Wnd + 1
    BY ONLY <1>3, <1>4, <1>7, <1>9, <1>12, <1>17
  <2>6. state' \in {"ESTABLISHED", "CLOSE_WAIT"}
    BY <1>1
  <2>7. eof' \in BOOLEAN
    BY <1>14, <1>7, Zenon
  <2> QED BY <2>1, <2>2, <2>3, <2>4, <2>5, <2>6, <2>7, <1>17 DEF TypeOK
<1>19. StreamInOrder'
  <2>1. app' = [i \in 1 .. Len(app') |-> i - 1]
    <3> DEFINE v == To(l)
    <3>1. v \in Nat /\ v - 0 = v /\ \A i \in 1 .. v : 0 + i - 1 = i - 1
      BY <1>7
    <3>2. Bytes(0, v) = [i \in 1 .. v - 0 |-> 0 + i - 1]
      BY DEF Bytes
    <3> HIDE DEF v
    <3>3. [i \in 1 .. v - 0 |-> 0 + i - 1] = [i \in 1 .. v |-> i - 1]
      BY ONLY <3>1
    <3> QED BY <3>2, <3>3, <1>13 DEF v
  <2>2. eof' => Len(app') = Total
    BY <1>7, <1>13, <1>14
  <2>3. rcvNxt' = SeqNo(Pos')
    BY <1>1, <1>7, <1>15, Zenon
  <2> QED BY <2>1, <2>2, <2>3 DEF StreamInOrder
<1>20. WindowConserved' /\ WindowReopens'
  BY <1>14, <1>16 DEF WindowConserved, WindowReopens
<1>21. (Len(app) <= Total)' /\ (annRight = SeqNo(edge))' /\ (edge <= Pos + annWnd)' /\ (annWnd <= rcvWnd)'
  <2>1. annWnd' <= rcvWnd'
    BY ONLY <1>9, <1>11, <1>12, <1>16
  <2> QED BY <2>1, <1>7, <1>11, <1>13, <1>15, <1>17
<1>22. (eof <=> state = "CLOSE_WAIT")'
  <2>1. CASE l.fin
    BY <2>1, <1>1, <1>14
  <2>2. CASE ~ l.fin
    BY <2>2, <1>1, <1>14
  <2> QED BY <2>1, <2>2
<1>23. Queue(ooseq, Pos + 1, Pos + rcvWnd)'
  <2> DEFINE x == N + rcvWnd'
             lo == N + 1
  <2>1. hi \in Int /\ x \in Int /\ hi <= x
    <3>1. hi = N + w /\ N \in Nat /\ w \in Nat
      BY <1>7, <1>9
    <3>2. rcvWnd' \in Nat /\ w <= rcvWnd'
      BY <1>16
    <3> DEFINE y == rcvWnd'
    <3> HIDE DEF hi, y
    <3>3. y \in Nat /\ w <= y /\ x = N + y
      BY <3>2 DEF y
    <3> HIDE DEF x
    <3> QED BY ONLY <3>1, <3>3
  <2>2. Queue(rest, lo, hi)
    BY <1>6
  <2> HIDE DEF x, lo, hi
  <2>3. Queue(rest, lo, x)
    BY <2>1, <2>2, WidenQueue
  <2> QED BY <2>3, <1>1, <1>15 DEF x, lo
<1> QED BY <1>18, <1>19, <1>20, <1>21, <1>22, <1>23 DEF IInv

-----------------------------------------------------------------------------
(* The steps. *)

\* A segment that arrives keeps the invariant, whichever the network lets
\* through, delays, repeats or cuts differently.
LEMMA ArriveStep ==
    ASSUME IInv, Arrive
    PROVE  IInv'
<1>1. PICK p \in 0 .. Total + 1, len \in 0 .. MaxSeg, fin \in BOOLEAN :
         /\ Sendable(p, len, fin) \/ (len = 0 /\ ~ fin /\ p <= edge)
         /\ Input(Segment(p, len, fin))
  BY DEF Arrive
<1> DEFINE s == Segment(p, len, fin)
           c == CutFirst(s)
           Kept == UNCHANGED <<rcvNxt, rcvWnd, annWnd, state, app, held, eof>>
           Told == UNCHANGED <<annRight, edge, ackDelay>> \/ Announce(rcvNxt, Pos, annWnd)
<1>2. IF TcpLen(s) > 0 /\ state = "ESTABLISHED"
      THEN IF InWindow(c)
           THEN \/ c.seq = rcvNxt /\ Deliver(c)
                \/ c.seq # rcvNxt /\ ooseq' \in {Enqueue(c), ooseq} /\ Told /\ Kept
           ELSE ooseq' = ooseq /\ Told /\ Kept
      ELSE ooseq' = ooseq /\ Told /\ Kept
  BY <1>1 DEF Input
<1>3. Queue(ooseq, Pos + 1, Pos + rcvWnd)
  BY DEF IInv
<1>4. ASSUME Queue(ooseq', Pos + 1, Pos + rcvWnd), Kept, Told
      PROVE  IInv'
  BY <1>4, QuietStep
<1>5. CASE ~ (TcpLen(s) > 0 /\ state = "ESTABLISHED" /\ InWindow(c))
  <2>1. ooseq' = ooseq /\ Told /\ Kept
    <3> HIDE DEF s, c, Kept, Told
    <3> QED BY <1>2, <1>5
  <2>2. Queue(ooseq', Pos + 1, Pos + rcvWnd)
    BY <2>1, <1>3
  <2> HIDE DEF Kept, Told
  <2> QED BY <2>1, <2>2, <1>4
<1>6. CASE TcpLen(s) > 0 /\ state = "ESTABLISHED" /\ InWindow(c)
  <2>1. edge \in Nat /\ Pos \in Nat /\ Pos + 1 \in Int /\ Pos + rcvWnd \in Int
    BY IFacts
  <2>2. Sendable(p, len, fin)
    <3>1. ~ (len = 0 /\ ~ fin)
      <4>1. s.len = len /\ s.fin = fin
        BY DEF Segment
      <4>2. TcpLen(s) = len + (IF fin THEN 1 ELSE 0)
        BY <4>1 DEF TcpLen
      <4> HIDE DEF s
      <4> QED BY <4>2, <1>6
    <3> QED BY <3>1, <1>1
  <2>3. /\ Piece(s) /\ s.at = p
        /\ p + TcpLen(s) <= edge \/ (TcpLen(s) = 1 /\ p = edge)
    <3> HIDE DEF s, c
    <3> QED BY <2>1, <2>2, <1>6, SegmentFacts DEF s
  <2>4. s.at + TcpLen(s) <= edge \/ (TcpLen(s) = 1 /\ s.at = edge)
    BY <2>3
  <2>5. c = CutFirst(s)
    OBVIOUS
  <2> HIDE DEF s, c
  <2>6. /\ Piece(c) /\ Pos <= c.at /\ c.at + TcpLen(c) <= Pos + rcvWnd
        /\ FitWindow(c) = c /\ (c.seq = rcvNxt <=> c.at = Pos)
    BY <2>3, <2>4, <2>5, <1>6, InWindowFacts
  <2>7. CASE c.seq = rcvNxt
    <3> HIDE DEF Kept, Told
    <3>1. Deliver(c)
      BY <2>7, <1>2, <1>6
    <3> QED BY <3>1, <2>6, <2>7, <1>6, DeliverStep
  <2>8. CASE c.seq # rcvNxt
    <3>1. ooseq' \in {Enqueue(c), ooseq} /\ Told /\ Kept
      <4> HIDE DEF Kept, Told
      <4> QED BY <2>8, <1>2, <1>6
    <3> DEFINE lo == Pos + 1
               hi == Pos + rcvWnd
    <3>2. lo \in Int /\ hi \in Int /\ lo <= c.at /\ c.at + TcpLen(c) <= hi /\ Queue(ooseq, lo, hi)
      <4>1. c.at \in Nat
        BY <2>6, PieceFacts
      <4> QED BY <4>1, <2>1, <2>6, <2>8, <1>3
    <3> HIDE DEF lo, hi
    <3>3. Queue(Enqueue(c), lo, hi)
      BY <3>2, <2>6, EnqueueQueue
    <3>4. Queue(ooseq', lo, hi)
      <4>1. CASE ooseq' = Enqueue(c)
        BY <4>1, <3>3
      <4>2. CASE ooseq' = ooseq
        BY <4>2, <3>2
      <4> QED BY <4>1, <4>2, <3>1
    <3>5. Queue(ooseq', Pos + 1, Pos + rcvWnd)
      BY <3>4 DEF lo, hi
    <3> HIDE DEF Kept, Told
    <3> QED BY <3>1, <3>5, <1>4
  <2> QED BY <2>7, <2>8
<1> QED BY <1>5, <1>6

\* Every step keeps the invariant.
LEMMA NextStep ==
    ASSUME IInv, [Next]_vars
    PROVE  IInv'
<1>1. Queue(ooseq, Pos + 1, Pos + rcvWnd)
  BY DEF IInv
<1>2. CASE Arrive
  BY <1>2, ArriveStep
<1>3. CASE SomeRecved
  BY <1>3, RecvedStep DEF SomeRecved
<1>4. CASE FastTimer
  BY <1>1, <1>4, QuietStep DEF FastTimer
<1>5. CASE Piggyback
  BY <1>1, <1>5, QuietStep DEF Piggyback
<1>6. CASE DropOoseq
  <2>1. Queue(ooseq', Pos + 1, Pos + rcvWnd)
    BY <1>6, EmptySeq DEF DropOoseq, Queue
  <2> QED BY <2>1, <1>6, QuietStep DEF DropOoseq
<1>7. CASE UNCHANGED vars
  <2>1. /\ UNCHANGED <<rcvNxt, rcvWnd, annWnd, state, app, held, eof>>
        /\ UNCHANGED <<annRight, edge, ackDelay>> /\ ooseq' = ooseq
    BY <1>7 DEF vars
  <2> QED BY <2>1, <1>1, QuietStep
<1> QED BY <1>2, <1>3, <1>4, <1>5, <1>6, <1>7 DEF Next

\* A connection just accepted satisfies the invariant.
LEMMA InitStep ==
    ASSUME Init
    PROVE  IInv
<1>1. Total \in Nat /\ Wnd \in Nat /\ M \in Nat /\ UpdStep \in Nat /\ 0 < UpdStep
  BY Consts
<1>2. /\ rcvNxt = SeqNo(0) /\ rcvWnd = Wnd /\ annWnd = Wnd /\ annRight = SeqNo(Wnd) /\ ooseq = <<>>
      /\ ackDelay = FALSE /\ state = "ESTABLISHED" /\ app = <<>> /\ held = 0 /\ eof = FALSE /\ edge = Wnd
  BY DEF Init
<1>3. Len(app) = 0 /\ Pos = 0
  BY <1>2 DEF Pos
<1>4. TypeOK
  <2>1. SeqNo(0) \in 0 .. M - 1 /\ SeqNo(Wnd) \in 0 .. M - 1
    BY <1>1, SeqNoIs
  <2>2. ackDelay \in BOOLEAN /\ eof \in BOOLEAN
    BY <1>2, Zenon
  <2>3. ooseq \in Seq(Segments) /\ app \in Seq(0 .. Total - 1)
    BY <1>2, EmptySeq
  <2>4. edge \in 0 .. Total + Wnd + 1 /\ rcvWnd \in 0 .. Wnd /\ annWnd \in 0 .. Wnd /\ held \in 0 .. Wnd
    BY <1>1, <1>2
  <2> QED BY <1>2, <2>1, <2>2, <2>3, <2>4 DEF TypeOK
<1>5. StreamInOrder
  <2>1. app = [i \in 1 .. Len(app) |-> i - 1]
    BY <1>2
  <2> QED BY <2>1, <1>2, <1>3 DEF StreamInOrder
<1>6. WindowConserved /\ WindowReopens
  BY <1>1, <1>2, <1>3 DEF WindowConserved, WindowReopens
<1>7. Queue(ooseq, Pos + 1, Pos + rcvWnd)
  BY <1>2, EmptySeq DEF Queue
<1>8. edge <= Pos + annWnd /\ annWnd <= rcvWnd /\ Len(app) <= Total
  BY <1>1, <1>2, <1>3
<1> QED BY <1>2, <1>4, <1>5, <1>6, <1>7, <1>8 DEF IInv

-----------------------------------------------------------------------------
(* The theorems. *)

\* The strengthened invariant holds in every reachable state.
THEOREM ReceiveInvariant == Spec => []IInv
<1>1. Init => IInv
  BY InitStep
<1>2. IInv /\ [Next]_vars => IInv'
  BY NextStep
<1> QED BY <1>1, <1>2, PTL DEF Spec

\* The variables of the receiving half keep their types.
THEOREM TypeCorrect == Spec => []TypeOK
<1>1. IInv => TypeOK
  BY DEF IInv
<1> QED BY <1>1, ReceiveInvariant, PTL

\* tcp_receive delivers the stream from its beginning, each byte once and in
\* order, its end after its last byte, and acknowledges what it delivered,
\* whatever the network loses, repeats, reorders or cuts differently.
THEOREM StreamInOrderHolds == Spec => []StreamInOrder
<1>1. IInv => StreamInOrder
  BY DEF IInv
<1> QED BY <1>1, ReceiveInvariant, PTL

\* The out-of-order queue always holds true pieces of the stream beyond rcv_nxt,
\* sorted, disjoint and inside the window.
THEOREM OoseqSoundHolds == Spec => []OoseqSound
<1>1. IInv => OoseqSound
  <2>1. SUFFICES ASSUME IInv, NEW i \in 1 .. Len(ooseq)
                 PROVE  LET s == ooseq[i]
                        IN  /\ s.seq = SeqNo(s.at)
                            /\ TcpLen(s) > 0 /\ Pos < s.at
                            /\ s.at + TcpLen(s) <= Pos + rcvWnd
                            /\ i < Len(ooseq) => ~ s.fin /\ s.at + s.len <= ooseq[i + 1].at
                            /\ s.fin => s.at + s.len = Total
    BY DEF OoseqSound, IInv
  <2> DEFINE s == ooseq[i]
  <2>2. Queue(ooseq, Pos + 1, Pos + rcvWnd) /\ Len(ooseq) \in Nat
    BY <2>1, LenProperties DEF IInv, Queue
  <2>3. Piece(s) /\ Pos + 1 <= s.at /\ s.at + TcpLen(s) <= Pos + rcvWnd
    BY <2>1, <2>2 DEF Queue
  <2>4. s.seq = SeqNo(s.at) /\ TcpLen(s) > 0 /\ To(s) = s.at + s.len /\ (s.fin => s.at + s.len = Total)
    <3> HIDE DEF s
    <3> QED BY <2>3 DEF Piece, To
  <2>5. Pos < s.at
    <3> HIDE DEF s
    <3>1. s.at \in Nat /\ Pos \in Nat
      BY <2>1, <2>3, PieceFacts, IFacts
    <3> QED BY <3>1, <2>3
  <2>6. i < Len(ooseq) => ~ s.fin /\ s.at + s.len <= ooseq[i + 1].at
    <3>1. i < Len(ooseq) => i + 1 \in 1 .. Len(ooseq) /\ i < i + 1
      BY <2>1, <2>2
    <3>2. i < Len(ooseq) => ~ s.fin /\ To(s) <= ooseq[i + 1].at
      BY <3>1, <2>1, <2>2 DEF Queue
    <3> HIDE DEF s
    <3> QED BY <3>2, <2>4
  <2> HIDE DEF s
  <2>7. /\ s.seq = SeqNo(s.at)
        /\ TcpLen(s) > 0 /\ Pos < s.at
        /\ s.at + TcpLen(s) <= Pos + rcvWnd
        /\ i < Len(ooseq) => ~ s.fin /\ s.at + s.len <= ooseq[i + 1].at
        /\ s.fin => s.at + s.len = Total
    BY <2>3, <2>4, <2>5, <2>6
  <2> QED BY <2>7 DEF s
<1> QED BY <1>1, ReceiveInvariant, PTL

\* Every byte of TCP_WND is free or waits for tcp_recved.
THEOREM WindowConservedHolds == Spec => []WindowConserved
<1>1. IInv => WindowConserved
  BY DEF IInv
<1> QED BY <1>1, ReceiveInvariant, PTL

\* What lies below the announced edge can be received.
THEOREM PromiseKeptHolds == Spec => []PromiseKept
<1>1. IInv => PromiseKept
  BY IFacts DEF PromiseKept
<1> QED BY <1>1, ReceiveInvariant, PTL

\* When the session holds nothing, the sender knows of a window that is open but
\* for less than one update step.
THEOREM WindowReopensHolds == Spec => []WindowReopens
<1>1. IInv => WindowReopens
  BY DEF IInv
<1> QED BY <1>1, ReceiveInvariant, PTL
=============================================================================
