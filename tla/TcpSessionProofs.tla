-------------------------- MODULE TcpSessionProofs --------------------------
(***************************************************************************)
(* Proofs about TcpSession, for every size of the ring, the windows and    *)
(* the kernel's buffer and every length of the two streams: the buffer     *)
(* shared with the stack stays intact, the receive window accounts for the *)
(* queue, no wake-up is lost, and the session implements module Relay.     *)
(***************************************************************************)
EXTENDS TcpSession, SequenceTheorems, TLAPS

-----------------------------------------------------------------------------
(* The inductive invariant.                                                *)

Rings == [data : [0 .. RingSize - 1 -> 0 .. DownMax],
          rp : 0 .. RingSize - 1, wp : 0 .. RingSize - 1,
          rda : 0 .. RingSize, use : 0 .. RingSize]

\* The types, one by one.
Typed ==
    /\ pc \in Phases /\ task \in {"run", "wait"} /\ timeout \in -1 .. 1
    /\ resF \in -1 .. 1 /\ resB \in -1 .. 1
    /\ hasPcb \in BOOLEAN /\ pcbEof \in BOOLEAN
    /\ appFin \in BOOLEAN /\ appTold \in BOOLEAN
    /\ srvEof \in BOOLEAN /\ srvErr \in BOOLEAN /\ srvTold \in BOOLEAN
    /\ terminated \in BOOLEAN
    /\ queue \in Seq(1 .. UpMax)
    /\ ring \in Rings
    /\ st \in States /\ rcvWnd \in 0 .. Wnd
    /\ sndq \in Seq(0 .. RingSize - 1)
    /\ appSent \in 0 .. UpMax /\ toApp \in Seq(0 .. DownMax) /\ acked \in 0 .. DownMax
    /\ srvSent \in 0 .. DownMax /\ srvRead \in 0 .. DownMax
    /\ space \in 0 .. SockBuf /\ toServer \in Seq(1 .. UpMax)

\* What lwIP may still deliver and what is queued make up the window.
Accounted == hasPcb /\ st # "FREE" => rcvWnd + Len(queue) = Wnd

\* Position x of the ring, counted from one place before its beginning.
Wrap(x) == IF x < 0 THEN x + RingSize ELSE x

\* Ring r holds in order the bytes a + 1, a + 2 ... k of the download, in the
\* places that q lists, up to the write position.
Placed(r, q, a, k) ==
    /\ r.rda = 0 /\ r.rp = r.wp
    /\ Len(q) = r.use /\ a + r.use = k
    /\ \A i \in 1 .. Len(q) :
          q[i] = Wrap(r.wp - r.use + i - 1) /\ r.data[q[i]] = a + i

\* The FIN has been sent.
FinStates == {"FIN_WAIT_1", "FIN_WAIT_2", "CLOSING", "LAST_ACK", "TIME_WAIT"}

\* A block that exists belongs to the session, which has not ended; a block that
\* was freed holds no data, and if the session does not know, it has sent its FIN.
PcbInv ==
    /\ st # "FREE" => hasPcb
    /\ pc = "gone" => ~hasPcb /\ task = "wait"
    /\ st = "FREE" => sndq = <<>>
    /\ hasPcb /\ st = "FREE" => resB < 0
    /\ pc \in {"start", "connect", "method", "creds", "response"} => resF = 1 /\ resB = 1

\* The download: from the server through the ring to the application.
DownInv ==
    /\ st # "FREE" => Placed(ring, sndq, acked, srvRead)
    /\ resB >= 0 => ring.rda = 0
    /\ acked <= Len(toApp) /\ Len(toApp) <= srvRead /\ srvRead <= srvSent
    /\ st # "FREE" => Len(toApp) <= acked + Len(sndq)
    /\ \A i \in 1 .. Len(toApp) : toApp[i] = i

\* The FIN follows the last byte, and nothing follows the FIN.
FinInv ==
    /\ st \in FinStates => resB < 0 /\ srvEof /\ srvRead = srvSent
    /\ st \in {"FIN_WAIT_2", "TIME_WAIT"} => sndq = <<>>
    /\ appTold => st \in {"FIN_WAIT_2", "TIME_WAIT", "FREE"}

\* The upload: from the application through the queue to the server.
UpInv ==
    /\ pc # "gone" => appSent = Len(toServer) + Len(queue)
    /\ \A i \in 1 .. Len(queue) : queue[i] = Len(toServer) + i
    /\ \A i \in 1 .. Len(toServer) : toServer[i] = i
    /\ Len(toServer) <= appSent
    /\ pcbEof => appFin
    /\ srvTold => resF < 0

IInv == /\ Typed /\ Accounted /\ NoLostWakeup
        /\ PcbInv /\ DownInv /\ FinInv /\ UpInv

-----------------------------------------------------------------------------
(* Arithmetic.                                                             *)

\* The smaller of two numbers.
LEMMA MinFacts ==
    ASSUME NEW a \in Int, NEW b \in Int
    PROVE  Min({a, b}) = IF a <= b THEN a ELSE b
<1> DEFINE m == IF a <= b THEN a ELSE b
<1>1. m \in {a, b} /\ \A y \in {a, b} : m <= y
  OBVIOUS
<1>2. \A x \in {a, b} : (\A y \in {a, b} : x <= y) => x = m
  OBVIOUS
<1> QED BY <1>1, <1>2 DEF Min

\* hev_config_init clamps the ring to what the stack takes.
LEMMA SizeFacts == RingSize \in Nat \ {0} /\ RingSize <= SndBuf
BY MinFacts, SizesAssumption DEF RingSize

\* A position that has passed the end of the ring at most once.
Pos(x) == IF x < RingSize THEN x ELSE x - RingSize

\* An index that has run over the end of the ring by less than a ring.
LEMMA ModFacts ==
    ASSUME NEW x \in 0 .. 2 * RingSize - 1
    PROVE  x % RingSize = Pos(x) /\ Pos(x) \in 0 .. RingSize - 1
BY SizeFacts DEF Pos

\* It is a place of the ring.
LEMMA PosFacts ==
    ASSUME NEW x \in 0 .. RingSize - 1, NEW n \in 0 .. RingSize
    PROVE  Pos(x + n) \in 0 .. RingSize - 1
BY SizeFacts DEF Pos

-----------------------------------------------------------------------------
(* The ring buffer.                                                        *)

\* The i-th free place.
LEMMA WritingFacts ==
    ASSUME NEW r \in Rings, NEW i \in Nat \ {0}, r.use + i <= RingSize
    PROVE  /\ Writing(r)[i] = Pos(r.wp + i - 1)
           /\ Writing(r)[i] \in 0 .. RingSize - 1
<1>1. PICK wp \in 0 .. RingSize - 1, u \in 0 .. RingSize : r.wp = wp /\ r.use = u
  BY DEF Rings
<1>2. u + i <= RingSize
  BY <1>1
<1>3. PICK x \in 0 .. 2 * RingSize - 1 : x = wp + i - 1
  BY ONLY <1>2, SizeFacts
<1>4. i \in 1 .. RingSize - r.use
  BY ONLY <1>1, <1>2, SizeFacts
<1>5. Writing(r)[i] = x % RingSize
  BY ONLY <1>1, <1>3, <1>4 DEF Writing
<1>6. Writing(r)[i] = Pos(x) /\ Pos(x) \in 0 .. RingSize - 1
  BY ONLY <1>5, ModFacts
<1> QED BY ONLY <1>1, <1>3, <1>6

\* Writing n bytes fills the first n free places and touches no other.
LEMMA WriteFinishFacts ==
    ASSUME NEW r \in Rings, NEW k \in Nat, NEW n \in Nat,
           r.use + n <= RingSize, r.rda = 0, k + n <= DownMax
    PROVE  /\ WriteFinish(r, k, n) \in Rings
           /\ WriteFinish(r, k, n).rp = r.rp
           /\ WriteFinish(r, k, n).wp = Pos(r.wp + n)
           /\ WriteFinish(r, k, n).use = r.use + n
           /\ WriteFinish(r, k, n).rda = n
           /\ \A i \in 1 .. n : WriteFinish(r, k, n).data[Writing(r)[i]] = k + i
           /\ \A p \in 0 .. RingSize - 1 :
                 (\A i \in 1 .. n : Writing(r)[i] # p)
                 => WriteFinish(r, k, n).data[p] = r.data[p]
<1> DEFINE W == WriteFinish(r, k, n)
           d == [p \in 0 .. RingSize - 1 |->
                   IF \E i \in 1 .. n : Writing(r)[i] = p
                     THEN k + (CHOOSE i \in 1 .. n : Writing(r)[i] = p)
                     ELSE r.data[p]]
           v == (r.wp + n) % RingSize
<1>1. PICK wp \in 0 .. RingSize - 1, u \in 0 .. RingSize : r.wp = wp /\ r.use = u
  BY DEF Rings
<1>2. u + n <= RingSize /\ RingSize \in Nat \ {0}
  BY <1>1, SizeFacts
<1>3. PICK m \in 0 .. RingSize : m = u + n
  BY ONLY <1>2, n \in Nat
<1>4. n \in 0 .. RingSize /\ r.rda + n = n
  BY ONLY <1>2, r.rda = 0, n \in Nat
<1>5. W = [r EXCEPT !.data = d, !.wp = v, !.use = m, !.rda = n]
  BY <1>1, <1>3, <1>4 DEF WriteFinish
<1>6. v = Pos(wp + n) /\ v \in 0 .. RingSize - 1
  <2>1. PICK x \in 0 .. 2 * RingSize - 1 : x = wp + n
    BY ONLY <1>2, n \in Nat
  <2>2. v = x % RingSize
    BY <2>1, <1>1
  <2> HIDE DEF v
  <2> QED BY ONLY <2>1, <2>2, ModFacts
<1> HIDE DEF v
<1>7. ASSUME NEW i \in 1 .. n
      PROVE  Writing(r)[i] = Pos(wp + i - 1) /\ Writing(r)[i] \in 0 .. RingSize - 1
  <2>1. i \in Nat \ {0} /\ r.use + i <= RingSize
    BY ONLY <1>1, <1>2, n \in Nat
  <2> QED BY ONLY <2>1, <1>1, WritingFacts
<1>8. ASSUME NEW i \in 1 .. n, NEW j \in 1 .. n, Writing(r)[i] = Writing(r)[j]
      PROVE  i = j
  <2>1. Pos(wp + i - 1) = Pos(wp + j - 1)
    BY <1>7, <1>8
  <2> QED BY ONLY <2>1, <1>2, n \in Nat DEF Pos
<1>9. ASSUME NEW i \in 1 .. n PROVE d[Writing(r)[i]] = k + i
  <2>1. (CHOOSE j \in 1 .. n : Writing(r)[j] = Writing(r)[i]) = i
    BY ONLY <1>8
  <2> QED BY ONLY <2>1, <1>7
<1>10. \A p \in 0 .. RingSize - 1 :
          (\A i \in 1 .. n : Writing(r)[i] # p) => d[p] = r.data[p]
  OBVIOUS
<1>11. d \in [0 .. RingSize - 1 -> 0 .. DownMax]
  <2>1. ASSUME NEW p \in 0 .. RingSize - 1 PROVE d[p] \in 0 .. DownMax
    <3>1. CASE \E i \in 1 .. n : Writing(r)[i] = p
      <4>1. PICK i \in 1 .. n : Writing(r)[i] = p
        BY <3>1
      <4>2. d[p] = k + i
        BY <4>1, <1>9
      <4>3. DownMax \in Nat
        BY SizesAssumption
      <4> HIDE DEF d
      <4> QED BY ONLY <4>2, <4>3, k + n <= DownMax, n \in Nat
    <3>2. CASE ~ \E i \in 1 .. n : Writing(r)[i] = p
      <4>1. d[p] = r.data[p]
        BY <3>2, <1>10
      <4> HIDE DEF d
      <4> QED BY <4>1 DEF Rings
    <3> QED BY <3>1, <3>2
  <2> QED BY <2>1
<1> HIDE DEF d, W
<1>12. /\ W \in Rings /\ W.data = d /\ W.rp = r.rp /\ W.wp = v /\ W.use = m /\ W.rda = n
  BY ONLY <1>4, <1>5, <1>6, <1>11, r \in Rings DEF Rings
<1> QED BY <1>1, <1>3, <1>6, <1>9, <1>10, <1>12 DEF W

\* A run of n places from a place on.
Run(from, n) == [i \in 1 .. n |-> from + i - 1]

\* A run of places of the ring.
LEMMA RunFacts ==
    ASSUME NEW from \in 0 .. RingSize - 1, NEW n \in Nat, from + n <= RingSize
    PROVE  /\ Run(from, n) \in Seq(0 .. RingSize - 1) /\ Len(Run(from, n)) = n
           /\ \A i \in 1 .. n : Run(from, n)[i] = from + i - 1
<1>1. \A i \in 1 .. n : from + i - 1 \in 0 .. RingSize - 1
  BY SizeFacts
<1>2. Run(from, n) \in Seq(0 .. RingSize - 1)
  BY <1>1 DEF Run
<1>3. DOMAIN Run(from, n) = 1 .. n
  BY DEF Run
<1>4. Len(Run(from, n)) = n
  BY <1>2, <1>3
<1> QED BY <1>2, <1>4 DEF Run

\* What fits is appended.
LEMMA TcpWriteFacts ==
    ASSUME NEW q \in Seq(0 .. RingSize - 1), NEW seg \in Seq(0 .. RingSize - 1),
           Len(q) + Len(seg) <= RingSize
    PROVE  /\ TcpWrite(q, seg) \in Seq(0 .. RingSize - 1)
           /\ Len(TcpWrite(q, seg)) = Len(q) + Len(seg)
           /\ \A i \in 1 .. Len(q) : TcpWrite(q, seg)[i] = q[i]
           /\ \A i \in 1 .. Len(seg) : TcpWrite(q, seg)[Len(q) + i] = seg[i]
<1>1. Len(q) \in Nat /\ Len(seg) \in Nat /\ RingSize \in Nat /\ SndBuf \in Nat
  BY SizeFacts, SizesAssumption
<1>2. Len(q) + Len(seg) <= SndBuf
  BY <1>1, SizeFacts
<1>3. TcpWrite(q, seg) = q \o seg
  BY <1>2 DEF TcpWrite
<1>4. q \o seg \in Seq(0 .. RingSize - 1) /\ Len(q \o seg) = Len(q) + Len(seg)
  BY <1>1, ConcatProperties
<1>5. \A i \in 1 .. Len(q) : (q \o seg)[i] = q[i]
  BY <1>1, ConcatProperties
<1>6. \A i \in 1 .. Len(seg) : (q \o seg)[Len(q) + i] = seg[i]
  <2> SUFFICES ASSUME NEW i \in 1 .. Len(seg) PROVE (q \o seg)[Len(q) + i] = seg[i]
    OBVIOUS
  <2>1. /\ Len(q) + i \in 1 .. Len(q) + Len(seg)
        /\ ~(Len(q) + i <= Len(q)) /\ Len(q) + i - Len(q) = i
    BY <1>1
  <2> QED BY <2>1, ConcatProperties
<1> QED BY <1>3, <1>4, <1>5, <1>6

\* The bytes that r holds for the stack are handed over in one or two runs,
\* which the stack takes.
LEMMA HandOverFacts ==
    ASSUME NEW r \in Rings, sndq \in Seq(0 .. RingSize - 1),
           Len(sndq) + r.rda <= RingSize
    PROVE  /\ HandOver(r) \in Seq(0 .. RingSize - 1)
           /\ Len(HandOver(r)) = Len(sndq) + r.rda
           /\ \A i \in 1 .. Len(sndq) : HandOver(r)[i] = sndq[i]
           /\ \A i \in 1 .. r.rda : HandOver(r)[Len(sndq) + i]
                = Pos(r.rp + i - 1)
<1>1. PICK rp \in 0 .. RingSize - 1, m \in 0 .. RingSize, k \in Nat :
         rp = r.rp /\ m = r.rda /\ k = Len(sndq)
  BY DEF Rings
<1>2. RingSize \in Nat \ {0}
  BY SizeFacts
<1>3. k + m <= RingSize
  BY <1>1
<1> DEFINE h == HandOver(r)
<1> SUFFICES /\ h \in Seq(0 .. RingSize - 1)
             /\ Len(h) = k + m
             /\ \A i \in 1 .. k : h[i] = sndq[i]
             /\ \A i \in 1 .. m : h[k + i] = Pos(rp + i - 1)
  BY <1>1
<1>4. CASE m = 0
  <2>1. h = sndq
    BY <1>1, <1>4 DEF HandOver, Reading
  <2> QED BY <2>1, <1>1, <1>4
<1>5. CASE m # 0 /\ m <= RingSize - rp
  <2> DEFINE a == Run(rp, m)
  <2>1. Reading(r) = <<a>>
    BY <1>1, <1>5 DEF Reading, Run
  <2>2. h = TcpWrite(sndq, a)
    BY <2>1 DEF HandOver
  <2>3. rp + m <= RingSize /\ m \in Nat
    BY <1>5, <1>2
  <2>4. a \in Seq(0 .. RingSize - 1) /\ Len(a) = m /\ \A i \in 1 .. m : a[i] = rp + i - 1
    BY <2>3, RunFacts
  <2> HIDE DEF a, h
  <2>5. /\ h \in Seq(0 .. RingSize - 1) /\ Len(h) = k + m
        /\ \A i \in 1 .. k : h[i] = sndq[i]
        /\ \A i \in 1 .. m : h[k + i] = a[i]
    <3>1. sndq \in Seq(0 .. RingSize - 1) /\ Len(sndq) + Len(a) <= RingSize
      BY <2>4, <1>1, <1>3
    <3>2. /\ h \in Seq(0 .. RingSize - 1) /\ Len(h) = Len(sndq) + Len(a)
          /\ \A i \in 1 .. Len(sndq) : h[i] = sndq[i]
          /\ \A i \in 1 .. Len(a) : h[Len(sndq) + i] = a[i]
      BY ONLY <3>1, <2>2, <2>4, TcpWriteFacts
    <3> QED BY ONLY <3>2, <2>4, <1>1
  <2>6. \A i \in 1 .. m : a[i] = rp + i - 1 /\ rp + i - 1 < RingSize
    BY <2>4, <2>3, <1>2
  <2> QED BY <2>5, <2>6 DEF Pos
<1>6. CASE m # 0 /\ ~(m <= RingSize - rp)
  <2>1. PICK u \in 1 .. RingSize : u = RingSize - rp
    BY <1>2
  <2>2. PICK l \in 1 .. RingSize : l = m - u
    BY <1>2, <1>6, <2>1
  <2> DEFINE a == Run(rp, u)
             b == Run(0, l)
             g == TcpWrite(sndq, a)
  <2>3. Reading(r) = <<a, b>>
    BY <1>1, <1>6, <2>1, <2>2 DEF Reading, Run
  <2>4. h = TcpWrite(g, b)
    BY <2>3 DEF HandOver
  <2>5. a \in Seq(0 .. RingSize - 1) /\ Len(a) = u /\ \A i \in 1 .. u : a[i] = rp + i - 1
    <3>1. rp + u <= RingSize /\ u \in Nat
      BY <2>1, <1>2
    <3> QED BY <3>1, RunFacts
  <2>6. b \in Seq(0 .. RingSize - 1) /\ Len(b) = l /\ \A i \in 1 .. l : b[i] = 0 + i - 1
    <3>1. 0 + l <= RingSize /\ l \in Nat /\ 0 \in 0 .. RingSize - 1
      BY <1>2
    <3> QED BY <3>1, RunFacts
  <2> HIDE DEF a, b
  <2>7. /\ g \in Seq(0 .. RingSize - 1) /\ Len(g) = k + u
        /\ \A i \in 1 .. k : g[i] = sndq[i]
        /\ \A i \in 1 .. u : g[k + i] = a[i]
    <3>1. k + u <= RingSize
      BY <1>2, <1>3, <1>6, <2>1
    <3> QED BY <3>1, <2>5, <1>1, TcpWriteFacts
  <2> HIDE DEF g, h
  <2>8. /\ h \in Seq(0 .. RingSize - 1) /\ Len(h) = (k + u) + l
        /\ \A i \in 1 .. k + u : h[i] = g[i]
        /\ \A i \in 1 .. l : h[(k + u) + i] = b[i]
    <3>1. (k + u) + l <= RingSize
      BY <1>2, <1>3, <2>1, <2>2
    <3>2. Len(g) + Len(b) <= RingSize
      BY ONLY <3>1, <2>6, <2>7
    <3>3. /\ h \in Seq(0 .. RingSize - 1) /\ Len(h) = Len(g) + Len(b)
          /\ \A i \in 1 .. Len(g) : h[i] = g[i]
          /\ \A i \in 1 .. Len(b) : h[Len(g) + i] = b[i]
      BY ONLY <3>2, <2>4, <2>6, <2>7, TcpWriteFacts
    <3> QED BY ONLY <3>3, <2>6, <2>7
  <2>9. Len(h) = k + m /\ \A i \in 1 .. k : h[i] = sndq[i]
    <3>1. (k + u) + l = k + m /\ \A i \in 1 .. k : i \in 1 .. k + u
      BY <2>2
    <3> QED BY <3>1, <2>7, <2>8
  <2>10. ASSUME NEW i \in 1 .. m
         PROVE  h[k + i] = Pos(rp + i - 1)
    <3>1. CASE i <= u
      <4>1. i \in 1 .. u /\ k + i \in 1 .. k + u
        BY <3>1
      <4>2. h[k + i] = rp + i - 1
        BY <4>1, <2>5, <2>7, <2>8
      <4>3. rp + i - 1 < RingSize
        BY <3>1, <2>1, <1>2
      <4> QED BY <4>2, <4>3 DEF Pos
    <3>2. CASE ~(i <= u)
      <4>1. PICK j \in 1 .. l : i = u + j
        BY <3>2, <2>2
      <4>2. h[(k + u) + j] = 0 + j - 1
        BY <2>6, <2>8
      <4>3. (k + u) + j = k + i /\ 0 + j - 1 = rp + i - 1 - RingSize
        BY <4>1, <2>1, <1>2
      <4>4. ~(rp + i - 1 < RingSize)
        BY <3>2, <2>1, <1>2
      <4>5. Pos(rp + i - 1) = rp + i - 1 - RingSize
        BY ONLY <4>4, <1>2 DEF Pos
      <4> QED BY ONLY <4>2, <4>3, <4>5
    <3> QED BY <3>1, <3>2
  <2> QED BY <2>8, <2>9, <2>10
<1> QED BY <1>4, <1>5, <1>6

\* Reading n bytes from the server into the ring and handing them to the stack
\* keeps every unacknowledged byte where the stack finds it: the free places are
\* not among those the stack still reads.
LEMMA SplicePlaced ==
    ASSUME NEW r \in Rings, sndq \in Seq(0 .. RingSize - 1),
           NEW a \in Nat, NEW k \in Nat, Placed(r, sndq, a, k),
           NEW n \in Nat, r.use + n <= RingSize, k + n <= DownMax
    PROVE  /\ WriteFinish(r, k, n).rda = n
           /\ HandOver(WriteFinish(r, k, n)) \in Seq(0 .. RingSize - 1)
           /\ Len(HandOver(WriteFinish(r, k, n))) = Len(sndq) + n
           /\ ReadFinish(WriteFinish(r, k, n), n) \in Rings
           /\ ReadFinish(WriteFinish(r, k, n), n).use = r.use + n
           /\ Placed(ReadFinish(WriteFinish(r, k, n), n),
                     HandOver(WriteFinish(r, k, n)), a, k + n)
<1> DEFINE w == WriteFinish(r, k, n)
           h == HandOver(w)
           f == ReadFinish(w, n)
<1>1. PICK wp \in 0 .. RingSize - 1, u \in 0 .. RingSize : r.wp = wp /\ r.use = u
  BY DEF Rings
<1>2. r.rp = wp /\ r.rda = 0 /\ Len(sndq) = u
  BY <1>1 DEF Placed
<1>3. RingSize \in Nat \ {0} /\ u + n <= RingSize /\ a + u = k
  BY SizeFacts, <1>1 DEF Placed
<1>4. PICK wq \in 0 .. RingSize - 1 : wq = Pos(wp + n)
  <2>1. n \in 0 .. RingSize
    BY ONLY <1>3
  <2> QED BY ONLY <2>1, PosFacts
<1>5. /\ w \in Rings /\ w.rp = wp /\ w.wp = wq /\ w.use = u + n /\ w.rda = n
      /\ \A i \in 1 .. n : w.data[Writing(r)[i]] = k + i
      /\ \A p \in 0 .. RingSize - 1 :
           (\A i \in 1 .. n : Writing(r)[i] # p) => w.data[p] = r.data[p]
  BY ONLY WriteFinishFacts, <1>1, <1>2, <1>4, r.use + n <= RingSize, k + n <= DownMax
<1> HIDE DEF w
<1>6. /\ h \in Seq(0 .. RingSize - 1) /\ Len(h) = u + n
      /\ \A i \in 1 .. u : h[i] = sndq[i]
      /\ \A i \in 1 .. n : h[u + i] = Pos(wp + i - 1)
  <2>1. Len(sndq) + w.rda <= RingSize
    BY ONLY <1>2, <1>3, <1>5
  <2>2. /\ h \in Seq(0 .. RingSize - 1) /\ Len(h) = Len(sndq) + w.rda
        /\ \A i \in 1 .. Len(sndq) : h[i] = sndq[i]
        /\ \A i \in 1 .. w.rda : h[Len(sndq) + i] = Pos(w.rp + i - 1)
    BY ONLY <2>1, <1>5, HandOverFacts, sndq \in Seq(0 .. RingSize - 1)
  <2> HIDE DEF h
  <2> QED BY ONLY <2>2, <1>2, <1>5
<1> HIDE DEF h
<1>7. f \in Rings /\ f.data = w.data /\ f.rp = wq /\ f.wp = wq /\ f.rda = 0 /\ f.use = u + n
  <2> DEFINE v == (w.rp + n) % RingSize
  <2>1. f = [w EXCEPT !.rp = v, !.rda = w.rda - n]
    BY DEF ReadFinish
  <2>2. PICK x \in 0 .. 2 * RingSize - 1 : x = wp + n
    BY ONLY <1>3
  <2>3. v = x % RingSize
    BY <2>2, <1>5
  <2> HIDE DEF v, f
  <2>4. v = wq
    BY ONLY <2>2, <2>3, <1>4, ModFacts
  <2>5. w.rda - n = 0
    BY ONLY <1>5, n \in Nat
  <2>6. f = [w EXCEPT !.rp = wq, !.rda = 0]
    BY ONLY <2>1, <2>4, <2>5
  <2>7. 0 \in 0 .. RingSize /\ wq \in 0 .. RingSize - 1
    BY ONLY <1>3
  <2> QED BY ONLY <2>6, <2>7, <1>5 DEF Rings
<1>8. ASSUME NEW i \in 1 .. n PROVE Writing(r)[i] = Pos(wp + i - 1)
  <2>1. i \in Nat \ {0} /\ r.use + i <= RingSize
    BY ONLY <1>1, <1>3, n \in Nat
  <2> QED BY ONLY <2>1, <1>1, WritingFacts
<1>9. ASSUME NEW i \in 1 .. u
      PROVE  /\ sndq[i] = Wrap(wp - u + i - 1)
             /\ r.data[sndq[i]] = a + i /\ sndq[i] \in 0 .. RingSize - 1
  <2>1. sndq[i] \in 0 .. RingSize - 1
    BY ONLY <1>2, sndq \in Seq(0 .. RingSize - 1), ElementOfSeq
  <2> QED BY <2>1, <1>1, <1>2 DEF Placed
<1> HIDE DEF f
<1>10. ASSUME NEW i \in 1 .. u + n
       PROVE  h[i] = Wrap(wq - (u + n) + i - 1) /\ f.data[h[i]] = a + i
  <2>1. CASE i <= u
    <3>1. i \in 1 .. u
      BY ONLY <2>1, n \in Nat
    <3>2. PICK p \in 0 .. RingSize - 1 : p = sndq[i]
      BY ONLY <3>1, <1>9
    <3>6. p = Wrap(wp - u + i - 1)
      BY ONLY <3>1, <3>2, <1>9
    <3>3. p = Wrap(wq - (u + n) + i - 1)
      BY ONLY <3>1, <3>6, <1>3, <1>4 DEF Wrap, Pos
    <3>4. ASSUME NEW j \in 1 .. n PROVE Writing(r)[j] # p
      <4>1. Pos(wp + j - 1) # p
        BY ONLY <3>1, <3>6, <1>3 DEF Wrap, Pos
      <4> QED BY <4>1, <1>8
    <3>5. w.data[p] = r.data[p]
      BY ONLY <3>4, <1>5
    <3> QED BY ONLY <3>1, <3>2, <3>3, <3>5, <1>6, <1>7, <1>9
  <2>2. CASE ~(i <= u)
    <3>1. PICK j \in 1 .. n : i = u + j
      BY ONLY <2>2, <1>3
    <3>2. PICK p \in 0 .. RingSize - 1 : p = Pos(wp + j - 1)
      <4>1. PICK x \in 0 .. RingSize : x = j - 1
        BY ONLY <1>3
      <4>2. wp + x = wp + j - 1
        BY ONLY <4>1, <1>3
      <4> QED BY ONLY <4>2, PosFacts
    <3>3. p = Wrap(wq - (u + n) + i - 1)
      BY ONLY <3>1, <3>2, <1>3, <1>4 DEF Wrap, Pos
    <3>4. h[i] = p /\ Writing(r)[j] = p
      BY ONLY <3>1, <3>2, <1>6, <1>8
    <3>5. w.data[p] = k + j
      BY ONLY <3>4, <1>5
    <3>6. k + j = a + i
      BY ONLY <3>1, <1>3
    <3> QED BY ONLY <3>3, <3>4, <3>5, <3>6, <1>7
  <2> QED BY <2>1, <2>2
<1>11. a + (u + n) = k + n
  BY ONLY <1>3
<1>12. Placed(f, h, a, k + n)
  BY ONLY <1>6, <1>7, <1>10, <1>11 DEF Placed
<1> QED BY <1>1, <1>2, <1>5, <1>6, <1>7, <1>12 DEF f, h, w

\* Reading nothing changes nothing.
LEMMA NothingPlaced ==
    ASSUME NEW r \in Rings, NEW q \in Seq(0 .. RingSize - 1),
           NEW a \in Nat, NEW k \in 0 .. DownMax, Placed(r, q, a, k)
    PROVE  Placed(WriteFinish(r, k, 0), q, a, k)
<1> DEFINE w == WriteFinish(r, k, 0)
<1>1. PICK wp \in 0 .. RingSize - 1, u \in 0 .. RingSize : r.wp = wp /\ r.use = u
  BY DEF Rings
<1>2. r.rp = wp /\ r.rda = 0
  BY <1>1 DEF Placed
<1>3. u + 0 = u /\ k + 0 <= DownMax /\ 0 \in Nat /\ k \in Nat /\ u <= RingSize
  BY SizeFacts, SizesAssumption
<1>4. /\ w.rp = r.rp /\ w.wp = Pos(r.wp + 0) /\ w.use = r.use + 0 /\ w.rda = 0
      /\ \A p \in 0 .. RingSize - 1 :
           (\A i \in 1 .. 0 : Writing(r)[i] # p) => w.data[p] = r.data[p]
  BY ONLY WriteFinishFacts, <1>1, <1>2, <1>3
<1>5. \A p \in 0 .. RingSize - 1 : w.data[p] = r.data[p]
  BY ONLY <1>4
<1>6. wp = Pos(wp + 0)
  BY ONLY SizeFacts DEF Pos
<1>7. w.wp = wp /\ w.use = u /\ w.rp = wp
  BY ONLY <1>4, <1>1, <1>2, <1>3, <1>6
<1>8. \A i \in 1 .. Len(q) : q[i] \in 0 .. RingSize - 1
  BY ONLY ElementOfSeq
<1> HIDE DEF w
<1>9. Placed(w, q, a, k)
  BY <1>1, <1>4, <1>5, <1>7, <1>8 DEF Placed
<1> QED BY <1>9 DEF w

\* The n first elements of a sequence, and the others.
LEMMA TakeFacts ==
    ASSUME NEW S, NEW q \in Seq(S), NEW n \in Nat, n <= Len(q)
    PROVE  /\ SubSeq(q, 1, n) \in Seq(S) /\ Len(SubSeq(q, 1, n)) = n
           /\ \A i \in 1 .. n : SubSeq(q, 1, n)[i] = q[i]
           /\ SubSeq(q, n + 1, Len(q)) \in Seq(S)
           /\ Len(SubSeq(q, n + 1, Len(q))) = Len(q) - n
           /\ \A i \in 1 .. Len(q) - n : SubSeq(q, n + 1, Len(q))[i] = q[n + i]
<1>1. PICK len \in Nat : len = Len(q)
  OBVIOUS
<1>2. n <= len
  BY <1>1
<1>3. \A i \in 1 .. len : q[i] \in S
  BY ONLY <1>1, ElementOfSeq
<1> DEFINE a == SubSeq(q, 1, n)
           b == SubSeq(q, n + 1, len)
<1>4. 1 \in Int /\ n \in Int /\ n + 1 \in Int /\ len \in Int
  BY ONLY TRUE
<1>5. /\ a \in Seq(S) /\ Len(a) = IF 1 <= n THEN n - 1 + 1 ELSE 0
      /\ \A i \in 1 .. n - 1 + 1 : a[i] = q[1 + i - 1]
  <2>1. \A i \in 1 .. n : q[i] \in S
    BY ONLY <1>2, <1>3
  <2> QED BY ONLY <2>1, <1>4, SubSeqProperties
<1>6. /\ b \in Seq(S) /\ Len(b) = IF n + 1 <= len THEN len - (n + 1) + 1 ELSE 0
      /\ \A i \in 1 .. len - (n + 1) + 1 : b[i] = q[n + 1 + i - 1]
  <2>1. \A i \in n + 1 .. len : q[i] \in S
    BY ONLY <1>2, <1>3
  <2> QED BY ONLY <2>1, <1>4, SubSeqProperties
<1> HIDE DEF a, b
<1>7. /\ n - 1 + 1 = n /\ len - (n + 1) + 1 = len - n
      /\ \A i \in Int : 1 + i - 1 = i /\ n + 1 + i - 1 = n + i
  BY ONLY TRUE
<1>8. a \in Seq(S) /\ Len(a) = n /\ \A i \in 1 .. n : a[i] = q[i]
  BY ONLY <1>5, <1>7
<1>9. b \in Seq(S) /\ Len(b) = len - n /\ \A i \in 1 .. len - n : b[i] = q[n + i]
  BY ONLY <1>6, <1>7, <1>2
<1> QED BY ONLY <1>1, <1>8, <1>9 DEF a, b

\* Acknowledging the n oldest bytes frees their places.
LEMMA ReleasePlaced ==
    ASSUME NEW r \in Rings, NEW q \in Seq(0 .. RingSize - 1),
           NEW a \in Nat, NEW k \in Nat, Placed(r, q, a, k),
           NEW n \in 1 .. Len(q)
    PROVE  /\ ReadRelease(r, n) \in Rings
           /\ SubSeq(q, n + 1, Len(q)) \in Seq(0 .. RingSize - 1)
           /\ Len(SubSeq(q, n + 1, Len(q))) = Len(q) - n
           /\ Placed(ReadRelease(r, n), SubSeq(q, n + 1, Len(q)), a + n, k)
<1> DEFINE f == ReadRelease(r, n)
           h == SubSeq(q, n + 1, Len(q))
<1>1. PICK wp \in 0 .. RingSize - 1, u \in 0 .. RingSize :
         wp = r.wp /\ u = r.use /\ r.rp = wp /\ r.rda = 0 /\ Len(q) = u /\ a + u = k
  BY DEF Rings, Placed
<1>2. RingSize \in Nat \ {0} /\ n \in Nat /\ n <= u
  BY SizeFacts, <1>1
<1>3. /\ h \in Seq(0 .. RingSize - 1) /\ Len(h) = u - n
      /\ \A i \in 1 .. u - n : h[i] = q[n + i]
  <2>1. n <= Len(q)
    BY ONLY <1>1, <1>2
  <2>2. /\ h \in Seq(0 .. RingSize - 1) /\ Len(h) = Len(q) - n
        /\ \A i \in 1 .. Len(q) - n : h[i] = q[n + i]
    BY ONLY <2>1, <1>2, TakeFacts
  <2> HIDE DEF h
  <2> QED BY ONLY <2>2, <1>1
<1>4. \A i \in 1 .. u : q[i] = Wrap(wp - u + i - 1) /\ r.data[q[i]] = a + i
  BY <1>1 DEF Placed
<1> HIDE DEF h
<1>5. CASE u = n
  <2>1. f = [r EXCEPT !.use = 0, !.rp = 0, !.wp = 0]
    BY <1>1, <1>5 DEF ReadRelease
  <2>2. 0 \in 0 .. RingSize /\ 0 \in 0 .. RingSize - 1
    BY <1>2
  <2>3. f \in Rings /\ f.use = 0 /\ f.rp = 0 /\ f.wp = 0 /\ f.rda = 0
    BY ONLY <2>1, <2>2, <1>1, r \in Rings DEF Rings
  <2>4. Len(h) = 0 /\ (a + n) + 0 = k
    BY <1>3, <1>5, <1>1
  <2> HIDE DEF f
  <2>5. Placed(f, h, a + n, k)
    BY <2>3, <2>4 DEF Placed
  <2> QED BY <2>3, <2>5, <1>1, <1>3 DEF f, h
<1>6. CASE u # n
  <2>1. PICK v \in 0 .. RingSize : v = u - n
    BY <1>2
  <2>2. f = [r EXCEPT !.use = v]
    BY <1>1, <1>6, <2>1 DEF ReadRelease
  <2> HIDE DEF f
  <2>3. f \in Rings /\ f.use = v /\ f.rp = wp /\ f.wp = wp /\ f.rda = 0 /\ f.data = r.data
    BY ONLY <2>2, <1>1, r \in Rings, v \in 0 .. RingSize DEF Rings
  <2>4. Len(h) = v /\ (a + n) + v = k
    BY <1>3, <2>1, <1>1, <1>2
  <2>5. ASSUME NEW i \in 1 .. v
        PROVE  h[i] = Wrap(wp - v + i - 1) /\ r.data[h[i]] = (a + n) + i
    <3>1. n + i \in 1 .. u /\ wp - u + (n + i) - 1 = wp - v + i - 1 /\ a + (n + i) = (a + n) + i
      BY <2>1, <1>2
    <3>2. h[i] = q[n + i]
      BY <1>3, <2>1
    <3>3. q[n + i] = Wrap(wp - u + (n + i) - 1) /\ r.data[q[n + i]] = a + (n + i)
      BY <3>1, <1>4
    <3> QED BY ONLY <3>1, <3>2, <3>3
  <2>6. Placed(f, h, a + n, k)
    BY <2>3, <2>4, <2>5 DEF Placed
  <2> QED BY <2>3, <2>6, <1>1, <1>3 DEF f, h
<1> QED BY <1>5, <1>6

-----------------------------------------------------------------------------
(* What one round of the splice loop does.                                 *)

\* readv fills free places with bytes the server has sent, and answers EAGAIN
\* or the end only when there are none.
LEMMA ReadVFacts ==
    ASSUME Typed, srvRead <= srvSent, NEW v \in ReadV
    PROVE  /\ v.res \in -1 .. 1 /\ v.n \in Nat
           /\ ring.use + v.n <= RingSize /\ srvRead + v.n <= srvSent
           /\ v.res <= 0 => v.n = 0
           /\ v.res > 0 => v.n > 0
           /\ v.res < 0 => srvEof /\ srvRead = srvSent
           /\ v.res = 0 /\ ring.use < RingSize => srvSent = srvRead /\ ~srvEof
<1>1. PICK u \in 0 .. RingSize : ring.use = u
  BY DEF Typed, Rings
<1>2. PICK avail \in Nat : avail = srvSent - srvRead
  BY DEF Typed
<1>3. RingSize \in Nat /\ srvSent \in Nat /\ srvRead \in Nat
  BY SizeFacts DEF Typed
<1>4. CASE u = RingSize
  <2>1. v = [res |-> 0, n |-> 0]
    BY <1>1, <1>4 DEF ReadV
  <2> QED BY ONLY <2>1, <1>1, <1>3, <1>4, srvRead <= srvSent
<1>5. CASE u # RingSize /\ avail > 0
  <2>1. PICK n \in 1 .. Min({avail, RingSize - u}) : v = [res |-> 1, n |-> n]
    BY <1>1, <1>2, <1>5 DEF ReadV
  <2>2. Min({avail, RingSize - u}) = IF avail <= RingSize - u THEN avail ELSE RingSize - u
    BY ONLY <1>3, MinFacts
  <2>3. n \in Nat /\ n > 0 /\ u + n <= RingSize /\ srvRead + n <= srvSent
    BY ONLY <2>2, <1>2, <1>3
  <2> QED BY ONLY <2>1, <2>3, <1>1
<1>6. CASE u # RingSize /\ ~(avail > 0)
  <2>1. v = [res |-> IF srvEof THEN -1 ELSE 0, n |-> 0]
    BY <1>1, <1>2, <1>6 DEF ReadV
  <2>2. srvSent = srvRead
    BY ONLY <1>2, <1>3, <1>6
  <2> QED BY ONLY <2>1, <2>2, <1>1, <1>3
<1> QED BY <1>4, <1>5, <1>6

\* tcp_splice_b keeps the unacknowledged bytes in place, sends the FIN only after
\* the last byte, and waits only when there is nothing to read or no room.
LEMMA SpliceBFacts ==
    ASSUME Typed, PcbInv, DownInv, NEW b \in SpliceB
    PROVE  /\ b.res \in -1 .. 1 /\ b.n \in Nat /\ srvRead + b.n <= srvSent
           /\ b.ring \in Rings /\ b.sndq \in Seq(0 .. RingSize - 1)
           /\ b.res >= 0 => b.ring.rda = 0
           /\ st # "FREE" => Placed(b.ring, b.sndq, acked, srvRead + b.n)
           /\ st = "FREE" => b.sndq = <<>>
           /\ b.fin => /\ st # "FREE" /\ b.res < 0 /\ srvEof
                       /\ srvRead + b.n = srvSent
           /\ b.res = 0 =>
                /\ hasPcb
                /\ b.ring.use < RingSize => srvSent = srvRead + b.n /\ ~srvEof
           /\ resB < 0 => b.res < 0 /\ b.n = 0 /\ b.ring = ring /\ b.sndq = sndq
<1>1. /\ srvRead \in Nat /\ srvSent \in Nat /\ srvRead <= srvSent /\ srvSent <= DownMax
      /\ acked \in Nat /\ ring \in Rings /\ sndq \in Seq(0 .. RingSize - 1)
      /\ srvRead \in 0 .. DownMax
  BY SizesAssumption DEF Typed, DownInv
<1>2. /\ resB \in -1 .. 1 /\ hasPcb \in BOOLEAN
      /\ st = "FREE" => sndq = <<>>
      /\ st # "FREE" => hasPcb /\ Placed(ring, sndq, acked, srvRead)
      /\ hasPcb /\ st = "FREE" => resB < 0
      /\ resB >= 0 => ring.rda = 0
  BY DEF Typed, PcbInv, DownInv
<1> DEFINE after(v) == WriteFinish(ring, srvRead, v.n)
<1>3. CASE resB < 0
  <2>1. b = [res |-> -1, n |-> 0, ring |-> ring, sndq |-> sndq, fin |-> FALSE]
    BY <1>3 DEF SpliceB
  <2>2. srvRead + 0 = srvRead
    BY <1>1
  <2> QED BY ONLY <2>1, <2>2, <1>1, <1>2, <1>3
<1>4. CASE ~(resB < 0) /\ ~hasPcb
  <2>1. PICK v \in ReadV : b = [res |-> -1, n |-> v.n, ring |-> after(v), sndq |-> sndq,
                                fin |-> FALSE]
    BY <1>4 DEF SpliceB
  <2>2. v.n \in Nat /\ ring.use + v.n <= RingSize /\ srvRead + v.n <= srvSent
    BY <1>1, ReadVFacts
  <2>3. ring.rda = 0 /\ srvRead + v.n <= DownMax
    BY ONLY <2>2, <1>1, <1>2, <1>4, SizesAssumption
  <2>4. after(v) \in Rings
    BY ONLY <2>2, <2>3, <1>1, WriteFinishFacts
  <2> HIDE DEF after
  <2> QED BY ONLY <2>1, <2>2, <2>4, <1>1, <1>2, <1>4
<1>5. CASE ~(resB < 0) /\ hasPcb
  <2>1. PICK v \in ReadV :
           b \in IF after(v).rda > 0
                   THEN {[res |-> IF sendFails \/ Len(HandOver(after(v))) < Len(sndq) + after(v).rda
                                    THEN -1 ELSE 1,
                          n |-> v.n, ring |-> ReadFinish(after(v), after(v).rda),
                          sndq |-> HandOver(after(v)), fin |-> FALSE] :
                           sendFails \in BOOLEAN}
                   ELSE {[res |-> v.res, n |-> v.n, ring |-> after(v), sndq |-> sndq,
                          fin |-> v.res < 0]}
    BY <1>5 DEF SpliceB
  <2>2. /\ v.res \in -1 .. 1 /\ v.n \in Nat
        /\ ring.use + v.n <= RingSize /\ srvRead + v.n <= srvSent
        /\ v.res <= 0 => v.n = 0
        /\ v.res > 0 => v.n > 0
        /\ v.res < 0 => srvEof /\ srvRead = srvSent
        /\ v.res = 0 /\ ring.use < RingSize => srvSent = srvRead /\ ~srvEof
    BY <1>1, ReadVFacts
  <2>3. /\ st # "FREE" /\ Placed(ring, sndq, acked, srvRead)
        /\ srvRead + v.n <= DownMax /\ ring.rda = 0
    BY ONLY <2>2, <1>1, <1>2, <1>5, SizesAssumption
  <2>4. after(v).rda = v.n /\ after(v) \in Rings /\ after(v).use = ring.use + v.n
    BY ONLY <2>2, <2>3, <1>1, WriteFinishFacts
  <2>5. CASE v.n > 0
    <3>1. /\ Len(HandOver(after(v))) = Len(sndq) + v.n
          /\ HandOver(after(v)) \in Seq(0 .. RingSize - 1)
          /\ ReadFinish(after(v), v.n) \in Rings
          /\ Placed(ReadFinish(after(v), v.n), HandOver(after(v)), acked, srvRead + v.n)
      BY ONLY <2>2, <2>3, <1>1, SplicePlaced
    <3> HIDE DEF after
    <3>2. PICK sendFails \in BOOLEAN :
             b = [res |-> IF sendFails \/ Len(HandOver(after(v))) < Len(sndq) + after(v).rda
                            THEN -1 ELSE 1,
                  n |-> v.n, ring |-> ReadFinish(after(v), after(v).rda),
                  sndq |-> HandOver(after(v)), fin |-> FALSE]
      BY ONLY <2>1, <2>4, <2>5
    <3>3. /\ b.res \in {-1, 1} /\ b.n = v.n /\ b.ring = ReadFinish(after(v), v.n)
          /\ b.sndq = HandOver(after(v)) /\ b.fin = FALSE
      BY ONLY <3>2, <2>4
    <3>4. ReadFinish(after(v), v.n).rda = 0
      BY ONLY <3>1 DEF Placed
    <3>5. b.res \in -1 .. 1 /\ b.res # 0 /\ b.n \in Nat /\ srvRead + b.n <= srvSent
      BY ONLY <3>3, <2>2
    <3>6. /\ b.ring \in Rings /\ b.sndq \in Seq(0 .. RingSize - 1) /\ b.ring.rda = 0
          /\ Placed(b.ring, b.sndq, acked, srvRead + b.n) /\ b.fin = FALSE
      BY ONLY <3>1, <3>3, <3>4
    <3> QED BY ONLY <3>5, <3>6, <2>3, <1>5
  <2>6. CASE ~(v.n > 0)
    <3>1. v.n = 0
      BY ONLY <2>2, <2>6
    <3>2. Placed(after(v), sndq, acked, srvRead)
      BY ONLY <3>1, <2>3, <1>1, NothingPlaced
    <3> HIDE DEF after
    <3>3. b = [res |-> v.res, n |-> v.n, ring |-> after(v), sndq |-> sndq, fin |-> v.res < 0]
      BY ONLY <2>1, <2>4, <2>6
    <3>4. /\ b.res = v.res /\ b.n = v.n /\ b.ring = after(v) /\ b.sndq = sndq
          /\ b.fin = (v.res < 0)
      BY ONLY <3>3
    <3>5. srvRead + v.n = srvRead /\ after(v).use = ring.use /\ after(v).rda = 0
      <4>1. PICK u \in 0 .. RingSize : ring.use = u
        BY <1>1 DEF Rings
      <4> QED BY ONLY <4>1, <3>1, <2>4, <1>1, SizeFacts
    <3>6. b.res \in -1 .. 1 /\ b.n \in Nat /\ srvRead + b.n <= srvSent
      BY ONLY <3>4, <2>2
    <3>7. /\ b.ring \in Rings /\ b.sndq \in Seq(0 .. RingSize - 1) /\ b.ring.rda = 0
          /\ Placed(b.ring, b.sndq, acked, srvRead + b.n)
      BY ONLY <3>2, <3>4, <3>5, <2>4, <1>1
    <3>10. b.fin => v.res < 0
      BY ONLY <3>4, Zenon
    <3>11. v.res < 0 => b.res < 0 /\ srvEof /\ srvRead + b.n = srvSent
      BY ONLY <3>4, <3>5, <2>2
    <3>8. b.fin => b.res < 0 /\ srvEof /\ srvRead + b.n = srvSent
      BY ONLY <3>10, <3>11
    <3>9. b.res = 0 /\ b.ring.use < RingSize => srvSent = srvRead + b.n /\ ~srvEof
      BY ONLY <3>4, <3>5, <2>2
    <3> QED BY ONLY <3>6, <3>7, <3>8, <3>9, <2>3, <1>5
  <2> QED BY <2>5, <2>6
<1> QED BY <1>2, <1>3, <1>4, <1>5

\* tcp_splice_f writes a prefix of the queue, shuts the socket down only when the
\* queue is empty and its end known, and waits only when it cannot do either.
LEMMA SpliceFFacts ==
    ASSUME Typed, NEW f \in SpliceF
    PROVE  /\ f.res \in -1 .. 1 /\ f.n \in Nat /\ f.n <= Len(queue) /\ f.n <= space
           /\ f.shut \in BOOLEAN
           /\ f.shut => f.n = 0 /\ queue = <<>> /\ pcbEof /\ f.res < 0 /\ ~(resF < 0)
           /\ f.res <= 0 => f.n = 0
           /\ f.res = 0 => /\ queue # <<>> => space = 0 /\ ~srvErr
                           /\ queue = <<>> => ~pcbEof
           /\ resF < 0 => f.res < 0
<1>1. PICK len \in Nat : len = Len(queue)
  BY DEF Typed
<1>2. space \in Nat /\ resF \in -1 .. 1 /\ pcbEof \in BOOLEAN
  BY SizesAssumption DEF Typed
<1>3. CASE resF < 0
  <2>1. f = [res |-> -1, n |-> 0, shut |-> FALSE]
    BY <1>3 DEF SpliceF
  <2> QED BY ONLY <2>1, <1>1, <1>2, <1>3
<1>4. CASE ~(resF < 0) /\ queue = <<>>
  <2>1. f = [res |-> IF pcbEof THEN -1 ELSE 0, n |-> 0, shut |-> pcbEof]
    BY <1>4 DEF SpliceF
  <2> QED BY ONLY <2>1, <1>1, <1>2, <1>4
<1>5. CASE ~(resF < 0) /\ queue # <<>> /\ srvErr
  <2>1. f = [res |-> -1, n |-> 0, shut |-> FALSE]
    BY <1>5 DEF SpliceF
  <2> QED BY ONLY <2>1, <1>1, <1>2, <1>5
<1>6. CASE ~(resF < 0) /\ queue # <<>> /\ ~srvErr /\ space = 0
  <2>1. f = [res |-> 0, n |-> 0, shut |-> FALSE]
    BY <1>6 DEF SpliceF
  <2> QED BY ONLY <2>1, <1>1, <1>2, <1>6
<1>7. CASE ~(resF < 0) /\ queue # <<>> /\ ~srvErr /\ space # 0
  <2>1. PICK n \in 1 .. Min({len, space}) : f = [res |-> 1, n |-> n, shut |-> FALSE]
    BY <1>1, <1>7 DEF SpliceF
  <2>2. Min({len, space}) = IF len <= space THEN len ELSE space
    BY ONLY <1>2, MinFacts
  <2>3. n \in Nat /\ n <= len /\ n <= space
    BY ONLY <2>2, <1>2
  <2> QED BY ONLY <2>1, <2>3, <1>1, <1>2, <1>7
<1> QED BY <1>3, <1>4, <1>5, <1>6, <1>7

\* A sequence is empty when its length is 0.
LEMMA EmptyFacts ==
    ASSUME NEW S, NEW q \in Seq(S)
    PROVE  Len(q) \in Nat /\ (q = <<>> <=> Len(q) = 0)
BY EmptySeq

\* Writing the n oldest bytes of the queue to the server keeps both in order.
LEMMA UpMoves ==
    ASSUME Typed, UpInv, NEW n \in Nat, n <= Len(queue)
    PROVE  /\ toServer \o SubSeq(queue, 1, n) \in Seq(1 .. UpMax)
           /\ Len(toServer \o SubSeq(queue, 1, n)) = Len(toServer) + n
           /\ \A i \in 1 .. Len(toServer) + n : (toServer \o SubSeq(queue, 1, n))[i] = i
           /\ SubSeq(queue, n + 1, Len(queue)) \in Seq(1 .. UpMax)
           /\ Len(SubSeq(queue, n + 1, Len(queue))) = Len(queue) - n
           /\ \A i \in 1 .. Len(queue) - n :
                 SubSeq(queue, n + 1, Len(queue))[i] = (Len(toServer) + n) + i
<1> DEFINE a == SubSeq(queue, 1, n)
           b == SubSeq(queue, n + 1, Len(queue))
<1>1. PICK len \in Nat, t \in Nat : len = Len(queue) /\ t = Len(toServer)
  BY DEF Typed
<1>2. n <= len /\ queue \in Seq(1 .. UpMax) /\ toServer \in Seq(1 .. UpMax)
  BY <1>1 DEF Typed
<1>3. /\ a \in Seq(1 .. UpMax) /\ Len(a) = n /\ \A i \in 1 .. n : a[i] = queue[i]
      /\ b \in Seq(1 .. UpMax) /\ Len(b) = len - n
      /\ \A i \in 1 .. len - n : b[i] = queue[n + i]
  <2>1. queue \in Seq(1 .. UpMax) /\ n \in Nat /\ n <= Len(queue)
    BY ONLY <1>1, <1>2
  <2>2. /\ a \in Seq(1 .. UpMax) /\ Len(a) = n /\ \A i \in 1 .. n : a[i] = queue[i]
        /\ b \in Seq(1 .. UpMax) /\ Len(b) = Len(queue) - n
        /\ \A i \in 1 .. Len(queue) - n : b[i] = queue[n + i]
    BY ONLY <2>1, TakeFacts, ZenonT(40)
  <2> HIDE DEF a, b
  <2> QED BY ONLY <2>2, <1>1, Zenon
<1>4. /\ \A i \in 1 .. len : queue[i] = t + i
      /\ \A i \in 1 .. t : toServer[i] = i
  BY <1>1 DEF UpInv
<1> HIDE DEF a, b
<1>5. toServer \o a \in Seq(1 .. UpMax) /\ Len(toServer \o a) = t + n
  <2>1. toServer \o a \in Seq(1 .. UpMax) /\ Len(toServer \o a) = Len(toServer) + Len(a)
    BY ONLY <1>2, <1>3, ConcatProperties
  <2> QED BY ONLY <2>1, <1>1, <1>3
<1>6. ASSUME NEW i \in 1 .. t + n PROVE (toServer \o a)[i] = i
  <2>1. (toServer \o a)[i] = IF i <= t THEN toServer[i] ELSE a[i - t]
    BY ONLY <1>1, <1>2, <1>3, ConcatProperties
  <2>2. CASE i <= t
    <3>1. i \in 1 .. t
      BY ONLY <2>2
    <3> QED BY ONLY <2>1, <2>2, <3>1, <1>4
  <2>3. CASE ~(i <= t)
    <3>1. i - t \in 1 .. n /\ i - t \in 1 .. len /\ t + (i - t) = i
      BY ONLY <2>3, <1>2
    <3> QED BY ONLY <2>1, <2>3, <3>1, <1>3, <1>4
  <2> QED BY <2>2, <2>3
<1>7. ASSUME NEW i \in 1 .. len - n PROVE b[i] = (t + n) + i
  <2>1. n + i \in 1 .. len /\ t + (n + i) = (t + n) + i
    BY ONLY <1>2
  <2> QED BY ONLY <2>1, <1>3, <1>4
<1> QED BY ONLY <1>1, <1>3, <1>5, <1>6, <1>7 DEF a, b

-----------------------------------------------------------------------------
(* The steps of the session's task.                                        *)

\* What tcp_shutdown does to the state.
LEMMA ShutdownFacts ==
    ASSUME NEW s \in States
    PROVE  /\ Shutdown(s) \in States
           /\ Shutdown(s) = "FREE" <=> s = "FREE"
           /\ s \in FinStates => Shutdown(s) = s
           /\ Shutdown(s) \in {"FIN_WAIT_2", "TIME_WAIT"} => Shutdown(s) = s
BY DEF Shutdown, States, FinStates

\* A round of the splice loop.
LEMMA SpliceStep ==
    ASSUME IInv, Splice
    PROVE  IInv'
<1>1. /\ Typed /\ Accounted /\ NoLostWakeup /\ PcbInv /\ DownInv /\ FinInv /\ UpInv
  BY DEF IInv
<1>2. /\ pc = "splice" /\ task = "run"
      /\ UNCHANGED <<timeout, pcbEof, appSent, toApp, acked, appFin, appTold, srvSent,
                     srvEof, srvErr, terminated>>
  BY DEF Splice, appVars
<1>3. PICK f \in SpliceF, b \in SpliceB :
         /\ resF' = f.res /\ resB' = b.res
         /\ toServer' = toServer \o SubSeq(queue, 1, f.n)
         /\ space' = space - f.n
         /\ srvTold' = (srvTold \/ f.shut)
         /\ srvRead' = srvRead + b.n
         /\ ring' = b.ring
         /\ rcvWnd' = IF hasPcb /\ f.n > 0 THEN TcpRecved(f.n) ELSE rcvWnd
         /\ IF f.res > 0 \/ b.res > 0 \/ (~Both(f.res, b.res) /\ CanSleep)
              THEN /\ task' = IF f.res > 0 \/ b.res > 0 THEN "run" ELSE "wait"
                   /\ queue' = SubSeq(queue, f.n + 1, Len(queue))
                   /\ sndq' = b.sndq
                   /\ st' = IF b.fin THEN Shutdown(st) ELSE st
                   /\ UNCHANGED <<pc, hasPcb>>
              ELSE IF hasPcb /\ b.ring.use # 0 /\ CanSleep
                THEN /\ pc' = "drain" /\ task' = "wait"
                     /\ queue' = SubSeq(queue, f.n + 1, Len(queue))
                     /\ sndq' = b.sndq
                     /\ st' = IF b.fin THEN Shutdown(st) ELSE st
                     /\ UNCHANGED hasPcb
              ELSE Finish
  BY DEF Splice
<1>4. /\ f.res \in -1 .. 1 /\ f.n \in Nat /\ f.n <= Len(queue) /\ f.n <= space
      /\ f.shut \in BOOLEAN
      /\ f.shut => f.n = 0 /\ queue = <<>> /\ pcbEof /\ f.res < 0 /\ ~(resF < 0)
      /\ f.res <= 0 => f.n = 0
      /\ f.res = 0 => /\ queue # <<>> => space = 0 /\ ~srvErr
                      /\ queue = <<>> => ~pcbEof
      /\ resF < 0 => f.res < 0
  BY ONLY <1>1, SpliceFFacts
<1>5. /\ b.res \in -1 .. 1 /\ b.n \in Nat /\ srvRead + b.n <= srvSent
      /\ b.ring \in Rings /\ b.sndq \in Seq(0 .. RingSize - 1)
      /\ b.res >= 0 => b.ring.rda = 0
      /\ st # "FREE" => Placed(b.ring, b.sndq, acked, srvRead + b.n)
      /\ st = "FREE" => b.sndq = <<>>
      /\ b.fin => st # "FREE" /\ b.res < 0 /\ srvEof /\ srvRead + b.n = srvSent
      /\ b.res = 0 =>
           /\ hasPcb
           /\ b.ring.use < RingSize => srvSent = srvRead + b.n /\ ~srvEof
      /\ resB < 0 => b.res < 0 /\ b.n = 0 /\ b.ring = ring /\ b.sndq = sndq
  BY ONLY <1>1, SpliceBFacts
<1> DEFINE rest == SubSeq(queue, f.n + 1, Len(queue))
<1>6. /\ toServer' \in Seq(1 .. UpMax)
      /\ Len(toServer') = Len(toServer) + f.n
      /\ \A i \in 1 .. Len(toServer') : toServer'[i] = i
      /\ rest \in Seq(1 .. UpMax) /\ Len(rest) = Len(queue) - f.n
      /\ \A i \in 1 .. Len(rest) : rest[i] = Len(toServer') + i
  <2>1. /\ toServer' \in Seq(1 .. UpMax)
        /\ Len(toServer') = Len(toServer) + f.n
        /\ \A i \in 1 .. Len(toServer) + f.n : toServer'[i] = i
        /\ rest \in Seq(1 .. UpMax) /\ Len(rest) = Len(queue) - f.n
        /\ \A i \in 1 .. Len(queue) - f.n : rest[i] = (Len(toServer) + f.n) + i
    BY ONLY <1>1, <1>3, <1>4, UpMoves
  <2> HIDE DEF rest
  <2> QED BY ONLY <2>1
<1> HIDE DEF rest
<1>7. PICK len \in Nat, t \in Nat : len = Len(queue) /\ t = Len(toServer)
  BY <1>1 DEF Typed
<1>8. /\ appSent = t + len /\ (srvTold => resF < 0) /\ (pcbEof => appFin)
      /\ timeout \in -1 .. 1 /\ space \in 0 .. SockBuf /\ rcvWnd \in 0 .. Wnd
      /\ SockBuf \in Nat /\ Wnd \in Nat /\ DownMax \in Nat
      /\ srvRead \in Nat /\ srvSent \in 0 .. DownMax /\ srvTold \in BOOLEAN
      /\ st \in States /\ hasPcb \in BOOLEAN /\ appSent \in 0 .. UpMax
      /\ acked \in Nat /\ appSent \in Nat
  BY <1>1, <1>2, <1>7, SizesAssumption DEF Typed, UpInv
<1>9. rcvWnd' \in 0 .. Wnd /\ (rcvWnd + len = Wnd /\ hasPcb => rcvWnd' = rcvWnd + f.n)
  <2>1. TcpRecved(f.n) = IF rcvWnd + f.n <= Wnd THEN rcvWnd + f.n ELSE Wnd
    BY <1>4, <1>8, MinFacts DEF TcpRecved
  <2>2. PICK n \in Nat : n = f.n
    BY ONLY <1>4
  <2>6. n <= len
    BY ONLY <2>2, <1>4, <1>7
  <2>3. rcvWnd' = IF hasPcb /\ n > 0
                    THEN IF rcvWnd + n <= Wnd THEN rcvWnd + n ELSE Wnd
                    ELSE rcvWnd
    BY ONLY <2>1, <2>2, <1>3
  <2>4. rcvWnd \in 0 .. Wnd /\ Wnd \in Nat
    BY ONLY <1>8
  <2>5. rcvWnd' \in 0 .. Wnd /\ (rcvWnd + len = Wnd /\ hasPcb => rcvWnd' = rcvWnd + n)
    BY ONLY <2>3, <2>4, <2>6
  <2> QED BY ONLY <2>2, <2>5
<1>10. /\ space' \in 0 .. SockBuf /\ srvRead' \in 0 .. DownMax /\ srvTold' \in BOOLEAN
       /\ srvRead <= srvRead' /\ srvRead' <= srvSent
  <2>1. srvTold' \in BOOLEAN
    BY ONLY <1>3, <1>4, <1>8, Zenon
  <2>2. PICK n \in Nat, k \in Nat : n = f.n /\ k = b.n
    BY ONLY <1>4, <1>5
  <2>3. space' = space - n /\ n <= space /\ srvRead' = srvRead + k /\ srvRead + k <= srvSent
    BY ONLY <2>2, <1>3, <1>4, <1>5
  <2>4. /\ space \in 0 .. SockBuf /\ SockBuf \in Nat /\ DownMax \in Nat
        /\ srvRead \in Nat /\ srvSent \in 0 .. DownMax
    BY ONLY <1>8
  <2> QED BY ONLY <2>1, <2>3, <2>4
<1>11. Len(toServer') <= appSent /\ Len(toServer') + Len(rest) = appSent
  BY ONLY <1>4, <1>6, <1>7, <1>8, SMTT(30)
<1>12. srvTold' => resF' < 0
  BY ONLY <1>3, <1>4, <1>8
<1>13. /\ resB' >= 0 => ring'.rda = 0
       /\ acked' <= Len(toApp') /\ Len(toApp') <= srvRead' /\ srvRead' <= srvSent'
       /\ \A i \in 1 .. Len(toApp') : toApp'[i] = i
  <2>1. PICK g \in Nat : g = Len(toApp)
    BY <1>1 DEF Typed
  <2>2. acked <= g /\ g <= srvRead /\ \A i \in 1 .. g : toApp[i] = i
    BY <1>1, <2>1 DEF DownInv
  <2>3. g <= srvRead'
    BY ONLY <2>2, <1>8, <1>10
  <2> QED BY ONLY <2>1, <2>2, <2>3, <1>2, <1>3, <1>5, <1>10
<1>14. CASE pc' # "gone"
  <2>1. /\ pc' \in {"splice", "drain"} /\ task' \in {"run", "wait"}
        /\ queue' = rest /\ sndq' = b.sndq
        /\ st' = IF b.fin THEN Shutdown(st) ELSE st
        /\ hasPcb' = hasPcb
        /\ pc' = "splice" /\ task' = "wait" =>
             ~(f.res > 0) /\ ~(b.res > 0) /\ timeout # 0
        /\ pc' = "drain" => hasPcb /\ b.ring.use # 0 /\ timeout # 0
    BY <1>2, <1>3, <1>14 DEF rest, Finish, CanSleep
  <2>2. /\ st' \in States /\ (st' = "FREE" <=> st = "FREE")
        /\ st \in FinStates => st' = st
        /\ st' \in {"FIN_WAIT_2", "TIME_WAIT"} => st' = st
        /\ ~b.fin => st' = st
    BY ONLY <2>1, <1>8, ShutdownFacts
  <2>3. Typed'
    BY <1>1, <1>2, <1>3, <1>4, <1>5, <1>6, <1>9, <1>10, <2>1, <2>2 DEF Typed, Phases
  <2>4. Accounted'
    <3>1. hasPcb /\ st # "FREE" => rcvWnd + len = Wnd
      BY <1>1, <1>7 DEF Accounted
    <3>2. hasPcb /\ st # "FREE" => rcvWnd' + Len(rest) = Wnd
      <4>1. PICK n \in Nat : n = f.n
        BY ONLY <1>4
      <4>2. n <= len /\ Len(rest) = len - n
        BY ONLY <4>1, <1>4, <1>6, <1>7
      <4>3. rcvWnd + len = Wnd /\ hasPcb => rcvWnd' = rcvWnd + n
        BY ONLY <4>1, <1>9
      <4>4. rcvWnd \in Nat
        BY ONLY <1>8
      <4> QED BY ONLY <3>1, <4>2, <4>3, <4>4
    <3> QED BY ONLY <3>2, <2>1, <2>2 DEF Accounted
  <2>5. NoLostWakeup'
    <3>1. ASSUME pc' = "splice", task' = "wait"
          PROVE  /\ resF' = 0 => /\ queue' # <<>> => space' = 0 /\ ~srvErr'
                                 /\ queue' = <<>> => ~pcbEof'
                 /\ resB' = 0 => /\ hasPcb'
                                 /\ ring'.use < RingSize => srvSent' = srvRead' /\ ~srvEof'
                 /\ timeout' # 0
      <4>1. f.n = 0 /\ timeout # 0
        BY ONLY <2>1, <3>1, <1>4
      <4>2. Len(rest) = len /\ space' = space
        BY ONLY <4>1, <1>3, <1>6, <1>7, <1>8
      <4>3. rest = <<>> <=> queue = <<>>
        <5>1. queue \in Seq(1 .. UpMax)
          BY <1>1 DEF Typed
        <5> QED BY ONLY <4>2, <5>1, <1>6, <1>7, EmptyFacts
      <4> QED BY ONLY <4>1, <4>2, <4>3, <2>1, <1>2, <1>3, <1>4, <1>5
    <3>2. pc' = "drain" => hasPcb' /\ ring'.use # 0 /\ timeout' # 0
      BY ONLY <2>1, <1>2, <1>3
    <3> QED BY ONLY <3>1, <3>2 DEF NoLostWakeup
  <2>6. PcbInv'
    <3>1. /\ st # "FREE" => hasPcb
          /\ hasPcb /\ st = "FREE" => resB < 0
      BY <1>1 DEF PcbInv
    <3> QED BY ONLY <3>1, <2>1, <2>2, <1>3, <1>5 DEF PcbInv
  <2>7. DownInv'
    <3>1. st' # "FREE" => Placed(ring', sndq', acked', srvRead')
      BY ONLY <2>1, <2>2, <1>2, <1>3, <1>5
    <3>2. st' # "FREE" => Len(toApp') <= acked' + Len(sndq')
      <4>1. PICK g \in Nat : g = Len(toApp')
        BY <1>1, <1>2 DEF Typed
      <4>2. st' # "FREE" => acked' + Len(sndq') = srvRead'
        BY ONLY <3>1 DEF Placed
      <4> QED BY ONLY <4>1, <4>2, <1>13
    <3> QED BY ONLY <3>1, <3>2, <1>13 DEF DownInv
  <2>8. FinInv'
    <3>1. /\ st \in FinStates => resB < 0 /\ srvEof /\ srvRead = srvSent
          /\ st \in {"FIN_WAIT_2", "TIME_WAIT"} => sndq = <<>>
          /\ appTold => st \in {"FIN_WAIT_2", "TIME_WAIT", "FREE"}
      BY <1>1 DEF FinInv
    <3>2. st' \in FinStates => resB' < 0 /\ srvEof' /\ srvRead' = srvSent'
      <4>1. CASE st \in FinStates
        BY ONLY <4>1, <3>1, <1>2, <1>3, <1>5, <1>8
      <4>2. CASE st \notin FinStates
        BY ONLY <4>2, <2>2, <1>2, <1>3, <1>5
      <4> QED BY <4>1, <4>2
    <3>3. st' \in {"FIN_WAIT_2", "TIME_WAIT"} => sndq' = <<>>
      BY ONLY <3>1, <2>1, <2>2, <1>5 DEF FinStates
    <3>4. appTold' => st' \in {"FIN_WAIT_2", "TIME_WAIT", "FREE"}
      BY ONLY <3>1, <2>2, <1>2 DEF FinStates
    <3> QED BY ONLY <3>2, <3>3, <3>4 DEF FinInv
  <2>9. UpInv'
    BY ONLY <2>1, <1>2, <1>6, <1>8, <1>11, <1>12 DEF UpInv
  <2> QED BY <2>3, <2>4, <2>5, <2>6, <2>7, <2>8, <2>9 DEF IInv
<1>15. CASE pc' = "gone"
  <2>1. Finish
    BY <1>2, <1>3, <1>15
  <2>2. /\ pc' = "gone" /\ task' = "wait" /\ hasPcb' = FALSE /\ queue' = <<>>
        /\ st' = "FREE" /\ sndq' = <<>>
    BY <1>1, <2>1 DEF Finish, PcbInv
  <2>3. Typed'
    <3>1. /\ st' \in States /\ pc' \in Phases /\ task' \in {"run", "wait"}
          /\ hasPcb' \in BOOLEAN
      BY ONLY <2>2 DEF States, Phases
    <3>2. queue' \in Seq(1 .. UpMax) /\ sndq' \in Seq(0 .. RingSize - 1)
      BY ONLY <2>2, EmptySeq
    <3> QED BY <1>1, <1>2, <1>3, <1>4, <1>5, <1>6, <1>9, <1>10, <3>1, <3>2 DEF Typed
  <2>4. Accounted' /\ NoLostWakeup' /\ PcbInv' /\ FinInv'
    BY ONLY <2>2 DEF Accounted, NoLostWakeup, PcbInv, FinInv, FinStates
  <2>5. DownInv'
    BY ONLY <2>2, <1>13 DEF DownInv
  <2>6. UpInv'
    BY ONLY <2>2, <1>2, <1>6, <1>8, <1>11, <1>12 DEF UpInv
  <2> QED BY <2>3, <2>4, <2>5, <2>6 DEF IInv
<1> QED BY <1>14, <1>15

\* The end of the task, wherever it is reached without moving a byte.
LEMMA FinishStep ==
    ASSUME IInv, Finish, timeout' \in -1 .. 1,
           UNCHANGED <<resF, resB, pcbEof, ring, rcvWnd, appVars, srvVars, terminated>>
    PROVE  IInv'
<1>1. /\ pc' = "gone" /\ task' = "wait" /\ hasPcb' = FALSE /\ queue' = <<>>
      /\ st' = "FREE" /\ sndq' = <<>>
  BY DEF IInv, Finish, PcbInv
<1>2. Typed'
  <2>1. /\ st' \in States /\ pc' \in Phases /\ task' \in {"run", "wait"}
        /\ hasPcb' \in BOOLEAN
    BY ONLY <1>1 DEF States, Phases
  <2>2. queue' \in Seq(1 .. UpMax) /\ sndq' \in Seq(0 .. RingSize - 1)
    BY ONLY <1>1, EmptySeq
  <2> QED BY <2>1, <2>2 DEF IInv, Typed, appVars, srvVars
<1>3. Accounted' /\ NoLostWakeup' /\ PcbInv' /\ FinInv'
  BY ONLY <1>1 DEF Accounted, NoLostWakeup, PcbInv, FinInv, FinStates
<1>4. DownInv'
  BY <1>1 DEF IInv, DownInv, appVars, srvVars
<1>5. UpInv'
  BY <1>1 DEF IInv, UpInv, appVars, srvVars
<1> QED BY <1>2, <1>3, <1>4, <1>5 DEF IInv

\* A step of the task alone.
LEMMA TaskStep ==
    ASSUME IInv, pc' \in Phases, pc' # "gone", pc # "gone",
           pc' \in {"start", "connect", "method", "creds", "response"} =>
             pc \in {"start", "connect", "method", "creds", "response"},
           task' \in {"run", "wait"}, timeout' \in -1 .. 1, terminated' \in BOOLEAN,
           NoLostWakeup',
           UNCHANGED <<resF, resB, sessVars, stackVars, appVars, srvVars>>
    PROVE  IInv'
<1> USE DEF sessVars, stackVars, appVars, srvVars
<1>1. Typed'
  BY DEF IInv, Typed
<1>2. Accounted'
  BY DEF IInv, Accounted
<1>3. PcbInv'
  BY DEF IInv, PcbInv
<1>4. DownInv'
  BY DEF IInv, DownInv
<1>5. FinInv'
  BY DEF IInv, FinInv
<1>6. UpInv'
  BY DEF IInv, UpInv
<1> QED BY <1>1, <1>2, <1>3, <1>4, <1>5, <1>6 DEF IInv

\* Connecting, shaking hands, draining, running into the timeout and being
\* terminated.
LEMMA TaskSteps ==
    ASSUME IInv,
           Start \/ WaitAgain \/ Drain \/ Connected \/ Answered \/ HandshakeFails
             \/ TimesOut \/ Stop
    PROVE  IInv'
<1>1. pc \in Phases /\ task \in {"run", "wait"} /\ timeout \in -1 .. 1 /\ terminated \in BOOLEAN
  BY DEF IInv, Typed
<1>2. NoLostWakeup
  BY DEF IInv
<1>3. CASE Start
  <2>1. CASE Finish
    BY <1>3, <2>1, FinishStep DEF Start
  <2>2. CASE ~Finish
    <3>1. /\ pc = "start" /\ pc' = "connect" /\ task' = "wait" /\ timeout' = 1
          /\ UNCHANGED <<resF, resB, sessVars, stackVars, appVars, srvVars, terminated>>
      BY <1>3, <2>2 DEF Start, sessVars, stackVars
    <3>2. NoLostWakeup'
      BY ONLY <3>1 DEF NoLostWakeup
    <3> QED BY <3>1, <3>2, <1>1, TaskStep DEF Phases
  <2> QED BY <2>1, <2>2
<1>4. CASE WaitAgain
  <2>1. CASE Finish
    BY <1>1, <1>4, <2>1, FinishStep DEF WaitAgain
  <2>2. CASE ~Finish
    <3>1. /\ pc \in {"connect", "method", "creds", "response"} /\ task' = "wait"
          /\ UNCHANGED <<pc, timeout, resF, resB, sessVars, stackVars, appVars, srvVars,
                         terminated>>
      BY <1>4, <2>2 DEF WaitAgain, sessVars, stackVars
    <3>2. NoLostWakeup'
      BY ONLY <3>1 DEF NoLostWakeup
    <3> QED BY <3>1, <3>2, <1>1, TaskStep
  <2> QED BY <2>1, <2>2
<1>5. CASE Drain
  <2>1. CASE Finish
    BY <1>1, <1>5, <2>1, FinishStep DEF Drain
  <2>2. CASE ~Finish
    <3>1. /\ pc = "drain" /\ task' = "wait" /\ hasPcb /\ ring.use # 0 /\ timeout # 0
          /\ UNCHANGED <<pc, timeout, resF, resB, sessVars, stackVars, appVars, srvVars,
                         terminated>>
      BY <1>5, <2>2 DEF Drain, CanSleep, sessVars, stackVars
    <3>2. NoLostWakeup'
      BY ONLY <3>1 DEF NoLostWakeup, sessVars
    <3> QED BY <3>1, <3>2, <1>1, TaskStep
  <2> QED BY <2>1, <2>2
<1>6. CASE Connected
  <2>1. /\ pc = "connect" /\ pc' = "method" /\ task' = "run" /\ timeout' = 1
        /\ UNCHANGED <<resF, resB, sessVars, stackVars, appVars, srvVars, terminated>>
    BY <1>6 DEF Connected
  <2>2. NoLostWakeup'
    BY ONLY <2>1 DEF NoLostWakeup
  <2> QED BY <2>1, <2>2, <1>1, TaskStep DEF Phases
<1>7. CASE Answered
  <2>1. /\ pc \in {"method", "creds", "response"} /\ pc' \in {"creds", "response", "splice"}
        /\ task' = "run"
        /\ UNCHANGED <<timeout, resF, resB, sessVars, stackVars, appVars, srvVars, terminated>>
    BY <1>7 DEF Answered
  <2>2. NoLostWakeup'
    BY ONLY <2>1 DEF NoLostWakeup
  <2> QED BY <2>1, <2>2, <1>1, TaskStep DEF Phases
<1>8. CASE HandshakeFails
  BY <1>1, <1>8, FinishStep DEF HandshakeFails
<1>9. CASE TimesOut
  <2>1. CASE Finish
    BY <1>1, <1>9, <2>1, FinishStep DEF TimesOut
  <2>2. CASE ~Finish
    <3>1. /\ pc = "splice" /\ pc' = "drain" /\ hasPcb /\ ring.use # 0 /\ timeout # 0
          /\ UNCHANGED <<task, timeout, resF, resB, sessVars, stackVars, appVars, srvVars,
                         terminated>>
      BY <1>9, <2>2 DEF TimesOut, CanSleep, sessVars, stackVars
    <3>2. NoLostWakeup'
      BY ONLY <3>1 DEF NoLostWakeup, sessVars
    <3> QED BY <3>1, <3>2, <1>1, TaskStep DEF Phases
  <2> QED BY <2>1, <2>2
<1>10. CASE Stop
  <2>1. /\ pc # "gone" /\ task' = "run" /\ timeout' = 0 /\ terminated' = TRUE
        /\ UNCHANGED <<pc, resF, resB, sessVars, stackVars, appVars, srvVars>>
    BY <1>10 DEF Stop, Terminate, Wakeup
  <2>2. NoLostWakeup'
    BY ONLY <2>1 DEF NoLostWakeup
  <2> QED BY <2>1, <2>2, <1>1, TaskStep
<1> QED BY <1>3, <1>4, <1>5, <1>6, <1>7, <1>8, <1>9, <1>10

-----------------------------------------------------------------------------
(* The steps of the stack, the application and the server.                 *)

\* New bytes go to the end of the queue.
LEMMA AppDataStep ==
    ASSUME IInv, NEW n \in 1 .. Wnd, AppData(n)
    PROVE  IInv'
<1>1. /\ Typed /\ Accounted /\ NoLostWakeup /\ PcbInv /\ DownInv /\ FinInv /\ UpInv
  BY DEF IInv
<1>2. /\ st # "FREE" /\ pc # "gone" /\ n <= rcvWnd /\ appSent + n <= UpMax
      /\ UNCHANGED <<pc, timeout, resF, resB, hasPcb, pcbEof, ring, st, sndq, toApp, acked,
                     appFin, appTold, srvSent, srvRead, srvEof, srvErr, space, toServer,
                     srvTold, terminated>>
  BY DEF AppData, Receiving, srvVars
<1>3. CASE UNCHANGED <<queue, task, rcvWnd, appSent>>
  BY <1>1, <1>2, <1>3
     DEF IInv, Typed, Accounted, NoLostWakeup, PcbInv, DownInv, FinInv, UpInv
<1>4. CASE ~UNCHANGED <<queue, task, rcvWnd, appSent>>
  <2> DEFINE new == [i \in 1 .. n |-> appSent + i]
  <2>1. /\ queue' = queue \o new /\ rcvWnd' = rcvWnd - n /\ appSent' = appSent + n
        /\ task' = "run"
    BY <1>2, <1>4 DEF AppData, Wakeup
  <2>2. PICK len \in Nat, t \in Nat : len = Len(queue) /\ t = Len(toServer)
    BY <1>1 DEF Typed
  <2>3. /\ queue \in Seq(1 .. UpMax) /\ rcvWnd \in 0 .. Wnd /\ Wnd \in Nat /\ UpMax \in Nat
        /\ appSent \in 0 .. UpMax /\ appSent = t + len
        /\ \A i \in 1 .. len : queue[i] = t + i
    BY <1>1, <1>2, <2>2, SizesAssumption DEF Typed, UpInv
  <2>4. new \in Seq(1 .. UpMax) /\ Len(new) = n /\ \A i \in 1 .. n : new[i] = appSent + i
    <3>1. \A i \in 1 .. n : appSent + i \in 1 .. UpMax
      BY ONLY <1>2, <2>3
    <3>2. new \in Seq(1 .. UpMax)
      BY ONLY <3>1, <2>3
    <3>3. Len(new) = n
      BY ONLY <3>2, <2>3
    <3> QED BY <3>2, <3>3
  <2> HIDE DEF new
  <2>5. queue' \in Seq(1 .. UpMax) /\ Len(queue') = len + n
    <3>1. queue' \in Seq(1 .. UpMax) /\ Len(queue') = Len(queue) + Len(new)
      BY ONLY <2>1, <2>3, <2>4, ConcatProperties
    <3> QED BY ONLY <3>1, <2>2, <2>4
  <2>6. ASSUME NEW i \in 1 .. len + n PROVE queue'[i] = t + i
    <3>1. queue'[i] = IF i <= len THEN queue[i] ELSE new[i - len]
      <4>1. queue \in Seq(1 .. UpMax) /\ new \in Seq(1 .. UpMax)
        BY ONLY <2>3, <2>4
      <4>2. \A j \in 1 .. Len(queue) + Len(new) :
               (queue \o new)[j] = IF j <= Len(queue) THEN queue[j] ELSE new[j - Len(queue)]
        BY ONLY <4>1, ConcatProperties
      <4>3. Len(queue) = len /\ Len(new) = n /\ queue' = queue \o new
        BY ONLY <2>1, <2>2, <2>4
      <4>4. \A j \in 1 .. len + n : queue'[j] = IF j <= len THEN queue[j] ELSE new[j - len]
        BY ONLY <4>2, <4>3, Zenon
      <4> QED BY ONLY <4>4
    <3>2. CASE i <= len
      <4>1. i \in 1 .. len
        BY ONLY <3>2
      <4> QED BY ONLY <3>1, <3>2, <4>1, <2>3
    <3>3. CASE ~(i <= len)
      <4>1. i - len \in 1 .. n /\ (t + len) + (i - len) = t + i
        BY ONLY <3>3, <2>3
      <4> QED BY ONLY <3>1, <3>3, <4>1, <2>3, <2>4
    <3> QED BY <3>2, <3>3
  <2>7. /\ rcvWnd' \in 0 .. Wnd /\ appSent' \in 0 .. UpMax /\ appSent' = t + Len(queue')
        /\ t <= appSent' /\ (rcvWnd + len = Wnd => rcvWnd' + Len(queue') = Wnd)
    BY ONLY <1>2, <2>1, <2>3, <2>5
  <2>8. Typed'
    BY <1>1, <1>2, <2>1, <2>5, <2>7 DEF Typed
  <2>9. Accounted'
    <3>1. hasPcb => rcvWnd + len = Wnd
      BY <1>1, <1>2, <2>2 DEF Accounted
    <3> QED BY ONLY <3>1, <1>2, <2>7 DEF Accounted
  <2>10. NoLostWakeup'
    BY ONLY <2>1 DEF NoLostWakeup
  <2>11. PcbInv' /\ DownInv' /\ FinInv'
    BY <1>1, <1>2 DEF PcbInv, DownInv, FinInv
  <2>12. UpInv'
    <3>1. /\ \A i \in 1 .. t : toServer[i] = i
          /\ (pcbEof => appFin) /\ (srvTold => resF < 0)
      BY <1>1, <2>2 DEF UpInv
    <3> QED BY ONLY <3>1, <1>2, <2>2, <2>5, <2>6, <2>7 DEF UpInv
  <2> QED BY <2>8, <2>9, <2>10, <2>11, <2>12 DEF IInv
<1> QED BY <1>3, <1>4

\* The end of the upload.
LEMMA AppEofStep ==
    ASSUME IInv, AppEof
    PROVE  IInv'
<1>1. /\ Typed /\ Accounted /\ NoLostWakeup /\ PcbInv /\ DownInv /\ FinInv /\ UpInv
  BY DEF IInv
<1>2. /\ pc # "gone" /\ appFin' = TRUE /\ pcbEof' = TRUE /\ task' = "run"
      /\ UNCHANGED <<pc, timeout, resF, resB, hasPcb, queue, ring, rcvWnd, sndq,
                     appSent, toApp, acked, appTold, srvSent, srvRead, srvEof, srvErr,
                     space, toServer, srvTold, terminated>>
  BY DEF AppEof, Wakeup, srvVars
<1>3. \/ st = "ESTABLISHED" /\ st' = "CLOSE_WAIT"
      \/ st = "FIN_WAIT_1" /\ st' = "CLOSING"
      \/ st = "FIN_WAIT_2" /\ st' = "TIME_WAIT"
  BY DEF AppEof, Receiving
<1>4. Typed'
  BY <1>1, <1>2, <1>3 DEF Typed, States
<1>5. Accounted' /\ NoLostWakeup' /\ PcbInv' /\ UpInv'
  BY <1>1, <1>2, <1>3 DEF Accounted, NoLostWakeup, PcbInv, UpInv
<1>6. DownInv'
  BY <1>1, <1>2, <1>3 DEF DownInv
<1>7. FinInv'
  BY <1>1, <1>2, <1>3 DEF FinInv, FinStates
<1> QED BY <1>4, <1>5, <1>6, <1>7 DEF IInv

\* The next byte of the download, read from the ring, is the right one.
LEMMA NextByte ==
    ASSUME IInv, AppReceives
    PROVE  /\ st # "FREE" /\ Len(toApp) < srvRead
           /\ toApp' \in Seq(0 .. DownMax)
           /\ Len(toApp') = Len(toApp) + 1
           /\ Len(toApp') <= acked + Len(sndq)
           /\ \A i \in 1 .. Len(toApp') : toApp'[i] = i
<1>1. PICK g \in Nat, k \in Nat : g = Len(toApp) /\ k = Len(sndq)
  BY DEF IInv, Typed
<1>2. /\ acked \in Nat /\ acked <= g /\ srvRead \in 0 .. DownMax /\ DownMax \in Nat
      /\ st # "FREE" /\ g - acked < k
  BY <1>1, SizesAssumption DEF IInv, Typed, DownInv, AppReceives
<1>3. PICK j \in 1 .. k : j = g - acked + 1
  BY ONLY <1>2
<1>4. Placed(ring, sndq, acked, srvRead)
  BY <1>2 DEF IInv, DownInv
<1>5. ring.data[sndq[j]] = acked + j /\ acked + k = srvRead
  BY ONLY <1>1, <1>4 DEF Placed
<1>6. acked + j = g + 1 /\ g + 1 \in 0 .. DownMax /\ g < srvRead /\ g + 1 <= acked + k
  BY ONLY <1>2, <1>3, <1>5
<1>7. toApp' = Append(toApp, g + 1)
  BY <1>1, <1>3, <1>5, <1>6 DEF AppReceives
<1>8. toApp \in Seq(0 .. DownMax) /\ \A i \in 1 .. g : toApp[i] = i
  BY <1>1 DEF IInv, Typed, DownInv
<1>9. /\ toApp' \in Seq(0 .. DownMax) /\ Len(toApp') = g + 1
      /\ \A i \in 1 .. g : toApp'[i] = toApp[i]
      /\ toApp'[g + 1] = g + 1
  BY ONLY <1>1, <1>6, <1>7, <1>8, AppendProperties
<1>10. ASSUME NEW i \in 1 .. g + 1 PROVE toApp'[i] = i
  <2>1. i \in 1 .. g \/ i = g + 1
    BY ONLY TRUE
  <2> QED BY ONLY <2>1, <1>8, <1>9
<1> QED BY ONLY <1>1, <1>2, <1>6, <1>9, <1>10

\* The app takes what was sent to it.
LEMMA AppReceivesStep ==
    ASSUME IInv, AppReceives
    PROVE  IInv'
<1>1. /\ Typed /\ Accounted /\ NoLostWakeup /\ PcbInv /\ DownInv /\ FinInv /\ UpInv
  BY DEF IInv
<1>2. UNCHANGED <<pc, task, timeout, resF, resB, hasPcb, pcbEof, queue, ring, st, rcvWnd,
                  sndq, appSent, acked, appFin, appTold, srvSent, srvRead, srvEof, srvErr,
                  space, toServer, srvTold, terminated>>
  BY DEF AppReceives, taskVars, sessVars, stackVars, srvVars
<1>3. /\ st # "FREE" /\ Len(toApp) < srvRead
      /\ toApp' \in Seq(0 .. DownMax)
      /\ Len(toApp') = Len(toApp) + 1
      /\ Len(toApp') <= acked + Len(sndq)
      /\ \A i \in 1 .. Len(toApp') : toApp'[i] = i
  BY NextByte
<1>4. Typed'
  BY <1>1, <1>2, <1>3 DEF Typed
<1>5. Accounted' /\ NoLostWakeup' /\ PcbInv' /\ FinInv' /\ UpInv'
  BY <1>1, <1>2 DEF Accounted, NoLostWakeup, PcbInv, FinInv, UpInv
<1>6. DownInv'
  <2>1. PICK g \in Nat : g = Len(toApp)
    BY <1>1 DEF Typed
  <2>2. acked \in Nat /\ srvRead \in Nat /\ acked <= g /\ g < srvRead
    BY <1>1, <1>3, <2>1 DEF Typed, DownInv
  <2>3. acked <= g + 1 /\ g + 1 <= srvRead
    BY ONLY <2>2
  <2>4. /\ st # "FREE" => Placed(ring, sndq, acked, srvRead)
        /\ resB >= 0 => ring.rda = 0
        /\ srvRead <= srvSent
    BY <1>1 DEF DownInv
  <2> QED BY ONLY <1>2, <1>3, <2>1, <2>3, <2>4 DEF DownInv
<1> QED BY <1>4, <1>5, <1>6 DEF IInv

\* Acknowledged bytes leave the ring.
LEMMA AppAcksStep ==
    ASSUME IInv, NEW n \in 1 .. SndBuf, AppAcks(n)
    PROVE  IInv'
<1>1. /\ Typed /\ Accounted /\ NoLostWakeup /\ PcbInv /\ DownInv /\ FinInv /\ UpInv
  BY DEF IInv
<1>2. /\ st # "FREE" /\ n <= Len(toApp) - acked
      /\ acked' = acked + n
      /\ sndq' = SubSeq(sndq, n + 1, Len(sndq))
      /\ ring' = ReadRelease(ring, n)
      /\ UNCHANGED <<pc, timeout, resF, resB, hasPcb, pcbEof, queue, st, rcvWnd,
                     appSent, toApp, appFin, appTold, srvSent, srvRead, srvEof, srvErr,
                     space, toServer, srvTold, terminated>>
  BY DEF AppAcks, srvVars
<1>3. pc # "gone" /\ task' = "run"
  BY <1>1, <1>2 DEF AppAcks, PcbInv, Wakeup
<1>4. PICK g \in Nat, k \in Nat : g = Len(toApp) /\ k = Len(sndq)
  BY <1>1 DEF Typed
<1>5. /\ acked \in Nat /\ n <= g - acked /\ g <= acked + k /\ g <= srvRead
      /\ srvRead \in 0 .. DownMax /\ n \in Nat \ {0} /\ DownMax \in Nat
  BY <1>1, <1>2, <1>4, SizesAssumption DEF Typed, DownInv
<1>6. /\ Placed(ring, sndq, acked, srvRead) /\ ring \in Rings
      /\ sndq \in Seq(0 .. RingSize - 1) /\ srvRead \in Nat
  BY <1>1, <1>2, SizesAssumption DEF Typed, DownInv
<1>7. n \in 1 .. Len(sndq)
  BY ONLY <1>4, <1>5
<1>8. /\ ring' \in Rings /\ sndq' \in Seq(0 .. RingSize - 1)
      /\ Len(sndq') = k - n
      /\ Placed(ring', sndq', acked', srvRead)
  BY ONLY <1>2, <1>4, <1>5, <1>6, <1>7, ReleasePlaced
<1>9. /\ acked' \in 0 .. DownMax /\ acked' <= g /\ g <= acked' + Len(sndq')
  <2>1. acked' = acked + n /\ Len(sndq') = k - n
    BY <1>2, <1>8
  <2>2. SndBuf \in Nat
    BY SizesAssumption
  <2>3. PICK m \in Nat : m = Len(sndq')
    BY ONLY <1>8
  <2>4. acked' \in 0 .. DownMax /\ acked' <= g /\ g <= acked' + m
    BY ONLY <2>1, <2>2, <2>3, <1>5
  <2> QED BY ONLY <2>3, <2>4
<1>10. Typed'
  BY <1>1, <1>2, <1>3, <1>8, <1>9 DEF Typed
<1>11. Accounted' /\ NoLostWakeup' /\ PcbInv' /\ UpInv'
  BY <1>1, <1>2, <1>3 DEF Accounted, NoLostWakeup, PcbInv, UpInv
<1>12. DownInv'
  <2>1. srvRead <= srvSent /\ \A i \in 1 .. g : toApp[i] = i
    BY <1>1, <1>4 DEF DownInv
  <2>2. ring'.rda = 0
    BY ONLY <1>8 DEF Placed
  <2> QED BY ONLY <2>1, <2>2, <1>2, <1>4, <1>5, <1>8, <1>9 DEF DownInv
<1>13. FinInv'
  <2>1. st \notin {"FIN_WAIT_2", "TIME_WAIT"}
    <3>1. sndq # <<>>
      BY <1>7
    <3> QED BY <3>1, <1>1 DEF FinInv
  <2> QED BY <2>1, <1>1, <1>2 DEF FinInv
<1> QED BY <1>10, <1>11, <1>12, <1>13 DEF IInv

\* The end of the connection block: the FIN acknowledged, an error, or the end
\* of TIME_WAIT.
LEMMA BlockSteps ==
    ASSUME IInv, AppAcksFin \/ StackError \/ TimeWaitExpires
    PROVE  IInv'
<1>1. /\ Typed /\ Accounted /\ NoLostWakeup /\ PcbInv /\ DownInv /\ FinInv /\ UpInv
  BY DEF IInv
<1>2. UNCHANGED <<pc, resF, resB, pcbEof, queue, ring, rcvWnd, appSent, toApp, acked, appFin,
                  srvSent, srvRead, srvEof, srvErr, space, toServer, srvTold>>
  BY DEF AppAcksFin, StackError, TimeWaitExpires, ErrHandler, taskVars, sessVars, appVars,
         srvVars
<1>3. CASE (AppAcksFin /\ st = "LAST_ACK") \/ StackError
  <2>1. /\ st # "FREE" /\ st' = "FREE" /\ sndq' = <<>> /\ hasPcb' = FALSE
        /\ timeout' = 0 /\ terminated' = TRUE /\ appTold' \in BOOLEAN
    BY <1>1, <1>3 DEF AppAcksFin, StackError, ErrHandler, Terminate, appVars, Typed
  <2>2. pc # "gone" /\ task' = "run"
    BY <1>1, <1>3, <2>1 DEF AppAcksFin, StackError, ErrHandler, Terminate, Wakeup, PcbInv
  <2>3. Typed'
    <3>1. sndq' \in Seq(0 .. RingSize - 1)
      BY ONLY <2>1, EmptySeq
    <3>2. st' \in States
      BY ONLY <2>1 DEF States
    <3>3. hasPcb' \in BOOLEAN /\ terminated' \in BOOLEAN
      BY ONLY <2>1
    <3>4. timeout' \in -1 .. 1
      BY ONLY <2>1
    <3> QED BY <3>1, <3>2, <3>3, <3>4, <1>1, <1>2, <2>1, <2>2 DEF Typed
  <2>4. Accounted' /\ NoLostWakeup' /\ PcbInv' /\ FinInv'
    BY <1>1, <1>2, <2>1, <2>2
       DEF Accounted, NoLostWakeup, PcbInv, FinInv, FinStates
  <2>5. DownInv' /\ UpInv'
    BY <1>1, <1>2, <2>1 DEF DownInv, UpInv
  <2> QED BY <2>3, <2>4, <2>5 DEF IInv
<1>4. CASE AppAcksFin /\ st # "LAST_ACK"
  <2>1. /\ st \in {"FIN_WAIT_1", "CLOSING"} /\ st' \in {"FIN_WAIT_2", "TIME_WAIT"}
        /\ sndq = <<>> /\ appTold' = TRUE
        /\ UNCHANGED <<timeout, terminated, task, hasPcb, sndq>>
    BY <1>4 DEF AppAcksFin
  <2>2. Typed'
    BY <1>1, <1>2, <2>1 DEF Typed, States
  <2>3. Accounted' /\ NoLostWakeup' /\ PcbInv'
    BY <1>1, <1>2, <2>1 DEF Accounted, NoLostWakeup, PcbInv
  <2>4. DownInv' /\ UpInv'
    BY <1>1, <1>2, <2>1 DEF DownInv, UpInv
  <2>5. FinInv'
    BY <1>1, <1>2, <2>1 DEF FinInv, FinStates
  <2> QED BY <2>2, <2>3, <2>4, <2>5 DEF IInv
<1>5. CASE TimeWaitExpires
  <2>1. /\ st = "TIME_WAIT" /\ st' = "FREE"
        /\ UNCHANGED <<timeout, terminated, task, hasPcb, sndq, appTold>>
    BY <1>5 DEF TimeWaitExpires, taskVars, sessVars, appVars
  <2>2. resB < 0 /\ sndq = <<>>
    BY <1>1, <2>1 DEF FinInv, FinStates
  <2>3. Typed'
    BY <1>1, <1>2, <2>1 DEF Typed, States
  <2>4. Accounted' /\ NoLostWakeup' /\ PcbInv' /\ FinInv'
    BY <1>1, <1>2, <2>1, <2>2 DEF Accounted, NoLostWakeup, PcbInv, FinInv, FinStates
  <2>5. DownInv' /\ UpInv'
    BY <1>1, <1>2, <2>1 DEF DownInv, UpInv
  <2> QED BY <2>3, <2>4, <2>5 DEF IInv
<1> QED BY <1>3, <1>4, <1>5

\* What the server does is an edge that wakes the task.
LEMMA ServerSteps ==
    ASSUME IInv, ServerSends \/ ServerReads \/ (\E err \in BOOLEAN : ServerEnds(err))
    PROVE  IInv'
<1>1. /\ Typed /\ Accounted /\ NoLostWakeup /\ PcbInv /\ DownInv /\ FinInv /\ UpInv
  BY DEF IInv
<1>2. /\ pc \in {"splice", "drain"} /\ task' = "run"
      /\ UNCHANGED <<pc, timeout, resF, resB, hasPcb, pcbEof, queue, ring, st, rcvWnd, sndq,
                     appSent, toApp, acked, appFin, appTold, srvRead, toServer, srvTold,
                     terminated>>
  BY DEF ServerSends, ServerReads, ServerEnds, Wakeup, sessVars, stackVars, appVars
<1>3. /\ srvSent' \in 0 .. DownMax /\ srvEof' \in BOOLEAN /\ srvErr' \in BOOLEAN
      /\ space' \in 0 .. SockBuf /\ srvRead <= srvSent'
      /\ srvEof => srvEof' /\ srvSent' = srvSent
  <2>1. /\ srvSent \in 0 .. DownMax /\ DownMax \in Nat /\ srvRead \in 0 .. DownMax
        /\ srvRead <= srvSent /\ space \in 0 .. SockBuf /\ SockBuf \in Nat
        /\ srvEof \in BOOLEAN /\ srvErr \in BOOLEAN
    BY <1>1, SizesAssumption DEF Typed, DownInv
  <2>2. CASE ServerSends
    BY <2>1, <2>2 DEF ServerSends
  <2>3. CASE ServerReads
    BY <2>1, <2>3 DEF ServerReads
  <2>4. CASE \E err \in BOOLEAN : ServerEnds(err)
    BY <2>1, <2>4 DEF ServerEnds
  <2> QED BY <2>2, <2>3, <2>4
<1>4. Typed'
  BY <1>1, <1>2, <1>3 DEF Typed
<1>5. Accounted' /\ NoLostWakeup' /\ PcbInv' /\ UpInv'
  BY <1>1, <1>2 DEF Accounted, NoLostWakeup, PcbInv, UpInv
<1>6. DownInv'
  BY <1>1, <1>2, <1>3 DEF DownInv
<1>7. FinInv'
  BY <1>1, <1>2, <1>3 DEF FinInv
<1> QED BY <1>4, <1>5, <1>6, <1>7 DEF IInv

-----------------------------------------------------------------------------
(* The invariants.                                                         *)

\* A new session.
LEMMA InitIInv ==
    ASSUME Init
    PROVE  IInv
<1>1. 0 \in 0 .. RingSize - 1 /\ 0 \in 0 .. RingSize /\ 0 \in 0 .. DownMax /\ 0 \in 0 .. UpMax
  BY SizeFacts, SizesAssumption
<1>2. EmptyRing \in Rings /\ EmptyRing.rda = 0 /\ EmptyRing.rp = 0 /\ EmptyRing.wp = 0
      /\ EmptyRing.use = 0
  BY ONLY <1>1 DEF EmptyRing, Rings
<1>3. /\ queue \in Seq(1 .. UpMax) /\ sndq \in Seq(0 .. RingSize - 1)
      /\ toApp \in Seq(0 .. DownMax) /\ toServer \in Seq(1 .. UpMax)
      /\ Len(queue) = 0 /\ Len(sndq) = 0 /\ Len(toApp) = 0 /\ Len(toServer) = 0
  BY EmptySeq DEF Init
<1>4. Typed
  <2>1. Wnd \in 0 .. Wnd /\ SockBuf \in 0 .. SockBuf /\ -1 \in -1 .. 1 /\ 1 \in -1 .. 1
    BY SizesAssumption
  <2> QED BY <2>1, <1>1, <1>2, <1>3 DEF Init, Typed, Phases, States
<1>5. Accounted
  BY <1>3, SizesAssumption DEF Init, Accounted
<1>6. NoLostWakeup /\ PcbInv
  BY DEF Init, NoLostWakeup, PcbInv
<1>7. Placed(ring, sndq, acked, srvRead)
  BY <1>2, <1>3 DEF Init, Placed
<1>8. DownInv
  BY <1>2, <1>3, <1>7 DEF Init, DownInv
<1>9. FinInv
  BY DEF Init, FinInv, FinStates
<1>10. UpInv
  BY <1>3 DEF Init, UpInv
<1> QED BY <1>4, <1>5, <1>6, <1>8, <1>9, <1>10 DEF IInv

\* Every step keeps the invariant.
LEMMA StepIInv ==
    ASSUME IInv, [Next]_vars
    PROVE  IInv'
<1>1. CASE UNCHANGED vars
  BY <1>1 DEF vars, taskVars, sessVars, stackVars, appVars, srvVars, IInv, Typed, Accounted,
              NoLostWakeup, PcbInv, DownInv, FinInv, UpInv
<1>2. CASE Next
  BY <1>2, SpliceStep, TaskSteps, AppDataStep, AppEofStep, AppReceivesStep, AppAcksStep,
     BlockSteps, ServerSteps DEF Next, Session
<1> QED BY <1>1, <1>2

\* The inductive invariant holds in every state of the session.
THEOREM SessionInvariant == Spec => []IInv
<1>1. Init => IInv
  BY InitIInv
<1>2. IInv /\ [Next]_vars => IInv'
  BY StepIInv
<1> QED BY <1>1, <1>2, PTL DEF Spec

\* The properties that the invariant is for.
LEMMA IInvImplies ==
    ASSUME IInv
    PROVE  WindowAccounting /\ UnackedIntact /\ NoLostWakeup
<1>1. Typed /\ Accounted /\ NoLostWakeup /\ PcbInv /\ DownInv
  BY DEF IInv
<1>2. TypeOK
  <2>1. {resF, resB} \subseteq -1 .. 1
    BY <1>1 DEF Typed
  <2>2. {hasPcb, pcbEof, appFin, appTold, srvEof, srvErr, srvTold, terminated} \subseteq BOOLEAN
    BY <1>1 DEF Typed
  <2> QED BY <2>1, <2>2, <1>1 DEF Typed, TypeOK, Rings
<1>3. WindowAccounting
  BY <1>1, <1>2 DEF WindowAccounting, Accounted
<1>4. UnackedIntact
  <2>1. CASE st = "FREE"
    BY <1>1, <2>1 DEF UnackedIntact, PcbInv
  <2>2. CASE st # "FREE"
    <3>1. Placed(ring, sndq, acked, srvRead) /\ DOMAIN sndq = 1 .. Len(sndq)
      BY <1>1, <2>2 DEF DownInv, Typed
    <3> QED BY ONLY <3>1 DEF Placed, UnackedIntact
  <2> QED BY <2>1, <2>2
<1> QED BY <1>1, <1>3, <1>4

\* For every size of the ring and the windows: what lwIP may still deliver always
\* fits in the session's queue, so tcp_recv_handler never refuses data.
THEOREM WindowAccountingHolds == Spec => []WindowAccounting
BY SessionInvariant, IInvImplies, PTL

\* No byte that lwIP may still (re)transmit out of the ring buffer is written
\* over before it is acknowledged, wherever the write position wraps around.
THEOREM UnackedIntactHolds == Spec => []UnackedIntact
BY SessionInvariant, IInvImplies, PTL

\* No edge of the socket and no callback of lwIP is missed: a task that waits in
\* the splice or the drain loop has nothing to do, and is not terminated.
THEOREM NoLostWakeupHolds == Spec => []NoLostWakeup
BY SessionInvariant, IInvImplies, PTL

-----------------------------------------------------------------------------
(* The session implements the two streams of module Relay.                 *)

\* What the two streams see of a state.
relayed == <<appSent, srvSent, toServer, toApp, appFin, srvEof, srvTold, appTold>>

\* The two directions as a function.
LEMMA BothFacts ==
    ASSUME NEW a
    PROVE  [d \in {"up", "down"} |-> a] = [up |-> a, down |-> a]
OBVIOUS

\* The records of the two directions, with one of the two changed.
LEMMA UpFacts ==
    ASSUME NEW a, NEW b, NEW c
    PROVE  [[up |-> a, down |-> b] EXCEPT !["up"] = c] = [up |-> c, down |-> b]
<1>1. [[up |-> a, down |-> b] EXCEPT !["up"] = c]
        = [d \in {"up", "down"} |-> IF d = "up" THEN c ELSE [up |-> a, down |-> b][d]]
  OBVIOUS
<1>2. @ = [up |-> c, down |-> b]
  OBVIOUS
<1> QED BY <1>1, <1>2

\* The same for the other direction.
LEMMA DownFacts ==
    ASSUME NEW a, NEW b, NEW c
    PROVE  [[up |-> a, down |-> b] EXCEPT !["down"] = c] = [up |-> a, down |-> c]
<1>1. [[up |-> a, down |-> b] EXCEPT !["down"] = c]
        = [d \in {"up", "down"} |-> IF d = "down" THEN c ELSE [up |-> a, down |-> b][d]]
  OBVIOUS
<1>2. @ = [up |-> a, down |-> c]
  OBVIOUS
<1> QED BY <1>1, <1>2

\* A step that moves nothing is a stutter, or gives the session up.
LEMMA QuietStep ==
    ASSUME UNCHANGED relayed, pc' = "gone" \/ (pc # "gone" /\ pc' # "gone")
    PROVE  [Streams!Next]_(Streams!relayVars)
<1>1. CASE pc' = "gone"
  <2>1. Streams!GiveUp
    BY <1>1 DEF Streams!GiveUp, relayed
  <2> QED BY <2>1 DEF Streams!Next
<1>2. CASE pc # "gone" /\ pc' # "gone"
  BY <1>2 DEF relayed, Streams!relayVars
<1> QED BY <1>1, <1>2

\* A round of the splice loop delivers to the server, tells it of the end of the
\* upload, or neither; and it may give up.
LEMMA SpliceRefines ==
    ASSUME IInv, Splice
    PROVE  [Streams!Next]_(Streams!relayVars)
<1>1. /\ Typed /\ PcbInv /\ DownInv /\ UpInv
  BY DEF IInv
<1>2. /\ pc = "splice"
      /\ UNCHANGED <<appSent, srvSent, toApp, appFin, srvEof, appTold>>
  BY DEF Splice, appVars
<1>3. PICK f \in SpliceF :
         /\ toServer' = toServer \o SubSeq(queue, 1, f.n)
         /\ srvTold' = (srvTold \/ f.shut)
  BY DEF Splice
<1>4. /\ f.n \in Nat /\ f.n <= Len(queue) /\ f.shut \in BOOLEAN
      /\ f.shut => f.n = 0 /\ queue = <<>> /\ pcbEof
      /\ f.res \in -1 .. 1 /\ (f.res <= 0 => f.n = 0)
      /\ resF < 0 => f.res < 0
  BY ONLY <1>1, SpliceFFacts
<1>5. /\ Len(toServer') = Len(toServer) + f.n
      /\ \A i \in 1 .. Len(toServer) + f.n : toServer'[i] = i
  BY ONLY <1>1, <1>3, <1>4, UpMoves
<1>6. PICK len \in Nat, t \in Nat, n \in Nat :
         len = Len(queue) /\ t = Len(toServer) /\ n = f.n
  BY <1>1, <1>4 DEF Typed
<1>7. /\ n <= len /\ appSent = t + len /\ (srvTold => resF < 0) /\ (pcbEof => appFin)
      /\ srvTold \in BOOLEAN /\ toServer \in Seq(1 .. UpMax) /\ appFin \in BOOLEAN
      /\ srvEof \in BOOLEAN /\ appTold \in BOOLEAN
  BY <1>1, <1>2, <1>4, <1>6 DEF Typed, UpInv
<1>8. CASE n > 0
  <2>1. srvTold = FALSE /\ srvTold' = srvTold
    BY ONLY <1>3, <1>4, <1>6, <1>7, <1>8
  <2>2. t + n \in t + 1 .. appSent
    BY ONLY <1>7, <1>8
  <2>3. Streams!Deliver("up")
    <3>1. /\ Len(toServer') \in Len(toServer) + 1 .. appSent
          /\ \A i \in 1 .. Len(toServer') : toServer'[i] = i
      BY ONLY <2>2, <1>5, <1>6
    <3>2. (pc' = "gone") \in BOOLEAN
      OBVIOUS
    <3> QED BY ONLY <3>1, <3>2, <2>1, <1>2 DEF Streams!Deliver
  <2> QED BY <2>3 DEF Streams!Next
<1>9. CASE ~(n > 0)
  <2>1. n = 0
    BY ONLY <1>9
  <2>2. toServer' = toServer
    <3>1. SubSeq(queue, 1, 0) = <<>>
      BY SubSeqEmpty
    <3>2. toServer' = toServer \o <<>>
      BY <2>1, <3>1, <1>3, <1>6
    <3> QED BY ONLY <3>2, <1>7, ConcatEmptySeq
  <2>3. CASE f.shut
    <3>1. srvTold' = TRUE /\ appFin = TRUE
      BY ONLY <2>3, <1>3, <1>4, <1>7
    <3>3. len = 0
      BY ONLY <2>3, <1>4, <1>6, EmptySeq
    <3>4. t = appSent
      BY ONLY <3>3, <1>7
    <3>2. Streams!Tell("up")
      <4>1. [up |-> TRUE, down |-> appTold]
              = [[up |-> srvTold, down |-> appTold] EXCEPT !["up"] = TRUE]
        BY ONLY UpFacts, Zenon
      <4> QED BY ONLY <4>1, <3>1, <3>4, <2>2, <1>2, <1>6 DEF Streams!Tell
    <3> QED BY <3>2 DEF Streams!Next
  <2>4. CASE ~f.shut
    <3>1. srvTold' = srvTold
      BY ONLY <2>4, <1>3, <1>4, <1>7
    <3>2. UNCHANGED relayed
      BY ONLY <3>1, <2>2, <1>2 DEF relayed
    <3> QED BY ONLY <3>2, <1>2, QuietStep
  <2> QED BY <2>3, <2>4
<1> QED BY <1>8, <1>9

\* Steps of the task that move no data.
LEMMA TaskRefines ==
    ASSUME IInv,
           Start \/ WaitAgain \/ Drain \/ Connected \/ Answered \/ HandshakeFails
             \/ TimesOut \/ Stop
    PROVE  [Streams!Next]_(Streams!relayVars)
<1>1. UNCHANGED relayed
  BY DEF relayed, Start, WaitAgain, Drain, Connected, Answered, HandshakeFails, TimesOut,
         Stop, appVars, srvVars
<1>2. pc # "gone"
  BY DEF Start, WaitAgain, Drain, Connected, Answered, HandshakeFails, TimesOut, Stop
<1> QED BY <1>1, <1>2, QuietStep

\* Steps of the app.
LEMMA AppRefines ==
    ASSUME IInv,
           \/ \E n \in 1 .. Wnd : AppData(n)
           \/ AppEof \/ AppReceives
           \/ \E n \in 1 .. SndBuf : AppAcks(n)
           \/ AppAcksFin \/ StackError \/ TimeWaitExpires
    PROVE  [Streams!Next]_(Streams!relayVars)
<1>1. /\ Typed /\ PcbInv /\ DownInv /\ FinInv /\ UpInv
  BY DEF IInv
<1>2. ASSUME NEW n \in 1 .. Wnd, AppData(n)
      PROVE  [Streams!Next]_(Streams!relayVars)
  <2>1. /\ appFin = FALSE /\ (appSent' = appSent \/ appSent' = appSent + n)
        /\ UNCHANGED <<pc, srvSent, toServer, toApp, appFin, srvEof, srvTold, appTold>>
    BY <1>1, <1>2 DEF AppData, srvVars, Typed
  <2>2. CASE appSent' = appSent
    BY <2>1, <2>2 DEF Streams!relayVars
  <2>3. CASE appSent' = appSent + n
    <3>1. appSent' > appSent
      <4>1. appSent \in Int
        BY <1>1 DEF Typed
      <4> QED BY ONLY <4>1, <2>3
    <3>2. Streams!Send("up")
      BY ONLY <3>1, <2>1 DEF Streams!Send
    <3> QED BY <3>2 DEF Streams!Next
  <2> QED BY <2>1, <2>2, <2>3
<1>3. CASE AppEof
  <2>1. /\ appFin = FALSE /\ appFin' = TRUE
        /\ UNCHANGED <<pc, appSent, srvSent, toServer, toApp, srvEof, srvTold, appTold>>
    BY <1>1, <1>3 DEF AppEof, srvVars, Typed
  <2>2. Streams!End("up")
    <3>1. [up |-> TRUE, down |-> srvEof] = [[up |-> appFin, down |-> srvEof] EXCEPT !["up"] = TRUE]
      BY ONLY UpFacts, Zenon
    <3> QED BY ONLY <3>1, <2>1 DEF Streams!End
  <2> QED BY <2>2 DEF Streams!Next
<1>4. CASE AppReceives
  <2>1. /\ st # "FREE" /\ Len(toApp) < srvRead
        /\ Len(toApp') = Len(toApp) + 1
        /\ Len(toApp') <= acked + Len(sndq)
        /\ \A i \in 1 .. Len(toApp') : toApp'[i] = i
    BY <1>4, NextByte
  <2>2. UNCHANGED <<pc, appSent, srvSent, toServer, appFin, srvEof, srvTold, appTold>>
    BY <1>4 DEF AppReceives, taskVars, srvVars
  <2>3. PICK g \in Nat : g = Len(toApp)
    BY <1>1 DEF Typed
  <2>4. acked \in Nat /\ acked <= g /\ g < srvRead /\ srvRead <= srvSent
        /\ srvRead \in Nat /\ srvSent \in Nat
    BY <1>1, <2>1, <2>3, SizesAssumption DEF Typed, DownInv
  <2>5. g + 1 \in g + 1 .. srvSent
    BY ONLY <2>4
  <2>6. appTold = FALSE
    <3>1. sndq # <<>>
      <4>1. CASE sndq = <<>>
        <5>1. g + 1 <= acked + 0
          BY <4>1, <2>1, <2>3, EmptySeq
        <5> QED BY ONLY <5>1, <2>4
      <4> QED BY <4>1
    <3> QED BY <3>1, <1>1, <2>1 DEF FinInv, Typed
  <2>7. pc # "gone"
    BY <1>1, <2>1 DEF PcbInv
  <2>8. Streams!Deliver("down")
    BY ONLY <2>1, <2>2, <2>3, <2>5, <2>6, <2>7 DEF Streams!Deliver
  <2> QED BY <2>8 DEF Streams!Next
<1>5. ASSUME NEW n \in 1 .. SndBuf, AppAcks(n)
      PROVE  [Streams!Next]_(Streams!relayVars)
  BY <1>5 DEF AppAcks, srvVars, Streams!relayVars
<1>6. CASE AppAcksFin
  <2>1. /\ st \in {"FIN_WAIT_1", "CLOSING", "LAST_ACK"} /\ sndq = <<>> /\ appTold' = TRUE
        /\ UNCHANGED <<pc, appSent, srvSent, toServer, toApp, appFin, srvEof, srvTold>>
    BY <1>6 DEF AppAcksFin, srvVars
  <2>2. pc # "gone" /\ srvEof = TRUE /\ srvRead = srvSent
    BY <1>1, <2>1 DEF PcbInv, FinInv, FinStates, Typed
  <2>3. Len(toApp) = srvSent
    <3>1. PICK g \in Nat : g = Len(toApp)
      BY <1>1 DEF Typed
    <3>2. acked + Len(sndq) = srvRead /\ Len(sndq) = 0
      BY <1>1, <2>1 DEF DownInv, Placed
    <3>3. acked \in Nat /\ srvRead \in Nat /\ acked <= g /\ g <= srvRead
      BY <1>1, <3>1 DEF Typed, DownInv
    <3> QED BY ONLY <3>1, <3>2, <3>3, <2>2
  <2>4. Streams!Tell("down")
    <3>1. [up |-> srvTold, down |-> TRUE]
            = [[up |-> srvTold, down |-> appTold] EXCEPT !["down"] = TRUE]
      BY ONLY DownFacts, Zenon
    <3> QED BY ONLY <3>1, <2>1, <2>2, <2>3 DEF Streams!Tell
  <2> QED BY <2>4 DEF Streams!Next
<1>7. CASE StackError \/ TimeWaitExpires
  BY <1>7 DEF StackError, TimeWaitExpires, ErrHandler, taskVars, appVars, srvVars,
              Streams!relayVars
<1> QED BY <1>2, <1>3, <1>4, <1>5, <1>6, <1>7

\* Steps of the server.
LEMMA ServerRefines ==
    ASSUME IInv, ServerSends \/ ServerReads \/ (\E err \in BOOLEAN : ServerEnds(err))
    PROVE  [Streams!Next]_(Streams!relayVars)
<1>1. UNCHANGED <<pc, appSent, toServer, toApp, appFin, srvTold, appTold>>
  BY DEF ServerSends, ServerReads, ServerEnds, sessVars, appVars
<1>2. srvSent \in Nat /\ srvEof \in BOOLEAN
  BY SizesAssumption DEF IInv, Typed
<1>3. CASE ServerSends
  <2>1. srvEof = FALSE /\ srvEof' = srvEof /\ srvSent' > srvSent
    BY <1>2, <1>3 DEF ServerSends
  <2>2. Streams!Send("down")
    BY ONLY <2>1, <1>1 DEF Streams!Send
  <2> QED BY <2>2 DEF Streams!Next
<1>4. CASE ServerReads
  BY <1>1, <1>4 DEF ServerReads, Streams!relayVars
<1>5. CASE \E err \in BOOLEAN : ServerEnds(err)
  <2>1. srvEof = FALSE /\ srvEof' = TRUE /\ srvSent' = srvSent
    BY <1>2, <1>5 DEF ServerEnds
  <2>2. Streams!End("down")
    <3>1. [up |-> appFin, down |-> TRUE]
            = [[up |-> appFin, down |-> srvEof] EXCEPT !["down"] = TRUE]
      BY ONLY DownFacts, Zenon
    <3> QED BY ONLY <3>1, <2>1, <1>1 DEF Streams!End
  <2> QED BY <2>2 DEF Streams!Next
<1> QED BY <1>3, <1>4, <1>5

\* The session implements module Relay: in both directions the receiver gets a
\* prefix of what the sender wrote, byte by byte, and learns of the end of the
\* stream only when it has all of it.
THEOREM SessionRefinesRelay == Spec => RefinesRelay
<1>1. Init => Streams!Init
  BY BothFacts DEF Init, Streams!Init
<1>2. IInv /\ [Next]_vars => [Streams!Next]_(Streams!relayVars)
  <2> SUFFICES ASSUME IInv, [Next]_vars
               PROVE  [Streams!Next]_(Streams!relayVars)
    OBVIOUS
  <2>1. CASE UNCHANGED vars
    BY <2>1 DEF vars, taskVars, appVars, srvVars, Streams!relayVars
  <2>2. CASE Next
    BY <2>2, SpliceRefines, TaskRefines, AppRefines, ServerRefines DEF Next, Session
  <2> QED BY <2>1, <2>2
<1> QED BY <1>1, <1>2, SessionInvariant, PTL DEF Spec, RefinesRelay, Streams!Spec
=============================================================================
