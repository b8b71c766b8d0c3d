----------------------------- MODULE TcpReceive -----------------------------
(***************************************************************************)
(* The receiving half of one lwIP connection, as tcp_in.c and tcp.c keep   *)
(* it: the next sequence number, the receive window and what of it has     *)
(* been announced, the queue of segments that arrived out of order, the    *)
(* delayed acknowledgement.  The application is the session of             *)
(* hev-socks5-session-tcp.c, whose receive callback queues everything and  *)
(* which calls tcp_recved for what it has sent on to the proxy.            *)
(*                                                                         *)
(* The other end is the phone's own TCP.  It sends a stream of Total bytes *)
(* and a FIN.  Instead of a network with queues, Arrive takes ANY segment  *)
(* that a conforming sender may have sent so far: whatever lies below the  *)
(* highest window edge it was told, cut into segments in any way, plus a   *)
(* one-byte probe of a closed window.  This covers loss, duplication,      *)
(* reordering, any delay and re-segmentation at once.                      *)
(*                                                                         *)
(* Sequence numbers are modulo M and are only compared as the TCP_SEQ      *)
(* macros compare them; Isn is chosen so that they wrap around.  A segment *)
(* carries, beside its sequence number, the position in the stream of its  *)
(* first byte ("at"): that is its payload.                                 *)
(***************************************************************************)
EXTENDS Integers, FiniteSets, Sequences, SequencesExt

CONSTANTS
    M,          \* the modulus of sequence numbers (2^32)
    Isn,        \* the sequence number of the stream's first byte
    Total,      \* the bytes the other end sends before its FIN
    Wnd,        \* TCP_WND
    MaxSeg,     \* TCP_MSS: the longest segment the other end sends
    AnnStep,    \* MIN(TCP_WND / 2, pcb->mss)
    UpdStep     \* TCP_WND_UPDATE_THRESHOLD

\* The stream and the window stay far below half of the sequence space; the
\* window is opened in steps that are smaller than itself.
ASSUME ReceiveAssumption ==
    /\ {M, Isn, Total, Wnd, MaxSeg, AnnStep, UpdStep} \subseteq Nat
    /\ Isn < M /\ 2 * (Total + Wnd + 1) < M
    /\ 0 < AnnStep /\ AnnStep <= UpdStep /\ UpdStep < Wnd /\ 0 < MaxSeg

VARIABLES
    rcvNxt,     \* pcb->rcv_nxt
    rcvWnd,     \* pcb->rcv_wnd
    annWnd,     \* pcb->rcv_ann_wnd
    annRight,   \* pcb->rcv_ann_right_edge
    ooseq,      \* pcb->ooseq, segments in order of their sequence numbers
    ackDelay,   \* TF_ACK_DELAY (TF_ACK_NOW never outlives a call into the stack)
    state,      \* pcb->state
    app,        \* the stream positions the receive callback got, in order
    held,       \* how many of them tcp_recved has not been called for
    eof,        \* the callback was told the end of the stream
    edge        \* the highest position, as told to the sender, it must not reach

vars == <<rcvNxt, rcvWnd, annWnd, annRight, ooseq, ackDelay, state,
          app, held, eof, edge>>

-----------------------------------------------------------------------------
(* Sequence numbers. *)

SeqNo(p) == (Isn + p) % M

\* TCP_SEQ_LT: the sign bit of the difference.
LtMutant(a, b) == a < b
Lt(a, b) == 2 * ((a - b) % M) >= M
Leq(a, b) == ~ Lt(b, a)
\* TCP_SEQ_BETWEEN: is b <= a <= c?
Between(a, b, c) == Leq(b, a) /\ Leq(a, c)

\* TCP_TCPLEN: a FIN takes a sequence number.
TcpLen(s) == s.len + (IF s.fin THEN 1 ELSE 0)
EndOf(s) == (s.seq + TcpLen(s)) % M
DataEnd(s) == (s.seq + s.len) % M

Cut(s, to) == [s EXCEPT !.len = (to - s.seq) % M]

-----------------------------------------------------------------------------
(* The window. *)

\* tcp_update_rcv_ann_wnd: the window to announce for next sequence number n
\* and window w ...
AnnWndMutant(n, w) ==
    IF Leq((annRight + AnnStep) % M, (n + w) % M) THEN w ELSE 0
AnnWnd(n, w) ==
    IF Leq((annRight + AnnStep) % M, (n + w) % M) THEN w
    ELSE IF Lt(annRight, n) THEN 0
    ELSE (annRight - n) % M
\* ... and its result, by how much an announcement would move the edge.
InflationMutant(n, w) == w - rcvWnd
Inflation(n, w) ==
    IF Leq((annRight + AnnStep) % M, (n + w) % M) THEN (n + w - annRight) % M ELSE 0

\* The application never calls tcp_recved for the FIN's sequence number.
FinBackMutant(w) == w
FinBack(w) == IF w # Wnd THEN w + 1 ELSE w

\* tcp_send_empty_ack, and every other segment that is sent: the sender is told
\* the next sequence number n (of position p) and the window a.
Announce(n, p, a) ==
    /\ annRight' = (n + a) % M
    /\ edge' = IF p + a > edge THEN p + a ELSE edge
    /\ ackDelay' = FALSE

-----------------------------------------------------------------------------
(* The queue of out-of-order segments. *)

\* The length of the longest prefix of q whose indices all satisfy P.
Prefix(q, P(_)) == Cardinality({k \in 1 .. Len(q) : \A i \in 1 .. k : P(i)})

\* A segment that ends at "end" swallows every leading segment of q whose data
\* ends there or before, and inherits its FIN.  (The FIN moves the end, but a
\* segment with a FIN is the last one: OoseqSound.)
Swallow(s, q, end) ==
    LET k == Prefix(q, LAMBDA i : Leq(DataEnd(q[i]), end))
    IN  [seg |-> [s EXCEPT !.fin = @ \/ \E i \in 1 .. k : q[i].fin],
         rest |-> SubSeq(q, k + 1, Len(q))]

\* Cut a segment where the first one of a queue begins.
CutTo(s, q, end) == IF q # <<>> /\ Lt(Head(q).seq, end) THEN Cut(s, Head(q).seq) ELSE s

\* tcp_oos_insert_segment: s in front of q.
OosInsert(s, q) ==
    IF s.fin THEN <<s>>
    ELSE LET r == Swallow(s, q, DataEnd(s))
         IN  <<CutTo(r.seg, r.rest, DataEnd(s))>> \o r.rest

\* The end of the window, for the segment appended last.
FitWindow(s) ==
    IF Lt((rcvNxt + rcvWnd) % M, EndOf(s))
    THEN [Cut(s, (rcvNxt + rcvWnd) % M) EXCEPT !.fin = FALSE] ELSE s

\* Cut the last segment of q where s begins.
CutLastMutant(q, s) == q
CutLast(q, s) ==
    LET l == Last(q)
    IN  IF Lt(s.seq, DataEnd(l)) THEN Append(Front(q), Cut(l, s.seq)) ELSE q

\* Where s goes: the number of queued segments that begin before it.
Before(s) == Prefix(ooseq, LAMBDA i : Lt(ooseq[i].seq, s.seq))

\* tcp_receive for a segment inside the window but not the next one.
Enqueue(s) ==
    LET k == Before(s)
        front == SubSeq(ooseq, 1, k)
        back == SubSeq(ooseq, k + 1, Len(ooseq))
    IN  IF ooseq = <<>> THEN <<s>>
        ELSE IF back # <<>> /\ Head(back).seq = s.seq
        THEN IF s.len > Head(back).len /\ Len(back) > 1
             THEN front \o OosInsert(s, back)
             ELSE ooseq
        ELSE IF front = <<>> THEN OosInsert(s, back)
        ELSE IF back # <<>> THEN CutLast(front, s) \o OosInsert(s, back)
        ELSE IF Last(front).fin THEN ooseq
        ELSE CutLast(front, s) \o <<FitWindow(s)>>

-----------------------------------------------------------------------------
(* tcp_receive. *)

\* The first edge is cut when the segment begins before rcv_nxt and ends after.
UnshiftedMutant(s) ==
    IF Between(rcvNxt, (s.seq + 1) % M, (s.seq + TcpLen(s) - 1) % M)
    THEN [s EXCEPT !.seq = rcvNxt, !.len = @ - ((rcvNxt - s.seq) % M)]
    ELSE s
CutFirst(s) ==
    IF Between(rcvNxt, (s.seq + 1) % M, (s.seq + TcpLen(s) - 1) % M)
    THEN LET off == (rcvNxt - s.seq) % M
         IN  [s EXCEPT !.seq = rcvNxt, !.at = @ + off, !.len = @ - off]
    ELSE s

\* The next segment, cut to the window and against the queue, and what is left
\* of the queue.
Fitted(s) ==
    LET f == FitWindow(s)
        r == Swallow(f, ooseq, EndOf(f))
    IN  IF f.fin THEN [seg |-> f, rest |-> <<>>]
        ELSE [r EXCEPT !.seg = CutTo(r.seg, r.rest, EndOf(r.seg))]

\* How many queued segments follow one another from sequence number n on.
InSequence(n, q) ==
    Prefix(q, LAMBDA i : q[i].seq = IF i = 1 THEN n ELSE EndOf(q[i - 1]))

Payload(s) == [i \in 1 .. s.len |-> s.at + i - 1]

InWindow(s) == Between(s.seq, rcvNxt, (rcvNxt + rcvWnd - 1) % M)

\* An in-order segment: it and what it makes contiguous are delivered with one
\* call of the receive callback, and the FIN, if it is among them, after the
\* data; tcp_process acknowledges a FIN at once and moves on to CLOSE_WAIT, and
\* tcp_input gives the FIN's sequence number back to the window.
Deliver(s) ==
    LET f == Fitted(s)
        k == InSequence(EndOf(f.seg), f.rest)
        segs == <<f.seg>> \o SubSeq(f.rest, 1, k)
        nxt == EndOf(segs[k + 1])
        data == FlattenSeq([i \in 1 .. k + 1 |-> Payload(segs[i])])
        fin == segs[k + 1].fin
        taken == (nxt - rcvNxt) % M
        w == rcvWnd - taken
    IN  /\ rcvNxt' = nxt
        /\ ooseq' = SubSeq(f.rest, k + 1, Len(f.rest))
        /\ rcvWnd' = IF fin THEN FinBack(w) ELSE w
        /\ annWnd' = AnnWnd(nxt, w)
        /\ app' = app \o data
        /\ held' = held + Len(data)
        /\ eof' = (eof \/ fin)
        /\ state' = IF fin THEN "CLOSE_WAIT" ELSE state
        /\ IF ackDelay \/ fin
           THEN Announce(nxt, Len(app) + taken, annWnd')
           ELSE ackDelay' = TRUE /\ UNCHANGED <<annRight, edge>>

\* How far the sender's stream has been taken, its FIN included.
Pos == Len(app) + (IF eof THEN 1 ELSE 0)

\* tcp_input, tcp_process and tcp_receive for segment s.  Copying it for the
\* queue may fail for want of memory.
Input(s) ==
    LET c == CutFirst(s)
    IN  IF TcpLen(s) > 0 /\ state = "ESTABLISHED"
        THEN IF InWindow(c)
             THEN \/ c.seq = rcvNxt /\ Deliver(c)
                  \/ /\ c.seq # rcvNxt
                     /\ ooseq' \in {Enqueue(c), ooseq}
                     /\ Announce(rcvNxt, Pos, annWnd)
                     /\ UNCHANGED <<rcvNxt, rcvWnd, annWnd, state, app, held, eof>>
             ELSE /\ Announce(rcvNxt, Pos, annWnd)
                  /\ UNCHANGED <<rcvNxt, rcvWnd, annWnd, ooseq, state, app, held, eof>>
        ELSE /\ IF InWindow(s)
                THEN UNCHANGED <<annRight, edge, ackDelay>>
                ELSE Announce(rcvNxt, Pos, annWnd)
             /\ UNCHANGED <<rcvNxt, rcvWnd, annWnd, ooseq, state, app, held, eof>>

Segment(p, len, fin) == [seq |-> SeqNo(p), len |-> len, fin |-> fin, at |-> p]

\* What the sender may have sent: data below the edge, its FIN at the end of the
\* stream, or one sequence number to probe a closed window.
Sendable(p, len, fin) ==
    /\ p + len <= Total
    /\ fin => p + len = Total
    /\ LET n == len + (IF fin THEN 1 ELSE 0)
       IN  p + n <= edge \/ (n = 1 /\ p = edge)

Arrive ==
    \E p \in 0 .. Total + 1, len \in 0 .. MaxSeg, fin \in BOOLEAN :
       /\ Sendable(p, len, fin) \/ (len = 0 /\ ~ fin /\ p <= edge)
       /\ Input(Segment(p, len, fin))

\* tcp_recved, called by the session for n bytes it has passed on.
Recved(n) ==
    LET w == IF rcvWnd + n > Wnd THEN Wnd ELSE rcvWnd + n
        a == AnnWnd(rcvNxt, w)
    IN  /\ n <= held
        /\ held' = held - n
        /\ rcvWnd' = w
        /\ annWnd' = a
        /\ IF Inflation(rcvNxt, w) >= UpdStep
           THEN Announce(rcvNxt, Pos, a)
           ELSE UNCHANGED <<annRight, edge, ackDelay>>
        /\ UNCHANGED <<rcvNxt, ooseq, state, app, eof>>

\* tcp_fasttmr sends the delayed acknowledgement.
FastTimer ==
    /\ ackDelay
    /\ Announce(rcvNxt, Pos, annWnd)
    /\ UNCHANGED <<rcvNxt, rcvWnd, annWnd, ooseq, state, app, held, eof>>

\* A data segment of the other direction carries an acknowledgement too.
Piggyback ==
    /\ Announce(rcvNxt, Pos, annWnd)
    /\ UNCHANGED <<rcvNxt, rcvWnd, annWnd, ooseq, state, app, held, eof>>

\* tcp_slowtmr drops the queue of a connection that has been idle for long.
DropOoseq ==
    /\ ooseq # <<>>
    /\ ooseq' = <<>>
    /\ UNCHANGED <<rcvNxt, rcvWnd, annWnd, annRight, ackDelay, state,
                   app, held, eof, edge>>

\* A connection just accepted: the SYN|ACK has announced the whole window.
Init ==
    /\ rcvNxt = SeqNo(0)
    /\ rcvWnd = Wnd
    /\ annWnd = Wnd
    /\ annRight = SeqNo(Wnd)
    /\ ooseq = <<>>
    /\ ackDelay = FALSE
    /\ state = "ESTABLISHED"
    /\ app = <<>>
    /\ held = 0
    /\ eof = FALSE
    /\ edge = Wnd

SomeRecved == \E n \in 1 .. Wnd : Recved(n)

Next == Arrive \/ SomeRecved \/ FastTimer \/ Piggyback \/ DropOoseq

\* A segment that begins with the next byte may arrive and would be taken.
CanTake ==
    /\ state = "ESTABLISHED"
    /\ \E len \in 0 .. MaxSeg, fin \in BOOLEAN :
          LET s == Segment(Pos, len, fin)
          IN  /\ Sendable(Pos, len, fin)
              /\ TcpLen(s) > 0 /\ Pos + TcpLen(s) <= edge
              /\ InWindow(CutFirst(s)) /\ CutFirst(s).seq = rcvNxt

\* What has not been acknowledged is sent again until it is: the next bytes of
\* the stream keep arriving as long as the sender may send them.  No probe of a
\* closed window is assumed.  The session's task passes on what it holds.  (The
\* first conjunct is the weak fairness of Arrive for such segments.)
Fairness ==
    /\ []<> (~ CanTake) \/ []<> <<Pos' > Pos>>_vars
    /\ WF_vars(SomeRecved)

Spec == Init /\ [][Next]_vars /\ Fairness

-----------------------------------------------------------------------------
(* Properties. *)

Segments == [seq : 0 .. M - 1, len : 0 .. MaxSeg, fin : BOOLEAN, at : 0 .. Total]

TypeOK ==
    /\ rcvNxt \in 0 .. M - 1 /\ annRight \in 0 .. M - 1
    /\ rcvWnd \in 0 .. Wnd /\ annWnd \in 0 .. Wnd /\ held \in 0 .. Wnd
    /\ ooseq \in Seq(Segments)
    /\ ackDelay \in BOOLEAN /\ eof \in BOOLEAN
    /\ state \in {"ESTABLISHED", "CLOSE_WAIT"}
    /\ app \in Seq(0 .. Total - 1)
    /\ edge \in 0 .. Total + Wnd + 1

\* Whatever the network does, the callback gets the stream from its beginning,
\* each byte once and in order, the end of the stream only after its last byte,
\* and rcv_nxt acknowledges exactly what was delivered.
StreamInOrder ==
    /\ app = [i \in 1 .. Len(app) |-> i - 1]
    /\ eof => Len(app) = Total
    /\ rcvNxt = SeqNo(Pos)

\* The out-of-order queue holds true pieces of the stream beyond rcv_nxt, sorted
\* and disjoint, none empty, all inside the receive window (the LWIP_ASSERTs on
\* tcplen and rcv_wnd in tcp_receive), and a FIN only on the last of them.
OoseqSound ==
    TypeOK /\ \A i \in 1 .. Len(ooseq) :
       LET s == ooseq[i]
       IN  /\ s.seq = SeqNo(s.at)
           /\ TcpLen(s) > 0 /\ Pos < s.at
           /\ s.at + TcpLen(s) <= Pos + rcvWnd
           /\ i < Len(ooseq) => ~ s.fin /\ s.at + s.len <= ooseq[i + 1].at
           /\ s.fin => s.at + s.len = Total

\* Every byte of the window is either free or waiting for tcp_recved: nothing
\* leaks, so a connection whose data has all been read closes with a FIN and not
\* with the reset of tcp_close_shutdown, and the session's queue never grows
\* past TCP_WND (its callback never refuses data).
WindowConserved == rcvWnd + held = Wnd

\* The announced edge never moves back, and what lies below it can be received:
\* the window never shrinks under a sender that relies on it.
PromiseKept == annRight = SeqNo(edge) /\ (~ eof => edge <= Pos + rcvWnd)

\* When the session has passed everything on, the sender knows of a window that
\* is open but for less than one update step: no silly window, and no
\* connection that both ends wait on.
WindowReopens == held = 0 /\ ~ eof => edge > Pos + Wnd - UpdStep

\* Everything the other end sends is delivered, and then its end.
AllDelivered == <> eof
=============================================================================
