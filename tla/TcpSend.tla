------------------------------ MODULE TcpSend ------------------------------
(***************************************************************************)
(* The sending half of one lwIP connection (tcp_out.c, the acknowledgement *)
(* part of tcp_receive, tcp_slowtmr): what the session has written waits   *)
(* in the unsent queue, is moved to the unacked queue when it is sent, and *)
(* is freed when it is acknowledged.  Three mechanisms put it back on the  *)
(* wire: the retransmission time-out, fast retransmit and the persist      *)
(* timer of a closed window.                                               *)
(*                                                                         *)
(* Positions in the stream stand for sequence numbers (TcpReceive models   *)
(* their wrap-around) and for the bytes themselves; the FIN takes the      *)
(* position after the last byte.  Time is left open: a timer that runs may *)
(* expire at any tick of tcp_slowtmr.  So are TF_RTO and bytes_acked, which *)
(* decide by how much an acknowledgement widens the congestion window.     *)
(* The other end is a conforming receiver that keeps only what arrives in  *)
(* order, and the network between the two loses, delays and reorders       *)
(* segments and acknowledgements.  Writing a segment to the TUN device may *)
(* fail (netif_output_handler).                                            *)
(***************************************************************************)
EXTENDS Integers, FiniteSets, Sequences, SequencesExt, FiniteSetsExt

CONSTANTS
    Total,      \* the bytes the session writes
    Mss,        \* pcb->mss
    SndBuf,     \* TCP_SND_BUF
    PeerWnd,    \* the receive buffer of the other end
    MaxRtx,     \* TCP_MAXRTX
    DupAcks,    \* the duplicate acknowledgements that start a fast retransmit (3)
    NetCap      \* bound on the segments, and on the acknowledgements, in flight

ASSUME SendAssumption ==
    /\ {Total, Mss, SndBuf, PeerWnd, MaxRtx, DupAcks, NetCap} \subseteq Nat \ {0}
    /\ 2 * Mss <= PeerWnd      \* snd_wnd_max / 2 does not limit a segment
    /\ Mss <= SndBuf           \* lwip_init asks for at least two segments

VARIABLES
    pcb,        \* the sender's half of struct tcp_pcb
    air,        \* segments on their way
    acks,       \* acknowledgements on their way
    app,        \* the bytes the other end has taken, in order
    right,      \* the right edge of its window
    ended,      \* it has taken a FIN
    mangled     \* a segment was changed that is not the end of the stream,
                \* or a segment with a FIN was split (see Write, Close, Split)

vars == <<pcb, air, acks, app, right, ended, mangled>>

-----------------------------------------------------------------------------
(* Segments and queues. *)

End(s) == s.at + Len(s.data)
TcpLen(s) == Len(s.data) + (IF s.fin THEN 1 ELSE 0)
Positions(a, n) == [i \in 1 .. n |-> a + i - 1]

ByAt(s, t) == s.at < t.at
\* Put a segment in front of the first one of q that is not before it.
Insert(q, s) ==
    LET k == Cardinality({i \in 1 .. Len(q) : \A j \in 1 .. i : ByAt(q[j], s)})
    IN  SubSeq(q, 1, k) \o <<s>> \o SubSeq(q, k + 1, Len(q))

\* A segment that was sent goes to the end of q, a fast retransmission to its place.
Joined(q, s) == IF q # <<>> /\ ByAt(s, Last(q)) THEN Insert(q, s) ELSE Append(q, s)
\* The segments of r join q one after the other.
AllJoined(q, r) ==
    LET after[i \in 0 .. Len(r)] == IF i = 0 THEN q ELSE Joined(after[i - 1], r[i])
    IN  after[Len(r)]

Queued(p) == p.unacked \o p.unsent
Bytes(q) ==
    LET sum[i \in 0 .. Len(q)] == IF i = 0 THEN 0 ELSE sum[i - 1] + Len(q[i].data)
    IN  sum[Len(q)]
Larger(a, b) == IF a > b THEN a ELSE b
Smaller(a, b) == IF a < b THEN a ELSE b

\* "OPEN" stands for ESTABLISHED and CLOSE_WAIT, which the sender does not tell
\* apart before it closes.
Live(p) == p.state \notin {"CLOSED", "REMOVED", "CRASHED"}
\* tcp_pcb_purge and tcp_free.
Removed(p) == [p EXCEPT !.state = "REMOVED", !.unsent = <<>>, !.unacked = <<>>,
                        !.rtime = FALSE, !.persist = FALSE]

-----------------------------------------------------------------------------
(* tcp_output.  Operators on a pcb yield the set of their possible results, *)
(* each with the segments that were written to the TUN device.              *)

Result(p, s) == [pcb |-> p, sent |-> s]

\* tcp_do_output_nagle, or a flag that overrides it, for the i-th unsent segment.
MayGo(p, i) ==
    \/ i = 1 /\ p.unacked = <<>>
    \/ p.infr \/ p.memerr \/ p.finq
    \/ i < Len(p.unsent) \/ Len(p.unsent[i].data) >= Mss
    \/ p.sndBuf = 0

\* In unsigned arithmetic: what ends before lastack does not fit either.
FitsMutant(p, s) == s.at - p.lastack <= Smaller(p.sndWnd, p.cwnd)
Fits(p, s) == s.at - p.lastack + Len(s.data) \in 0 .. Smaller(p.sndWnd, p.cwnd)

\* The window does not take the first segment.
BlockedMutant(p) == [p EXCEPT !.memerr = FALSE]
Blocked(p) ==
    LET starts == /\ p.sndWnd <= p.cwnd /\ p.unacked = <<>> /\ ~ p.persist
    IN  [p EXCEPT !.persist = @ \/ starts,
                  !.probes = IF starts THEN 0 ELSE @,
                  !.memerr = FALSE]

\* The first k segments are sent; with "fails", the next one could not be.  The
\* retransmission timer is started before a segment is handed down.  (persist_probe
\* is read while the persist timer runs and reset when it starts.)
TransmitMutant(p, k, fails) ==
    [p EXCEPT !.persist = FALSE, !.probes = 0,
              !.unsent = SubSeq(@, k + 1, Len(@)),
              !.unacked = AllJoined(@, SubSeq(p.unsent, 1, k)),
              !.sndNxt = Max({@} \cup {p.unsent[i].at + TcpLen(p.unsent[i]) : i \in 1 .. k}),
              !.rtime = @ \/ k > 0,
              !.memerr = fails]
Transmit(p, k, fails) ==
    [p EXCEPT !.persist = FALSE, !.probes = 0,
              !.unsent = SubSeq(@, k + 1, Len(@)),
              !.unacked = AllJoined(@, SubSeq(p.unsent, 1, k)),
              !.sndNxt = Max({@} \cup {p.unsent[i].at + TcpLen(p.unsent[i]) : i \in 1 .. k}),
              !.rtime = @ \/ k > 0 \/ fails,
              !.memerr = fails]

Output(p) ==
    LET n == Cardinality({k \in 1 .. Len(p.unsent) :
                             \A i \in 1 .. k : Fits(p, p.unsent[i]) /\ MayGo(p, i)})
    IN  IF p.unsent = <<>> THEN {Result([p EXCEPT !.memerr = FALSE], {})}
        ELSE IF ~ Fits(p, Head(p.unsent)) THEN {Result(Blocked(p), {})}
        ELSE {Result(Transmit(p, k, k < n), {p.unsent[i] : i \in 1 .. k}) : k \in 0 .. n}

\* Output once more after what has been done already.
AndOutput(results) ==
    UNION {{Result(o.pcb, r.sent \cup o.sent) : o \in Output(r.pcb)} : r \in results}

-----------------------------------------------------------------------------
(* What the session does. *)

\* tcp_write: fill the last unsent segment, then cut the rest into segments.
Written(p, n) ==
    LET q == p.unsent
        fill == IF q = <<>> THEN 0 ELSE Smaller(n, Mss - Len(Last(q).data))
        from == p.lbb + fill
        more == (n - fill + Mss - 1) \div Mss
        cut == [i \in 1 .. more |->
                  [at |-> from + (i - 1) * Mss, fin |-> FALSE,
                   data |-> Positions(from + (i - 1) * Mss,
                                      Smaller(Mss, n - fill - (i - 1) * Mss))]]
        full == IF fill = 0 THEN q
                ELSE [q EXCEPT ![Len(q)].data = @ \o Positions(p.lbb, fill)]
    IN  [p EXCEPT !.unsent = full \o cut, !.lbb = @ + n, !.sndBuf = @ - n]

\* tcp_write never checks that the last unsent segment is the end of the stream.
\* It is not when a fast retransmission could not be written to the TUN device.
TailMoved(p) == p.unsent # <<>> /\ End(Last(p.unsent)) # p.lbb

\* tcp_send_fin: on the last unsent segment, or on a new one.  The state that
\* follows tells whether the other end's FIN has been received.
Fin(p, next) ==
    [p EXCEPT !.unsent = IF @ # <<>> THEN [@ EXCEPT ![Len(@)].fin = TRUE]
                         ELSE <<[at |-> p.lbb, data |-> <<>>, fin |-> TRUE]>>,
              !.finq = TRUE, !.closepend = FALSE,
              !.state = next]

-----------------------------------------------------------------------------
(* An acknowledgement comes in: tcp_process and tcp_receive. *)

\* The test of tcp_receive that lets a segment set the send window.
Window(p, a) ==
    IF p.wl2 < a.ack \/ (p.wl2 = a.ack /\ a.wnd > p.sndWnd)
    THEN [p EXCEPT !.sndWnd = a.wnd, !.wl2 = a.ack] ELSE p

\* The slow start threshold after a loss.
Halved(p) == Larger(Smaller(p.cwnd, p.sndWnd) \div 2, 2 * Mss)

\* The congestion window; what it has beyond the largest window does not matter.
Cwnd(n) == Smaller(n, PeerWnd)

\* tcp_rexmit_fast: the first unacked segment goes back to its place in the
\* unsent queue.
RexmitFast(p) ==
    IF p.unacked = <<>> \/ p.infr THEN p
    ELSE [p EXCEPT !.unacked = Tail(@), !.unsent = Insert(@, Head(p.unacked)),
                   !.nrtx = Smaller(@ + 1, MaxRtx), !.ssthresh = Halved(p),
                   !.cwnd = Cwnd(Halved(p) + 3 * Mss), !.infr = TRUE, !.rtime = TRUE]

\* w is the pcb after the window update, p before it.
Duplicate(p, w, a) ==
    IF w.wl2 + w.sndWnd # p.wl2 + p.sndWnd \/ ~ p.rtime \/ a.ack # p.lastack THEN w
    ELSE LET d == [w EXCEPT !.dupacks = Smaller(@ + 1, DupAcks),
                            !.cwnd = IF w.dupacks = DupAcks THEN Cwnd(@ + Mss) ELSE @]
         IN  IF d.dupacks = DupAcks THEN RexmitFast(d) ELSE d

\* tcp_free_acked_segments: from the front, as long as all of a segment is acknowledged.
UnfreedMutant(q, ack) ==
    LET k == Cardinality({k \in 1 .. Len(q) : \A i \in 1 .. k : q[i].at < ack})
    IN  SubSeq(q, k + 1, Len(q))
Unfreed(q, ack) ==
    LET k == Cardinality({k \in 1 .. Len(q) :
                             \A i \in 1 .. k : q[i].at + TcpLen(q[i]) <= ack})
    IN  SubSeq(q, k + 1, Len(q))

\* The congestion window at the end of a fast retransmit, or as it is.
Recovered(p) == IF p.infr THEN p.ssthresh ELSE p.cwnd

\* By how much new data widens it: slow start, after a time-out by a segment at
\* most, or congestion avoidance, by a segment for a window of data.
Growth(p, a) ==
    IF Recovered(p) < p.ssthresh
    THEN {Smaller(a.ack - p.lastack, Mss), Smaller(a.ack - p.lastack, 2 * Mss)}
    ELSE {0, Mss}

\* New data is acknowledged.
AckedMutant(p, a, grow) ==
    LET unacked == Unfreed(p.unacked, a.ack)
        unsent == Unfreed(p.unsent, a.ack)
    IN  [p EXCEPT !.infr = FALSE, !.nrtx = 0, !.dupacks = 0, !.lastack = a.ack,
                  !.cwnd = Cwnd(Recovered(p) + grow),
                  !.unacked = unacked, !.unsent = unsent, !.rtime = unacked # <<>>,
                  !.sndBuf = @ + Bytes(p.unacked) - Bytes(unacked)]
Acked(p, a, grow) ==
    LET unacked == Unfreed(p.unacked, a.ack)
        unsent == Unfreed(p.unsent, a.ack)
    IN  [p EXCEPT !.infr = FALSE, !.nrtx = 0, !.dupacks = 0, !.lastack = a.ack,
                  !.cwnd = Cwnd(Recovered(p) + grow),
                  !.unacked = unacked, !.unsent = unsent, !.rtime = unacked # <<>>,
                  !.sndBuf = @ + Bytes(Queued(p)) - Bytes(unacked) - Bytes(unsent)]

\* The transitions of tcp_process on an acknowledgement of everything.
Closing(p, a) ==
    IF a.ack # p.sndNxt \/ p.unsent # <<>> THEN p
    ELSE CASE p.state = "FIN_WAIT_1" -> [p EXCEPT !.state = "FIN_WAIT_2"]
           [] p.state = "LAST_ACK" -> [p EXCEPT !.state = "CLOSED"]
           [] OTHER -> p

Process(p, a) ==
    LET w == Window([p EXCEPT !.probes = 0], a)
    IN  IF a.ack <= p.lastack THEN {Closing(Duplicate(p, w, a), a)}
        ELSE IF a.ack <= p.sndNxt THEN {Closing(Acked(w, a, g), a) : g \in Growth(w, a)}
        ELSE {w}

-----------------------------------------------------------------------------
(* tcp_slowtmr. *)

\* tcp_zero_window_probe: one position of the first unsent segment.
Probe(p) ==
    LET s == Head(p.unsent)
        n == Smaller(1, Len(s.data))
    IN  Result([p EXCEPT !.probes = @ + 1, !.sndNxt = Larger(@, s.at + 1)],
               {[at |-> s.at, data |-> SubSeq(s.data, 1, n), fin |-> n = 0]})

\* tcp_split_unsent_seg.  TCPH_SET_FLAG only ever adds flags: the first part keeps
\* the FIN that is moved to the second.
SplitHeadMutant(p) ==
    LET s == Head(p.unsent)
        n == p.sndWnd
    IN  IF Len(s.data) <= n THEN p
        ELSE [p EXCEPT !.unsent =
                <<[s EXCEPT !.data = SubSeq(@, 1, n)],
                  [s EXCEPT !.data = SubSeq(@, n + 1, Len(@))]>> \o Tail(@)]
SplitHead(p) ==
    LET s == Head(p.unsent)
        n == p.sndWnd
    IN  IF Len(s.data) <= n THEN p
        ELSE [p EXCEPT !.unsent =
                <<[s EXCEPT !.data = SubSeq(@, 1, n)],
                  [s EXCEPT !.at = @ + n, !.data = SubSeq(@, n + 1, Len(@))]>> \o Tail(@)]

\* The persist timer expires.  Splitting needs memory.
Persist(p) ==
    IF p.probes >= MaxRtx THEN {Result(Removed(p), {})}
    ELSE IF p.sndWnd = 0 THEN {Probe(p)}
    ELSE {Result(p, {})} \cup Output(SplitHead(p))

\* The retransmission timer expires: tcp_rexmit_rto_prepare and _commit.  Unacked
\* goes in front of unsent, also of a fast retransmission that waits there and is older.
Rto(p) ==
    IF Queued(p) = <<>> THEN {Result(p, {})}
    ELSE Output([p EXCEPT !.unsent = p.unacked \o @, !.unacked = <<>>,
                          !.ssthresh = Halved(p), !.cwnd = Mss,
                          !.nrtx = Smaller(@ + 1, MaxRtx)])

\* One connection in one round of tcp_slowtmr; "due" tells whether its running
\* timer expires.  Its last call is tcp_output, by way of the poll.
SlowTick(p, due) ==
    IF p.nrtx >= MaxRtx THEN {Result(Removed(p), {})}
    ELSE IF p.persist /\ (p.unacked # <<>> \/ p.unsent = <<>>)
         THEN {Result([p EXCEPT !.state = "CRASHED"], {})}
    ELSE LET r == IF ~ due THEN {Result(p, {})}
                  ELSE IF p.persist THEN Persist(p)
                  ELSE IF p.rtime THEN Rto(p)
                  ELSE {Result(p, {})}
         IN  {x \in r : ~ Live(x.pcb)} \cup AndOutput({x \in r : Live(x.pcb)})

-----------------------------------------------------------------------------
(* The actions. *)

Init ==
    /\ \E w \in {Mss, PeerWnd}, k \in 2 .. 4 :    \* the initial window: k segments
          /\ pcb = [unsent |-> <<>>, unacked |-> <<>>, lastack |-> 0, sndNxt |-> 0,
                    lbb |-> 0, sndBuf |-> SndBuf, sndWnd |-> w, wl2 |-> 0,
                    cwnd |-> Cwnd(k * Mss), ssthresh |-> SndBuf, rtime |-> FALSE,
                    persist |-> FALSE, probes |-> 0, nrtx |-> 0, dupacks |-> 0,
                    infr |-> FALSE, memerr |-> FALSE, finq |-> FALSE,
                    closepend |-> FALSE, state |-> "OPEN"]
          /\ right = w
    /\ air = {} /\ acks = {} /\ app = <<>> /\ ended = FALSE /\ mangled = FALSE

\* Apply one of the results: what was sent may get lost on the way.
Apply(results) ==
    \E r \in results :
        /\ pcb' = r.pcb
        /\ \E arrives \in SUBSET r.sent : air' = air \cup arrives
        /\ Cardinality(air') <= NetCap

\* tcp_sp_write: the session writes what it has, up to the send buffer.
Write ==
    /\ pcb.state = "OPEN" /\ ~ pcb.closepend
    /\ \E n \in 1 .. Smaller(pcb.sndBuf, Total - pcb.lbb) :
          Apply(Output(Written(pcb, n)))
    /\ mangled' = (mangled \/ TailMoved(pcb))
    /\ UNCHANGED <<acks, app, right, ended>>

\* tcp_shutdown of the sending side; the session has written everything it has.
CloseShutdownFin ==
    /\ pcb.state = "OPEN"
    /\ \/ /\ \E next \in {"FIN_WAIT_1", "LAST_ACK"} : Apply(Output(Fin(pcb, next)))
          /\ mangled' = (mangled \/ TailMoved(pcb))
       \/ \* no memory for the segment
          /\ pcb.unsent = <<>>
          /\ pcb' = [pcb EXCEPT !.closepend = TRUE, !.memerr = TRUE]
          /\ UNCHANGED <<air, mangled>>
    /\ UNCHANGED <<acks, app, right, ended>>

Close == ~ pcb.closepend /\ CloseShutdownFin
\* tcp_fasttmr tries again.
FastTimer == pcb.closepend /\ CloseShutdownFin

AckIn ==
    /\ Live(pcb)
    /\ \E a \in acks :
          /\ acks' = acks \ {a}
          /\ \E p \in Process(pcb, a) :
                IF Live(p) THEN Apply(Output(p)) ELSE pcb' = p /\ air' = air
    /\ UNCHANGED <<app, right, ended, mangled>>

SlowTimer(due) ==
    /\ Live(pcb)
    /\ UNCHANGED <<acks, app, right, ended>>
    /\ Apply(SlowTick(pcb, due))
    /\ mangled' = (mangled \/ (/\ Len(Queued(pcb')) > Len(Queued(pcb))  \* a split
                               /\ Head(pcb.unsent).fin))

\* A connection in LAST_ACK that has heard nothing for 2 * TCP_MSL.
LastAckTimeout ==
    /\ pcb.state = "LAST_ACK"
    /\ pcb' = Removed(pcb)
    /\ UNCHANGED <<air, acks, app, right, ended, mangled>>

-----------------------------------------------------------------------------
(* The other end. *)

AckNow == [ack |-> Len(app) + (IF ended THEN 1 ELSE 0), wnd |-> right - Len(app)]

\* A segment arrives: what is in order and in the window is taken.
PeerTakes ==
    Live(pcb) /\ \E s \in air :
        LET have == Len(app)
            take == SubSeq(s.data, have - s.at + 1, Smaller(Len(s.data), right - s.at))
            inOrder == s.at <= have /\ ~ ended
        IN  /\ air' = air \ {s}
            /\ app' = IF inOrder THEN app \o take ELSE app
            /\ ended' = (ended \/ (inOrder /\ s.fin /\ Len(app') = End(s)))
            /\ UNCHANGED <<pcb, acks, right, mangled>>

\* It may acknowledge at any time, once or more than once.
PeerAcks ==
    /\ Live(pcb) /\ Cardinality(acks) < NetCap
    /\ acks' = acks \cup {AckNow}
    /\ UNCHANGED <<pcb, air, app, right, ended, mangled>>

\* Its application reads.  Where the window ends beyond the stream does not matter.
PeerOpens ==
    /\ Live(pcb) /\ ~ ended
    /\ \E r \in right + 1 .. Smaller(Len(app) + PeerWnd, Total) : right' = r
    /\ UNCHANGED <<pcb, air, acks, app, ended, mangled>>

AckLost ==
    /\ Live(pcb) /\ \E a \in acks : acks' = acks \ {a}
    /\ UNCHANGED <<pcb, air, app, right, ended, mangled>>

\* The pcb is gone: what becomes of the rest is of no interest.
Gone == ~ Live(pcb) /\ UNCHANGED vars

Next ==
    \/ Write \/ Close \/ FastTimer \/ AckIn \/ LastAckTimeout
    \/ \E due \in BOOLEAN : SlowTimer(due)
    \/ PeerTakes \/ PeerAcks \/ PeerOpens \/ AckLost \/ Gone

\* A timer of the connection runs and its expiry changes something.
CanExpire ==
    /\ Live(pcb)
    /\ pcb.nrtx >= MaxRtx \/ pcb.persist \/ (pcb.rtime /\ Queued(pcb) # <<>>)

\* tcp_slowtmr is called again and again and every running timer expires; the
\* application of the other end does not leave its window closed for good.
\* Nothing is assumed of the network, of the TUN device or of the session.
Fairness ==
    /\ []<>(~ CanExpire) \/ []<><<SlowTimer(TRUE)>>_vars
    /\ []<>(~ Live(pcb) \/ ended \/ right > Len(app) \/ Len(app) = Total)

Spec == Init /\ [][Next]_vars /\ Fairness

-----------------------------------------------------------------------------
(* Properties. *)

Segments == [at : 0 .. Total, data : Seq(0 .. Total - 1), fin : BOOLEAN]

\* Every field has its type; the counters stay within the limits of tcp_slowtmr.
TypeOK ==
    /\ pcb.unsent \in Seq(Segments) /\ pcb.unacked \in Seq(Segments)
    /\ {pcb.lastack, pcb.sndNxt} \subseteq 0 .. Total + 1
    /\ pcb.lbb \in 0 .. Total /\ pcb.sndBuf \in 0 .. SndBuf
    /\ pcb.sndWnd \in 0 .. PeerWnd /\ pcb.cwnd \in Mss .. PeerWnd
    /\ pcb.ssthresh \in Mss .. SndBuf + PeerWnd
    /\ {pcb.nrtx, pcb.probes} \subseteq 0 .. MaxRtx /\ pcb.dupacks \in 0 .. DupAcks
    /\ {pcb.rtime, pcb.persist, pcb.infr, pcb.memerr, pcb.finq, pcb.closepend,
        ended, mangled} \subseteq BOOLEAN
    /\ pcb.state \in {"OPEN", "FIN_WAIT_1", "FIN_WAIT_2",
                      "LAST_ACK", "CLOSED", "REMOVED", "CRASHED"}
    /\ air \subseteq Segments
    /\ app \in Seq(0 .. Total - 1) /\ right \in 0 .. Total + PeerWnd

\* Whatever is lost, repeated or sent again in other pieces, the other end takes
\* exactly the bytes that tcp_write got, in order, and sees their end only after
\* the last of them -- unless tcp_write, tcp_send_fin or tcp_split_unsent_seg has
\* changed a segment that it should not have.
StreamIntact ==
    mangled \/ /\ app = Positions(0, Len(app))
               /\ ended => pcb.finq /\ Len(app) = pcb.lbb

\* What the other end has not taken is in one of the two queues as long as the
\* connection lives: nothing is freed before it is acknowledged -- again unless a
\* segment was changed that should not have been.
NothingLost ==
    mangled \/ ~ Live(pcb) \/
    /\ \A b \in Len(app) .. pcb.lbb - 1 :
          \E i \in 1 .. Len(Queued(pcb)) :
             Queued(pcb)[i].at <= b /\ b < End(Queued(pcb)[i])
    /\ pcb.finq /\ ~ ended => \E i \in 1 .. Len(Queued(pcb)) : Queued(pcb)[i].fin

\* The send buffer is what the queues do not hold: no byte of it is returned twice
\* or never, however often its segment was split, sent again or partly acknowledged.
SndBufConserved ==
    TypeOK /\ (Live(pcb) => pcb.sndBuf + Bytes(Queued(pcb)) = SndBuf)

\* A segment on its way lies in the window of the other end, or is a probe.
WindowRespected ==
    \A s \in air : mangled \/ End(s) <= right \/ TcpLen(s) = 1

\* Nothing in flight, and the congestion window alone holds the first segment back.
HeldByCwnd(p) ==
    p.unacked = <<>> /\ ~ Fits(p, Head(p.unsent)) /\ p.cwnd < p.sndWnd

\* The retransmission timer runs as long as data is in flight, and the persist
\* timer, which tcp_slowtmr asserts, never runs beside it.  As long as something
\* waits one of the two runs: no sequence of lost segments, closed windows and
\* failed writes leaves a connection that nothing will ever wake, unless a queue
\* out of order (see Rto) is held back by the congestion window, which tcp_output
\* does not consider when it starts the persist timer.
TimerRuns ==
    Live(pcb) => /\ pcb.unacked # <<>> => pcb.rtime
                 /\ pcb.persist => pcb.unacked = <<>>
                 /\ pcb.unsent # <<>> => pcb.rtime \/ pcb.persist \/ HeldByCwnd(pcb)

\* The first segment ends before what is acknowledged: it does not fit in any window
\* and is freed only when something new is acknowledged.
Stale(p) == p.unsent # <<>> /\ End(Head(p.unsent)) < p.lastack

\* No timer runs for what waits: see TimerRuns.
Stalled(p) == p.unsent # <<>> /\ HeldByCwnd(p) /\ ~ p.rtime /\ ~ p.persist

\* What is queued is acknowledged in the end, or tcp_slowtmr gives the connection
\* up, unless the first segment of a queue out of order is stale, or held back by
\* the congestion window alone with no timer running.
Drains ==
    Live(pcb) /\ Queued(pcb) # <<>>
    ~> Queued(pcb) = <<>> \/ ~ Live(pcb) \/ Stale(pcb) \/ Stalled(pcb)

\* At most one segment carries the FIN: tcp_split_unsent_seg moves it from the
\* segment it splits to the second part.
OneFin == Cardinality({i \in 1 .. Len(Queued(pcb)) : Queued(pcb)[i].fin}) <= 1
=============================================================================
