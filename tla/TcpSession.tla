----------------------------- MODULE TcpSession -----------------------------
(***************************************************************************)
(* One relayed TCP connection of the native tunnel                         *)
(* (hev-socks5-session-tcp.c): a cooperative task that connects to the     *)
(* SOCKS server, shakes hands and then moves bytes between the server's    *)
(* socket and an lwIP connection block.  lwIP calls back into the session  *)
(* from other tasks, between two of this task's yields.                    *)
(*                                                                         *)
(* Download bytes are not copied: tcp_write is given pointers into the     *)
(* session's ring buffer, and the stack reads them there each time it      *)
(* (re)transmits, until the application acknowledges them.                 *)
(*                                                                         *)
(* Atomicity: the task system is cooperative and single-threaded, so the   *)
(* code between two yields is one step, and so is each lwIP callback.      *)
(* Kernel sockets and the application's TCP are environment.               *)
(*                                                                         *)
(* Operators named ...Mutant are the forms a plausible bug would give to   *)
(* the definition after them; no specification uses them.                  *)
(***************************************************************************)
EXTENDS Integers, Sequences, FiniteSets, FiniteSetsExt

CONSTANTS
    TcpBufferSize,     \* tcp-buffer-size of the configuration
    SndBuf,            \* TCP_SND_BUF of lwIP
    Wnd,               \* TCP_WND of lwIP
    SockBuf,           \* what the kernel buffers for the server
    UpMax, DownMax     \* bounds: bytes the application and the server write

ASSUME SizesAssumption ==
    /\ {TcpBufferSize, SndBuf, Wnd, SockBuf} \subseteq Nat \ {0}
    /\ {UpMax, DownMax} \subseteq Nat

VARIABLES
    \* the session task
    pc,                \* where it is: see Phases
    task,              \* "run" or "wait", its state in the task system
    timeout,           \* HevSocks5.timeout: -1 unset, 0 terminate, 1 as configured
    resF, resB,        \* res_f and res_b of the splice loop
    \* the session object
    hasPcb,            \* pcb # NULL
    pcbEof,            \* pcb_eof
    queue,             \* queue: bytes from the application, not yet written
    ring,              \* buffer: [data, rp, wp, rda, use]
    \* the connection block in lwIP
    st,                \* its state
    rcvWnd,            \* rcv_wnd
    sndq,              \* ring positions handed to tcp_write, unacknowledged
    \* the application
    appSent,           \* bytes it has written
    toApp,             \* bytes it has received
    acked,             \* how many of them it has acknowledged
    appFin,            \* it has closed its side
    appTold,           \* it has received our FIN
    \* the server's socket
    srvSent,           \* bytes the server has written
    srvRead,           \* how many of them the session has read
    srvEof,            \* the server has closed its side or reset the connection
    srvErr,            \* it has reset it: writing fails
    space,             \* bytes the kernel takes before it answers EAGAIN
    toServer,          \* bytes written to the server
    srvTold,           \* shutdown (SHUT_WR) done
    terminated         \* hev_socks5_session_terminate has been called

taskVars == <<pc, task, timeout, resF, resB>>
sessVars == <<hasPcb, pcbEof, queue, ring>>
stackVars == <<st, rcvWnd, sndq>>
appVars == <<appSent, toApp, acked, appFin, appTold>>
srvVars == <<srvSent, srvRead, srvEof, srvErr, space, toServer, srvTold>>
vars == <<taskVars, sessVars, stackVars, appVars, srvVars, terminated>>

Phases == {"start", "connect", "method", "creds", "response", "splice",
           "drain", "gone"}

States == {"ESTABLISHED", "CLOSE_WAIT", "FIN_WAIT_1", "FIN_WAIT_2", "CLOSING",
           "LAST_ACK", "TIME_WAIT", "FREE"}

-----------------------------------------------------------------------------
(***************************************************************************)
(* The ring buffer (misc/hev-ring-buffer.c).  Positions are 0 .. size - 1. *)
(***************************************************************************)

RingSizeMutant == TcpBufferSize                  \* the size is not clamped

\* hev_config_init: the buffer is never larger than lwIP's send buffer.
RingSize == Min({TcpBufferSize, SndBuf})

EmptyRing == [data |-> [i \in 0 .. RingSize - 1 |-> 0],
              rp |-> 0, wp |-> 0, rda |-> 0, use |-> 0]

\* The free space, as the positions readv fills, in order.
Writing(r) ==
    [i \in 1 .. RingSize - r.use |-> (r.wp + i - 1) % RingSize]

\* The n bytes after byte k of the download stream have been read into it.
WriteFinish(r, k, n) ==
    [r EXCEPT !.data = [p \in 0 .. RingSize - 1 |->
                          IF \E i \in 1 .. n : Writing(r)[i] = p
                            THEN k + (CHOOSE i \in 1 .. n : Writing(r)[i] = p)
                            ELSE @[p]],
              !.wp = (@ + n) % RingSize,
              !.use = @ + n,
              !.rda = @ + n]

\* The bytes to hand to lwIP, as the one or two contiguous runs of positions.
Reading(r) ==
    LET upper == RingSize - r.rp
        run(from, n) == [i \in 1 .. n |-> from + i - 1]
    IN  IF r.rda = 0 THEN <<>>
        ELSE IF r.rda <= upper THEN <<run(r.rp, r.rda)>>
        ELSE <<run(r.rp, upper), run(0, r.rda - upper)>>

ReadFinish(r, n) == [r EXCEPT !.rp = (@ + n) % RingSize, !.rda = @ - n]

ReadRelease(r, n) ==
    IF r.use = n THEN [r EXCEPT !.use = 0, !.rp = 0, !.wp = 0]
                 ELSE [r EXCEPT !.use = @ - n]

-----------------------------------------------------------------------------
(***************************************************************************)
(* Waking, waiting and ending the task.                                    *)
(***************************************************************************)

\* hev_task_wakeup of the session's task.
Wakeup == task' = IF pc = "gone" THEN task ELSE "run"

\* hev_socks5_session_terminate.
Terminate ==
    /\ timeout' = 0
    /\ terminated' = TRUE
    /\ Wakeup

\* The end of hev_socks5_session_task_entry: the session leaves the set and is
\* destroyed.  A connection it still holds is aborted and freed.
Finish ==
    /\ pc' = "gone"
    /\ task' = "wait"
    /\ hasPcb' = FALSE
    /\ queue' = <<>>
    /\ st' = IF hasPcb THEN "FREE" ELSE st
    /\ sndq' = IF hasPcb THEN <<>> ELSE sndq

\* The yielder with WAITIO: a timeout of 0 does not sleep, and ends the loop.
CanSleep == timeout # 0

-----------------------------------------------------------------------------
Init ==
    /\ pc = "start" /\ task = "run" /\ timeout = -1
    /\ resF = 1 /\ resB = 1
    /\ hasPcb = TRUE /\ pcbEof = FALSE
    /\ queue = <<>>
    /\ ring = EmptyRing
    /\ st = "ESTABLISHED" /\ rcvWnd = Wnd /\ sndq = <<>>
    /\ appSent = 0 /\ toApp = <<>> /\ acked = 0
    /\ appFin = FALSE /\ appTold = FALSE
    /\ srvSent = 0 /\ srvRead = 0 /\ srvEof = FALSE /\ srvErr = FALSE
    /\ space = SockBuf /\ toServer = <<>> /\ srvTold = FALSE
    /\ terminated = FALSE

-----------------------------------------------------------------------------
(***************************************************************************)
(* Connecting and shaking hands.                                           *)
(***************************************************************************)

\* hev_socks5_client_connect up to its first wait: the timeout is set.
Start ==
    /\ pc = "start" /\ task = "run"
    /\ timeout' = 1
    /\ \/ /\ pc' = "connect" /\ task' = "wait"
          /\ UNCHANGED <<hasPcb, queue, st, sndq>>
       \/ Finish        \* no socket
    /\ UNCHANGED <<resF, resB, pcbEof, ring, rcvWnd, appVars, srvVars, terminated>>

\* The connection is up, and hev_socks5_client_handshake sets the timeout
\* again and sends the first message.
Connected ==
    /\ pc = "connect"
    /\ timeout' = 1
    /\ pc' = "method" /\ task' = "run"
    /\ UNCHANGED <<resF, resB, sessVars, stackVars, appVars, srvVars, terminated>>

\* The server's answer to what the client last sent has arrived.  In the
\* handshake the timeout is not touched any more.
Answered ==
    /\ pc \in {"method", "creds", "response"}
    /\ ~srvErr
    /\ \/ pc = "method" /\ pc' \in {"creds", "response"}
       \/ pc = "creds" /\ pc' = "response"
       \/ pc = "response" /\ hasPcb /\ pc' = "splice"
    /\ task' = "run"
    /\ UNCHANGED <<timeout, resF, resB, sessVars, stackVars, appVars, srvVars,
                   terminated>>

\* A refused connection, an answer that is an error, or a reset; or the
\* connection block went while the handshake was completing.
HandshakeFails ==
    /\ pc \in {"connect", "method", "creds", "response"}
    /\ Finish
    /\ UNCHANGED <<timeout, resF, resB, pcbEof, ring, rcvWnd, appVars, srvVars,
                   terminated>>

\* The task was woken for something else than its socket.  It tries again and
\* waits again, unless it was terminated meanwhile.
WaitAgain ==
    /\ pc \in {"connect", "method", "creds", "response"}
    /\ task = "run"
    /\ IF CanSleep
         THEN /\ task' = "wait"
              /\ UNCHANGED <<pc, hasPcb, queue, st, sndq>>
         ELSE Finish
    /\ UNCHANGED <<timeout, resF, resB, pcbEof, ring, rcvWnd, appVars, srvVars,
                   terminated>>

-----------------------------------------------------------------------------
(***************************************************************************)
(* The splice loop.                                                        *)
(***************************************************************************)

SpliceFMutant ==                                 \* the end is tested first
    {IF pcbEof THEN [res |-> -1, n |-> 0, shut |-> TRUE]
     ELSE IF queue = <<>> \/ space = 0 THEN [res |-> 0, n |-> 0, shut |-> FALSE]
     ELSE [res |-> 1, n |-> 1, shut |-> FALSE]}

\* What tcp_splice_f may do: write n bytes of the queue, or shut the socket
\* down, or nothing.  res as the C function returns it.
SpliceF ==
    IF resF < 0 THEN {[res |-> -1, n |-> 0, shut |-> FALSE]}
    ELSE IF queue = <<>>
      THEN {[res |-> IF pcbEof THEN -1 ELSE 0, n |-> 0, shut |-> pcbEof]}
    ELSE IF srvErr THEN {[res |-> -1, n |-> 0, shut |-> FALSE]}
    ELSE IF space = 0 THEN {[res |-> 0, n |-> 0, shut |-> FALSE]}
    ELSE {[res |-> 1, n |-> n, shut |-> FALSE] :
            n \in 1 .. Min({Len(queue), space})}

\* What its readv may return in tcp_splice_b: n bytes, EAGAIN (0), or the end
\* of the stream or an error (-1).  With a full ring it is not called.
ReadV ==
    LET avail == srvSent - srvRead
    IN  IF ring.use = RingSize THEN {[res |-> 0, n |-> 0]}
        ELSE IF avail > 0
          THEN {[res |-> 1, n |-> n] : n \in 1 .. Min({avail, RingSize - ring.use})}
        ELSE {[res |-> IF srvEof THEN -1 ELSE 0, n |-> 0]}

\* tcp_write of one run: refused, and nothing queued, without room for it.
TcpWrite(q, seg) == IF Len(q) + Len(seg) <= SndBuf THEN q \o seg ELSE q

\* The send queue after tcp_splice_b handed over what the ring holds.
HandOver(r) ==
    LET runs == Reading(r)
    IN  CASE Len(runs) = 0 -> sndq
          [] Len(runs) = 1 -> TcpWrite(sndq, runs[1])
          [] Len(runs) = 2 -> TcpWrite(TcpWrite(sndq, runs[1]), runs[2])

\* What tcp_splice_b may do: the ring, the send queue, whether it sent our FIN,
\* and its result.  sendFails: tcp_output could not write to the TUN device.
SpliceB ==
    IF resB < 0 THEN {[res |-> -1, n |-> 0, ring |-> ring, sndq |-> sndq, fin |-> FALSE]}
    ELSE LET after(v) == WriteFinish(ring, srvRead, v.n)
             written(r) == ReadFinish(r, r.rda)
         IN  IF ~hasPcb
               THEN {[res |-> -1, n |-> v.n, ring |-> after(v), sndq |-> sndq,
                      fin |-> FALSE] : v \in ReadV}
             ELSE UNION {
               IF after(v).rda > 0
                 THEN {[res |-> IF sendFails \/ Len(HandOver(after(v))) < Len(sndq) + after(v).rda
                                  THEN -1 ELSE 1,
                        n |-> v.n, ring |-> written(after(v)),
                        sndq |-> HandOver(after(v)), fin |-> FALSE] :
                         sendFails \in BOOLEAN}
                 ELSE {[res |-> v.res, n |-> v.n, ring |-> after(v), sndq |-> sndq,
                        fin |-> v.res < 0]} : v \in ReadV}

\* tcp_shutdown of the sending side.
Shutdown(s) ==
    CASE s = "ESTABLISHED" -> "FIN_WAIT_1"
      [] s = "CLOSE_WAIT"  -> "LAST_ACK"
      [] OTHER             -> s

\* What the splice loop does next with the two results: go on at once, wait,
\* or leave the loop (both directions done).
Both(f, b) == f < 0 /\ b < 0

TcpRecvedMutant(n) == rcvWnd                     \* the window is not reopened

\* tcp_recved of n bytes.
TcpRecved(n) == Min({rcvWnd + n, Wnd})

\* One round of hev_socks5_session_tcp_splice up to its yield, with the drain
\* loop's first test when the loop is left.
Splice ==
    /\ pc = "splice" /\ task = "run"
    /\ \E f \in SpliceF, b \in SpliceB :
         /\ resF' = f.res /\ resB' = b.res
         /\ toServer' = toServer \o SubSeq(queue, 1, f.n)
         /\ space' = space - f.n
         /\ srvTold' = (srvTold \/ f.shut)
         /\ srvRead' = srvRead + b.n
         /\ ring' = b.ring
         /\ rcvWnd' = IF hasPcb /\ f.n > 0 THEN TcpRecved(f.n) ELSE rcvWnd
         /\ IF f.res > 0 \/ b.res > 0 \/ (~Both(f.res, b.res) /\ CanSleep)
              THEN /\ task' = IF f.res > 0 \/ b.res > 0 THEN "run" ELSE "wait"
                   /\ queue' = SubSeq(queue, f.n + 1, Len(queue))
                   /\ sndq' = b.sndq
                   /\ st' = IF b.fin THEN Shutdown(st) ELSE st
                   /\ UNCHANGED <<pc, hasPcb>>
              ELSE IF hasPcb /\ b.ring.use # 0 /\ CanSleep
                THEN /\ pc' = "drain" /\ task' = "wait"
                     /\ queue' = SubSeq(queue, f.n + 1, Len(queue))
                     /\ sndq' = b.sndq
                     /\ st' = IF b.fin THEN Shutdown(st) ELSE st
                     /\ UNCHANGED hasPcb
              ELSE Finish
    /\ UNCHANGED <<timeout, pcbEof, appVars, srvSent, srvEof, srvErr, terminated>>

\* The loop after it: wait until the application has acknowledged everything.
Drain ==
    /\ pc = "drain" /\ task = "run"
    /\ IF hasPcb /\ ring.use # 0 /\ CanSleep
         THEN /\ task' = "wait"
              /\ UNCHANGED <<pc, hasPcb, queue, st, sndq>>
         ELSE Finish
    /\ UNCHANGED <<timeout, resF, resB, pcbEof, ring, rcvWnd, appVars, srvVars,
                   terminated>>

TimesOutMutant ==                                \* the yielder's -1 is ignored
    /\ task = "wait" /\ pc \notin {"start", "gone"}
    /\ task' = "run"
    /\ UNCHANGED <<pc, timeout, resF, resB, sessVars, stackVars, appVars, srvVars,
                   terminated>>

\* hev_task_sleep ran out: the yielder answers -1.  Out of the splice loop the
\* drain loop is entered, anywhere else the session is over.
TimesOut ==
    /\ task = "wait" /\ pc \notin {"start", "gone"}
    /\ IF pc = "splice" /\ hasPcb /\ ring.use # 0 /\ CanSleep
         THEN /\ pc' = "drain"
              /\ UNCHANGED <<task, hasPcb, queue, st, sndq>>
         ELSE Finish
    /\ UNCHANGED <<timeout, resF, resB, pcbEof, ring, rcvWnd, appVars, srvVars,
                   terminated>>

\* hev_socks5_session_terminate by the event task when the tunnel stops.
Stop ==
    /\ pc # "gone" /\ ~terminated
    /\ Terminate
    /\ UNCHANGED <<pc, resF, resB, sessVars, stackVars, appVars, srvVars>>

-----------------------------------------------------------------------------
(***************************************************************************)
(* lwIP calls back: data, end of data, acknowledgement, error.  lwIP       *)
(* itself is external here (TcpReceive, TcpSend); the handlers are the     *)
(* session's.                                                              *)
(***************************************************************************)

Receiving == st \in {"ESTABLISHED", "FIN_WAIT_1", "FIN_WAIT_2"}

\* tcp_recv_handler with n bytes.  It refuses them (lwIP then keeps them and
\* offers them again) when more than a window is queued already.
AppData(n) ==
    /\ Receiving /\ pc # "gone" /\ ~appFin
    /\ n <= rcvWnd /\ appSent + n <= UpMax
    /\ IF queue # <<>> /\ Len(queue) > Wnd
         THEN UNCHANGED <<queue, task, rcvWnd, appSent>>
         ELSE /\ queue' = queue \o [i \in 1 .. n |-> appSent + i]
              /\ rcvWnd' = rcvWnd - n
              /\ appSent' = appSent + n
              /\ Wakeup
    /\ UNCHANGED <<pc, timeout, resF, resB, hasPcb, pcbEof, ring, st, sndq,
                   toApp, acked, appFin, appTold, srvVars, terminated>>

\* tcp_recv_handler without a buffer: the application has closed its side.
AppEof ==
    /\ Receiving /\ pc # "gone" /\ ~appFin
    /\ appFin' = TRUE
    /\ pcbEof' = TRUE
    /\ st' = CASE st = "ESTABLISHED" -> "CLOSE_WAIT"
               [] st = "FIN_WAIT_1"  -> "CLOSING"
               [] st = "FIN_WAIT_2"  -> "TIME_WAIT"
    /\ Wakeup
    /\ UNCHANGED <<pc, timeout, resF, resB, hasPcb, queue, ring, rcvWnd, sndq,
                   appSent, toApp, acked, appTold, srvVars, terminated>>

\* The stack sends the next byte, read from the ring where it lies.
AppReceives ==
    /\ st # "FREE"
    /\ Len(toApp) - acked < Len(sndq)
    /\ toApp' = Append(toApp, ring.data[sndq[Len(toApp) - acked + 1]])
    /\ UNCHANGED <<taskVars, sessVars, stackVars, appSent, acked, appFin,
                   appTold, srvVars, terminated>>

AppAcksMutant(n) ==                              \* the task is not woken
    /\ st # "FREE"
    /\ n <= Len(toApp) - acked
    /\ acked' = acked + n
    /\ sndq' = SubSeq(sndq, n + 1, Len(sndq))
    /\ ring' = ReadRelease(ring, n)
    /\ UNCHANGED <<taskVars, hasPcb, pcbEof, queue, st, rcvWnd, appSent, toApp,
                   appFin, appTold, srvVars, terminated>>

\* tcp_sent_handler: the application has acknowledged n bytes.
AppAcks(n) ==
    /\ st # "FREE"
    /\ n <= Len(toApp) - acked
    /\ acked' = acked + n
    /\ sndq' = SubSeq(sndq, n + 1, Len(sndq))
    /\ ring' = ReadRelease(ring, n)
    /\ Wakeup
    /\ UNCHANGED <<pc, timeout, resF, resB, hasPcb, pcbEof, queue, st, rcvWnd,
                   appSent, toApp, appFin, appTold, srvVars, terminated>>

\* tcp_err_handler: the stack has freed the block and says so.
ErrHandler ==
    /\ st' = "FREE"
    /\ sndq' = <<>>
    /\ hasPcb' = FALSE
    /\ Terminate

\* The application acknowledges our FIN, which follows all the data.  From
\* LAST_ACK the block is freed.
AppAcksFin ==
    /\ st \in {"FIN_WAIT_1", "CLOSING", "LAST_ACK"}
    /\ sndq = <<>>
    /\ appTold' = TRUE
    /\ IF st = "LAST_ACK"
         THEN ErrHandler
         ELSE /\ st' = IF st = "CLOSING" THEN "TIME_WAIT" ELSE "FIN_WAIT_2"
              /\ UNCHANGED <<timeout, terminated, task, hasPcb, sndq>>
    /\ UNCHANGED <<pc, resF, resB, pcbEof, queue, ring, rcvWnd, appSent, toApp,
                   acked, appFin, srvVars>>

\* A reset by the application, or too many retransmissions.
StackError ==
    /\ st \notin {"FREE", "TIME_WAIT"}
    /\ ErrHandler
    /\ UNCHANGED <<pc, resF, resB, pcbEof, queue, ring, rcvWnd, appVars, srvVars>>

\* tcp_slowtmr frees a block that has been in TIME_WAIT for two MSL, and tells
\* nobody.  In those two minutes a runnable session has run.
TimeWaitExpires ==
    /\ st = "TIME_WAIT"
    /\ task = "wait"
    /\ st' = "FREE"
    /\ UNCHANGED <<taskVars, sessVars, rcvWnd, sndq, appVars, srvVars, terminated>>

-----------------------------------------------------------------------------
(***************************************************************************)
(* The server's socket.  Each change is an edge that wakes the task.       *)
(***************************************************************************)

ServerSends ==
    /\ pc \in {"splice", "drain"} /\ ~srvEof /\ srvSent < DownMax
    /\ srvSent' = srvSent + 1
    /\ Wakeup
    /\ UNCHANGED <<pc, timeout, resF, resB, sessVars, stackVars, appVars, srvRead,
                   srvEof, srvErr, space, toServer, srvTold, terminated>>

\* The server closes (err FALSE) or resets (err TRUE) the connection.
ServerEnds(err) ==
    /\ pc \in {"splice", "drain"} /\ ~srvEof
    /\ srvEof' = TRUE
    /\ srvErr' = err
    /\ Wakeup
    /\ UNCHANGED <<pc, timeout, resF, resB, sessVars, stackVars, appVars, srvSent,
                   srvRead, space, toServer, srvTold, terminated>>

ServerReads ==
    /\ pc \in {"splice", "drain"} /\ space < SockBuf
    /\ space' = space + 1
    /\ Wakeup
    /\ UNCHANGED <<pc, timeout, resF, resB, sessVars, stackVars, appVars, srvSent,
                   srvRead, srvEof, srvErr, toServer, srvTold, terminated>>

-----------------------------------------------------------------------------
Session == Start \/ WaitAgain \/ Splice \/ Drain

Next ==
    \/ Session
    \/ Connected \/ Answered \/ HandshakeFails \/ TimesOut
    \/ Stop
    \/ \E n \in 1 .. Wnd : AppData(n)
    \/ AppEof \/ AppReceives
    \/ \E n \in 1 .. SndBuf : AppAcks(n)
    \/ AppAcksFin \/ StackError \/ TimeWaitExpires
    \/ ServerSends \/ ServerReads
    \/ \E err \in BOOLEAN : ServerEnds(err)

\* The scheduler runs every runnable task and its timers expire; the kernel
\* and the stack deliver what they hold.  Nobody has to write, read or close.
Fairness ==
    /\ WF_vars(Session)
    /\ WF_vars(TimesOut)

Spec == Init /\ [][Next]_vars /\ Fairness

-----------------------------------------------------------------------------
TypeOK ==
    /\ pc \in Phases /\ task \in {"run", "wait"} /\ timeout \in -1 .. 1
    /\ {resF, resB} \subseteq -1 .. 1
    /\ {hasPcb, pcbEof, appFin, appTold, srvEof, srvErr, srvTold, terminated}
         \subseteq BOOLEAN
    /\ queue \in Seq(1 .. UpMax)
    /\ ring \in [data : [0 .. RingSize - 1 -> 0 .. DownMax],
                 rp : 0 .. RingSize - 1, wp : 0 .. RingSize - 1,
                 rda : 0 .. RingSize, use : 0 .. RingSize]
    /\ st \in States /\ rcvWnd \in 0 .. Wnd
    /\ sndq \in Seq(0 .. RingSize - 1)
    /\ appSent \in 0 .. UpMax /\ toApp \in Seq(0 .. DownMax) /\ acked \in 0 .. DownMax
    /\ srvSent \in 0 .. DownMax /\ srvRead \in 0 .. DownMax
    /\ space \in 0 .. SockBuf /\ toServer \in Seq(1 .. UpMax)

\* The bytes the stack may still transmit from the ring are intact: until the
\* application acknowledges a byte, its place in the ring is not written again,
\* although the write position wraps around and both positions are reset when
\* the ring runs empty.
UnackedIntact ==
    /\ \A i \in DOMAIN sndq : ring.data[sndq[i]] = acked + i
    /\ hasPcb /\ st # "FREE" => Len(sndq) = ring.use

\* The receive window and the session's queue account for each other: what lwIP
\* may still deliver always fits, so tcp_recv_handler never has to refuse data
\* and the 16-bit length of the queue cannot overflow.  (With the types.)
WindowAccounting ==
    /\ TypeOK
    /\ hasPcb /\ st # "FREE" => rcvWnd + Len(queue) = Wnd

\* A session that waits has nothing to do: no edge of the socket and no callback
\* of lwIP has been missed, in either direction, and a terminated session does
\* not sleep.
NoLostWakeup ==
    /\ pc = "splice" /\ task = "wait" =>
         /\ resF = 0 => /\ queue # <<>> => space = 0 /\ ~srvErr
                        /\ queue = <<>> => ~pcbEof
         /\ resB = 0 => /\ hasPcb
                        /\ ring.use < RingSize => srvSent = srvRead /\ ~srvEof
         /\ timeout # 0
    /\ pc = "drain" /\ task = "wait" => hasPcb /\ ring.use # 0 /\ timeout # 0

\* The connection block a session points to exists: lwIP has not freed it behind
\* the session's back (tcp_shutdown: "This doesn't deallocate the PCB unless
\* shutting down both sides!").
PcbValid == hasPcb => st # "FREE"

\* Both directions are faithful streams: see module Relay.
Streams == INSTANCE Relay WITH
    Dirs  <- {"up", "down"},
    sent  <- [up |-> appSent, down |-> srvSent],
    got   <- [up |-> toServer, down |-> toApp],
    ended <- [up |-> appFin, down |-> srvEof],
    told  <- [up |-> srvTold, down |-> appTold],
    over  <- pc = "gone"

\* The session implements the two streams: nothing is reordered, duplicated,
\* overwritten or dropped in the middle, and an end of stream is passed on only
\* after the last byte.
RefinesRelay == Streams!Spec

\* Once nobody writes any more, the session ends, wherever it was when it
\* was terminated, reset or left alone.
SessionEnds == <>(pc = "gone")
=============================================================================
