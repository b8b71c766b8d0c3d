# TLA+ verification of TZVPN

TZVPN is an Android VPN client. It tunnels the phone's traffic through one of
sixteen kinds of tunnel (DNS tunnels, SSH, NaiveProxy, Tor, VLESS, Hysteria2 and
combinations of them) by way of a local SOCKS proxy and tun2socks. This directory
models the parts of it that are hard to test: the service that connects, recovers,
blocks, retries and disconnects, with every coroutine, callback, failure and
cancellation that can interleave; what each kind of tunnel starts and undoes; and
the native tunnel that carries every packet, from its start and stop through its
task scheduler and its sessions down to the TCP of lwIP.

Kotlin paths below are relative to `src/app/src/main/java/app/tzvpn/`; "the
service" is `service/TZVPNVpnService.kt`. C paths are relative to
`src/app/src/main/cpp/hev-socks5-tunnel-src/`.

## Inventory

| Component | State | Operations | Hard behaviour | What makes it correct |
|---|---|---|---|---|
| VPN service | flags (`isReconnecting`, `isKillSwitchActive`, ...), retry counters, job fields, `currentProfileId`, `vpnInterface` | `connect`, `disconnect`, `handleNetworkChange`, `handleTunnelFailure`, `enterKillSwitchMode`, `enterAutoReconnectMode`, `cleanupConnection`, Android callbacks | coroutines interleave at every suspension point; a coroutine may cancel itself; blocking native calls outlive cancellation; `stopSelf` races new commands; process death | no recovery is lost, nothing outlives the service, a disconnect sticks, the kill switch holds, retries are bounded |
| Start-up of a tunnel | which native clients, bridges, HTTP proxy, tun2socks and interface run | `connectXxx`, `stopCurrentProxy`, `clearVpnServiceRef`, `handleProxyStartupFailure`, the restart in `handleNetworkChange` | five to eight failure paths per kind, each with its own undo; two stop lists (service and repository) | a failed start leaves nothing, ports are free, listeners stop before clients, success is complete |
| Connection manager (`service/VpnConnectionManager.kt`) | state flow, pending profile | `connect`, `reconnect`, `disconnect`, `onVpn...` | UI state follows asynchronous events | state shown = state of the service |
| Repository (`data/repository/VpnRepositoryImpl.kt`) | `currentTunnelType`, `isAutoReconnect`, connection state | `startXxxProxy`, `startTun2Socks`, `stopCurrentProxy`, DNS pool scan | keeps a second copy of the tunnel type | stops what was started |
| Chains (`domain/model/ChainValidation.kt`, `executeChain`) | active layers, ports | validate, start layers, roll back | partial failure of a layer | rolled back completely, ports distinct |
| Native clients (`tunnel/DnsttBridge.kt`, `VaydnsBridge.kt`, `SlipstreamBridge.kt`) | client handle, port | start, stop, stop blocking | port not released yet, start twice | one client, known port |
| SOCKS bridges, DNS workers (`tunnel/*SocksBridge.kt`, ...) | sockets, worker pool | start, stop, relay | I/O, pool death | - |
| Rate limiter (`tunnel/RateLimiter.kt`) | tokens | acquire | concurrent callers | rate never exceeded |
| Scanning, boot receiver, tile, storage, import/export, UI | - | - | mostly I/O, storage and presentation | - |
| tun2socks wrapper (`tunnel/HevSocks5Tunnel.kt`, `hev_jni.c`) | `tunnel_running`, `tunnel_thread`, `config_content` | `start`, `stop`, the thread function | unlocked static variables, a thread that is still ending, a stop during set-up | one thread at a time, its own settings, every stop returns |
| hev-socks5-tunnel (`src/hev-socks5-tunnel.c`) | `run`, event descriptors, three tasks, the session list | set-up and tear-down, event, io and timer task, `insert`, `update`, `delete_session` | packets around a stop, parking and waking of tasks, the session limit | a stop reaches every task and session |
| TCP session (`src/hev-socks5-session-tcp.c`, `src/misc/hev-ring-buffer.c`, the SOCKS client) | ring buffer, receive queue, `pcb`, `timeout` | connect, handshake, splice, drain, lwIP callbacks | callbacks between two yields, buffers shared with the stack without copying, time-outs | two faithful streams, no lost wake-up, an end |
| hev-task-system (`third-part/hev-task-system`) | run queue, timer tree, mutex, joiners | wake, wait, sleep, lock, join, exit | keys of the scheduler, one timer for all sleepers, barging | nobody starves, no wake-up is lost |
| lwIP TCP (`third-part/lwip/src/core/tcp*.c`) | `struct tcp_pcb`, segment queues | receive, acknowledge, send, retransmit, probe, close | loss, reordering, wrap-around, closed windows, a failing device, timers over the same queues | the byte stream, the windows, progress |
| lwIP below TCP, YAML, Go CLI, CyberGate, mobile wrappers | vendored code and separate programs | - | - | - |

How they interact: the UI, tile and boot receiver call the connection manager,
which sends start commands to the service. The service runs everything on one
thread (`serviceScope` on `Dispatchers.Main`) and hands blocking work to
`Dispatchers.IO`; it calls the repository to start and stop proxies and
tun2socks. Network callbacks, the Doze receiver, the health check and a callback
of `DnsttSocksBridge` lead back to `handleNetworkChange` or
`handleTunnelFailure`. The native components are process-wide singletons that
survive a service instance. tun2socks is one of them: `HevSocks5Tunnel.start`
creates a thread that runs the task system; its io task reads packets from the TUN
device into lwIP, whose callbacks start and wake sessions, and each session moves
bytes between lwIP and a local SOCKS proxy.

## Modules

| Module | What it models |
|---|---|
| `VpnService` | the connection life cycle: all coroutines and callbacks of the service, one connection resource each of interface, tun2socks and proxy |
| `TunnelStartup` | what each kind of tunnel starts, in which order, what is undone on failure, stopped on cleanup and restarted on a network change |
| `NativeTunnel` | start and stop of the native tunnel across threads, its set-up and tear-down, its tasks and its session list |
| `TaskSystem` | the cooperative scheduler the tunnel runs on |
| `Relay` | abstract: what a session promises the two programs it connects |
| `TcpSession` | one relayed TCP connection; it implements `Relay` |
| `TcpReceive`, `TcpSend` | the two halves of an established lwIP connection |
| `VpnServiceProofs`, `TunnelStartupProofs`, `NativeTunnelProofs`, `TaskSystemProofs`, `TcpReceiveProofs`, `TcpSendProofs` | theorems about the modules they are named after |
| `TcpSessionProofs` | theorems about `TcpSession`, and that it implements `Relay` |
| `InductionLemmas` | induction over a set of naturals, prefixes of an interval, largest elements; used by the proof modules |
| `MC...` | finite instances for TLC |

How they fit together: `NativeTunnel` lets a session end at any time and assumes
that a terminated one does, which is `SessionEnds` of `TcpSession`. `TcpSession`
takes lwIP as its environment: data in order and within the window (`TcpReceive`:
`StreamInOrder`, `WindowConserved`), bytes read from the ring until they are
acknowledged and not after (`TcpSend`: `NothingLost`). All three take a step to be
what a task does between two yields and assume that a woken task runs
(`TaskSystem`: `QueueSound`, `NoStarvation`, `WaitersWoken`). `TunnelStartup` takes
starting and stopping tun2socks as one step each.

Operators named `...Mutant` are deliberately wrong forms of the definition after
them; they are used only to see that the properties notice such a change.

### VpnService

A coroutine is a member of `Hosts`: one per job field (`connect`, `disconnect`,
`health`, `lost`, `debounce`, `auto`), one each for the two coroutines that no
field holds (`kill`, the reconnection of kill switch mode, and `pool`, the report
of a dead DNS pool), and a set `Recs` of `handleNetworkChange` coroutines, which no
field holds either and of which several may live. `pc[h]` names the suspension
point, so an action is the code between two suspension points, which really is
atomic because all of it runs on the main thread. `handleTunnelFailure` is a
suspend function and runs inside its caller: its places (`tf_...`, `ks_io`,
`ar_io`, `er_io`) can be those of any host.

| Places | Code |
|---|---|
| `c_join`, `c_stopAll`, `c_clean`, `c_load` | `connect` up to the accepted profile |
| `c_vpn`, `c_proxy`, `c_tun`, `c_finish`, `c_catch` | a `connectXxx` that opens the interface first, `finishConnection`, the catch block |
| `tf_delay`, `tf_decide`, `tf_auto` | `handleTunnelFailure`: the delay before a seamless reconnection, the reads of the two settings |
| `ks_io`, `ar_io`, `er_io` | the blocking block of kill switch mode, auto-reconnect mode and the error path |
| `q`, `q_rec`, `r_stop` ... `r_fin` | `handleNetworkChange`: queued (`q_rec` for a tunnel recovery), then its blocking blocks |
| `h_loop`, `h_q`, `p_q`, `l_delay`, `b_delay`, `a_delay`, `k_delay`, `d_q`, `d_io` | health check, its report, DNS pool report, timers, disconnect |

Cancellation sets `pc[h]` to `"none"` at once. If the coroutine was inside a
blocking native call, the call becomes an orphan and ends later: `OrphanStart`
may bring up a client nobody owns, `OrphanStop` stops what is running then. A
coroutine that cancels itself (`cleanupConnection` called by the health check or
by the network-lost timer) ends at its next suspension point, as in Kotlin.

Android's part is external and modelled from how the code depends on it: start
commands queue and are delivered to the instance that lives; `stopSelf()` has no
start id, so it ends the service in spite of commands already sent; the system
stays bound to a `VpnService` whose interface is open (`svc = "bound"`), so such a
service is destroyed only when the interface is closed; a killed process is
restarted with a null intent because `onStartCommand` returns `START_STICKY`.

`connect` stands for the kinds that open the interface first. The kinds that
start the proxy first differ in what one start undoes, which is what
`TunnelStartup` is for, not in how they interleave. `proxy` is one resource.

### TunnelStartup

Starting, stopping and restarting are programs: sequences of steps, each with the
program that replaces the rest when it fails. `connectSlipstream`,
`connectDnstt`, ... are those programs, one operator per function, and
`StopCurrentProxy`, `CleanupConnection`, `RepoStopCurrentProxy`,
`HandleNetworkChange` the ones around them. The actions interpret the steps: any
start, wait, interface or tun2socks step may fail, a connect may arrive in the
middle of another one, a component may die, and for `LateKinds` a blocking start
may survive its cancelled coroutine. `refs` are the clients with a reference to
the service, for socket protection; `Needs` are the parts of the proxy (not tun2socks, whose
missing restart after the kill switch is what `KillSwitchRestores` shows); `repoType` is the repository's own idea of the
tunnel type, which decides what it stops when tun2socks does not start.

`NOIZDNS` behaves as `DNSTT`. VLESS with REALITY and Snowflake with Smart Connect
have a path of their own and are kinds of their own.

### NativeTunnel

`caller[c]` is where a caller of `HevSocks5Tunnel` is, `thread[t]` where the t-th
thread is; a step is the code between two accesses of the static variables, which
nothing locks. Nor does the service make the calls take turns: `connect` cancels the
previous job without joining it (305) while that job may be in `stop` (323), and the
restart of tun2socks (4839-4842) may meet the stop of `cleanupConnection` (5767). So any
number of callers start and stop at the same time, and `races` records what their calls
do to each other at the step where it happens: a start sets the QUIC setting under a thread
or over another start (`setting`), two starts both see the tunnel stopped (`start`), two
stops join the same thread (`join`), the tail of a stop (`hev_jni.c:104-110`) undoes what a
later start has set (`late`). The last three damage the tunnel; `Orderly` says that they
have not happened. `InitSystem`, `TunnelInit`, `EventTaskInit` and `TasksInit` may each
fail and lead to `Fini` or `Exit` as in `main_inner` and `hev_socks5_tunnel_init`.
While `thread[t] = "running"` the tasks step: `EventRead` (the stop byte; every
session is terminated), `EventJoins`, `IoWaits`, `IoAccepts` (a packet starts a
session), `TimerRound`, `TimerFires`, and sessions become active or end.

### TaskSystem

`sched` is the run queue with the tasks' keys and states. The kernel polls, fires
the timer and picks the first task; the current task may wake, run, join, lock,
unlock, sleep, wait for I/O, yield or exit, in any order. Keys are kept relative to
the smallest one (only differences are compared), a red-black tree is the sorted
sequence of its nodes, and running adds 1 up to `MaxRuntime` times the priority.

### Relay and TcpSession

`Relay` has two directions, each a first-in first-out stream whose end is passed on
after its last byte; the session may give up at any time. In `TcpSession` the ring
buffer has real positions, and what the application receives is read from the ring
at the moment the stack transmits, as the zero-copy `tcp_write` does: an
overwritten byte would be seen. The refinement maps the streams to what either end
wrote and received and `over` to `pc = "gone"`.

### TcpReceive

Sequence numbers are modulo `M` and compared only by `Lt`, `Leq` and `Between`, the
`TCP_SEQ` macros. `Arrive` takes any segment that a conforming sender could have
sent by now, which stands for loss, duplication, delay, reordering and
re-segmentation at once. `Deliver` and `Enqueue` are `tcp_receive` in order and out
of order; `Announce`, `AnnWnd` and `Inflation` the window updates.

### TcpSend

Operators on a `pcb` return the set of their outcomes: each segment may fail to be
written to the TUN device. `SlowTimer` is `tcp_slowtmr` with the persist and
retransmission timers, `AckIn` the acknowledgement half of `tcp_receive` with fast
retransmit, `Write` and `Close` the session's calls. `mangled` records that one of
the two faults below (a changed old segment, a split FIN) has occurred; `CRASHED` is
the failed assertion of `tcp_slowtmr`. Window checks are unsigned as in the code
(`Fits`, `tcp_out.c:1309` and 1336): a segment that ends before `lastack` fits in no
window.

The congestion window is computed as in the code, from `ssthresh` (`Halved`, `Recovered`,
`Growth`), up to the largest window of the peer, beyond which it makes no difference. By how
much an acknowledgement widens it depends on `TF_RTO` and `bytes_acked`, which are not
modelled: `Growth` is the set of both outcomes.

A queue out of order (see the list below) makes two exceptions necessary. `HeldByCwnd`:
`tcp_output` starts the persist timer only when the send window is not larger than the
congestion window (`tcp_out.c:1316`), so a first segment that the congestion window alone
holds back may wait with nothing in flight and, once an acknowledgement has stopped the
retransmission timer (`tcp_in.c:1307`), without any timer (`Stalled`). `TimerRuns` and
`Drains` leave this state out; it is a fault of the code (see the list below). `Stale`: a first segment
that ends before `lastack` is never sent again and leaves the queue only when something new
is acknowledged; `Drains` leaves it out.

## Runs

Passing runs:

| Run | Shows |
|---|---|
| `vpn_safety` | `TypeOK` (with it the two retry limits), `ReconnectFlagOwned`, `NothingOutlivesService`, `SwitchCleansUp`, `NoTunAfterDisconnect`, in 1.3 million states |
| `vpn_live` | `ReconnectEnds`, `ConnectEnds`, `DisconnectTearsDown` under fairness |
| `startup` | `NativeHasRef`, `NothingLeft`, `TunOutlivesTun2Socks`, `ConnectedIsComplete`, `FailedStartStopsProxy`, `StopsFrontFirst`, for all kinds but VLESS with REALITY, with late starts of cancelled coroutines |
| `native_tunnel` | two callers that overlap, with sessions: `OneThread`, `SettingApplies`, `TimersRun`, `StopReachesAll`, and `JoinReturns` under fairness |
| `task_system` | `QueueSound`, `MutexSound`, `WaitersWoken`, and `NoStarvation` under fairness |
| `tcp_session` | `UnackedIntact`, `WindowAccounting`, `NoLostWakeup`, the refinement `RefinesRelay`, and `SessionEnds` under fairness |
| `lwip_receive` | `StreamInOrder`, `OoseqSound`, `WindowConserved`, `PromiseKept`, `WindowReopens`, and `AllDelivered` under fairness |
| `lwip_send` | `StreamIntact`, `NothingLost`, `SndBufConserved`, `WindowRespected`, `TimerRuns`, and `Drains` under fairness |

The type invariants of the modules other than `VpnService` are conjuncts of
`NativeHasRef`, `OneThread`, `QueueSound`, `WindowAccounting`, `OoseqSound` and
`SndBufConserved`.

Runs in which the code disagrees with what the repository says of it. Each checks
one property, quoted from a comment in `PROJECT.json`:

| Run | What happens |
|---|---|
| `kill_switch_restores` | a reconnection from kill switch mode never restarts tun2socks |
| `session_pcb` | lwIP frees a block in TIME_WAIT without a callback while the session still points to it |
| `native_stop` | a stop that meets a failing initialisation waits for ever for a descriptor nobody opens |
| `lwip_fin` | splitting a segment with a FIN leaves the FIN on both parts |

Other disagreements met on the way, which no run is kept for. In the service:

- `disconnect` (5419), `onRevoke` and `cleanupConnection` (5751) clear
  `isReconnecting` under a running reconnection, and a second one starts, against
  "Prevent concurrent reconnection attempts" (4258). `disconnect` says it cancels any
  reconnection under way (5411), but no field holds that coroutine.
- `cleanupConnection` cancels the health check or network-lost coroutine that runs
  `enterAutoReconnectMode` (5743): the retry is never scheduled.
- `enterKillSwitchMode` cancels the health check that runs it (5514): traffic is
  blocked and nothing reconnects.
- The `stopSelf` of a disconnect (5439) destroys the service under a newer connect.
- `VlessRealityBridge` is never stopped by `stopCurrentProxy` (4935), so that kind is
  not in the `startup` run.
- SOCKS5, VLESS and Hysteria2 proxies are stopped and not restarted on a network
  change (4807).
- When `handleTunnelFailure` runs inside `handleNetworkChange`, the caller's
  `finally` block clears `isAutoReconnect` before the recovery just launched begins
  (4922 and 5479), so the DNS pool is scanned again although the comment at 5477 says
  it is skipped.
- `onTaskRemoved` during a disconnect saves the profile again (5839), against the
  comment at 5434. It restarts the connection, and a failing step of that start
  closes the interface without looking at the kill switch ("no leaks", user guide).
- When the SOCKS bridge of DNSTT or VayDNS does not start, `stopSelf` is called
  with the interface open (1717-1735); when tun2socks does not start, that bridge
  is left running (`VpnRepositoryImpl.stopCurrentProxy`). `FailedStartStopsProxy`
  and, while starting, `StopsFrontFirst` leave the two kinds out.
- "Stop ALL bridge types" at the start of `connect` (322) leaves out Naive,
  Snowflake, DoH, VLESS, REALITY and Hysteria2, whose late start by a cancelled
  coroutine then keeps the port.
- Auto-reconnect and boot retry are re-entered only on exceptions; a start that
  reports its failure as a `Result` ends the service.

In the native code:

- The persist timer keeps running when the byte it probed with is acknowledged; its
  next tick may find an empty queue and the assertion at `tcp.c:1259` aborts.
- A fast retransmission whose `tcp_output` failed leaves an old segment last in the
  unsent queue (`tcp_out.c:478`), to which `tcp_write` and `tcp_send_fin` then add.
- When a retransmission time-out follows such a failure, what is in flight is put in
  front of the unsent queue as a whole (`tcp_out.c:1659`), although older segments may be
  waiting there: the queue is out of order, against "Keep the unsent queue sorted."
  (`tcp_out.c:1749`).
- `tcp_fasttmr` clears the flags of an acknowledgement that failed to be sent
  (`tcp_out.c:2114`); the other end repeats its segment.
- A write to the device that fails in `tcp_output` ends the download direction of a
  session although its data is queued (`hev-socks5-session-tcp.c:116`).
- `hev_socks5_session_terminate` before the handshake sets the timeout again
  (`hev-socks5-client.c:277`) is lost; the session ends by its time-out.
- Without memory for a task, both the session's destructor and the accept handler
  abort the connection block (`hev-socks5-tunnel.c:183`).
- `gateway_fini` after a failed `tunnel_init` removes what was never created (613);
  `max-session-count` may be exceeded while a terminated session ends (115); a
  descriptor read by `hev_socks5_tunnel_stop` may be closed when it is written (844).
- Two starts at once may create two threads over the same variables (`hev_jni.c:44` and
  70), and two stops may join the same thread (102), which POSIX leaves undefined.
- A tunnel may run that `isRunning` denies and no stop will end (`hev_jni.c:109`): a stop
  joins a thread that has already cleared `tunnel_running` (32); before it goes on another
  caller's start finds the tunnel stopped and creates a new thread; the rest of the stop
  (104-110) then frees the new configuration, clears `tunnel_running` and resets the
  descriptor. In `NativeTunnel` with two callers and two starts this takes none of the
  other windows: `races = {"late"}`, `thread[2] = "running"` and `tunnelRunning = FALSE`
  are reached.
- "We don't consider the congestion window since a cwnd smaller than 1 SMSS implies
  in-flight data" (`tcp_out.c:1313`) overlooks a queue out of order, whose first segment
  lies further ahead: with nothing in flight, data may wait behind the congestion window
  without any timer (`Stalled`). `TcpSend` reaches it with segments of four bytes, eight bytes to
  send, five retransmissions and two segments in flight: bytes 4 to 7 are queued in front
  of 0 to 3, two partial acknowledgements (1, then 2) stop the retransmission timer
  (`tcp_in.c:1307`) and leave a congestion window of 5 below a send window of 6, so that
  the persist timer is not started either.

### Bounds

`VpnService`: two profiles (a switch needs two), two `handleNetworkChange`
coroutines (enough for two to overlap; a third is delayed), one seamless and one
automatic attempt (below, at and past the limit all occur), one start command on
its way and three outside events after which the system runs to the end. Three
events suffice for connect, something in the middle, and an event during the
reaction to it. A second disconnect
waits for the first. The profile ids and the coroutines of `Recs` are
interchangeable, hence the symmetry in the safety runs; the liveness run uses
none, and one profile. Its settings are the kill switch with auto-reconnect, and
neither: auto-reconnect is entered in the first whenever the interface is closed. `CHECK_DEADLOCK FALSE`: once the events are used up the
service may stop for good.

`TunnelStartup`: Smart Connect tries two transports instead of four (a first, and
a last one), at most one late start at a time (`LateKinds`: kinds with a client and a
listener), and one program at a time.

`NativeTunnel`, `native_tunnel`: two callers (each window is a meeting of
two), two starts (a tunnel and its replacement), two sessions with a limit of two, so that
the limit is reached and the idle session is terminated. Its `CONSTRAINT Orderly` stops the
search where calls have damaged the tunnel: the properties say nothing from there on.
`native_stop`: one caller, for the fault needs no second one, three starts and three
sessions. `CHECK_DEADLOCK FALSE`: once the starts are used up all may have ended. The proofs
need none of these bounds.

`TaskSystem`: three tasks, one of higher priority: a holder, a woken waiter and one
that barges in; two sleepers that expire together.

`TcpSession`: a ring of two bytes that four downloaded bytes wrap around twice, a
configured size larger than the send buffer, a window of two for an upload of three,
a socket that takes one byte before it blocks.

`TcpReceive`: ten bytes and a FIN with `M = 40` and `Isn = 36`, so that the numbers
wrap in the middle of the stream; a window smaller than the stream; segments of up to
four bytes, hence queues of several overlapping pieces.

`TcpSend`: three bytes and a FIN, segments of two bytes (so one full segment, one that is
not, and every split), one segment and one acknowledgement in flight (delay and reordering
come from the choice of when they arrive, loss from their not being put there), one
duplicate acknowledgement instead of three starts a fast retransmit, two retransmissions
before a connection is given up. That a connection with something queued has a timer
running, unless it is held by the congestion window, is `TimerRuns`, which is proved for all
bounds; what `Drains` adds is that an expiry makes progress. `Stalled` needs two partial
acknowledgements with a whole segment behind them and does not occur at these bounds;
`Drains` leaves it out because it does at larger ones.

### Fairness

Weak fairness of every coroutine, timer, blocking call and Android callback that
is under way: a suspended coroutine on a running main thread is resumed, a
`delay` elapses, native calls return or fail, a start command is delivered, a
stopped service is destroyed. It does not cover a native stop that hangs for
ever, which the code cannot recover from either (`withTimeout` does not interrupt
a blocking call). In the service nothing is assumed of the user, the network, or a tunnel coming
up, so no property says that a connection is made.

In the native code: the operating system runs callers and thread, the scheduler runs
every runnable task (shown by `TaskSystem`, whose own fairness is that the current
task reaches a yield and time passes), timers expire. `TcpReceive` assumes that the
sender repeats what is unacknowledged and may be sent, and no window probes; `TcpSend`
that `tcp_slowtmr` is called again and again and that the application at the other end
reads, and nothing of the network or the device.

## Proofs

`VpnServiceProofs` proves, for every set of profiles, settings, `Recs` and every
limit, from the assumptions named next to the constants of `VpnService`
(`NoProfile` is no profile, the settings are records of three Booleans, the limits
are naturals, the names of `Recs` are none of the eight job names):

| Theorem | Statement |
|---|---|
| `TypeCorrect` | `Spec => []TypeOK` |
| `ReconnectFlagIsOwned` | `Spec => []ReconnectFlagOwned` |
| `ServiceLeavesNothing` | `Spec => []NothingOutlivesService` |
| `SwitchIsClean` | `Spec => []SwitchCleansUp` |
| `DisconnectStaysClosed` | `Spec => NoTunAfterDisconnect` |

`TypeOK` is inductive by itself; its three parts are proved by three lemmas with
one case per action. The queue of start commands, the retry counters and the
Booleans have lemmas of their own. The limit of the seamless attempts is the
guard in `CanSeamless`, that of the automatic ones the guard of
`TunnelFailureAuto`: both are evaluated in the same segment that increments the
counter, which is why no interleaving passes them.

The inductive invariant of the others is `TypeOK /\ Safety`, where `Safety` is the
three invariants and `OpeningNotCancelled`: a connect about to open the interface
was not cancelled by a disconnect. `NoTunAfterDisconnect` needs it because the
property speaks of a flag that `connect` reset two segments earlier:
`OnlyConnectVpnOpens` shows that no other action opens the interface, and
`OpeningNotCancelled` that the flag is still reset there, since `disconnect` sets
it only together with cancelling `connectJob`.

`TunnelStartupProofs` proves, for every set of kinds, every choice of `LateKinds` and any
number of Tor transports (`KindsAssumption`, `BoundsAssumption`):

| Theorem | Statement | Hypotheses |
|---|---|---|
| `ProgramsAreSafe` | `Spec => []IInv` | |
| `NativeHasRefAlways`, `TunOutlivesTun2SocksAlways` | `Spec => []NativeHasRef` (with it `TypeOK`), `Spec => []TunOutlivesTun2Socks` | |
| `StopsFrontFirstAlways` | `Spec => StopsFrontFirst` | |
| `OnlyRealityLeftAlways` | `Spec => []OnlyRealityLeft`: an idle service has left at most the REALITY bridge | |
| `NothingLeftAlways`, `FailedStartStopsProxyAlways` | `Spec => []NothingLeft`, `Spec => []FailedStartStopsProxy` | no `VLESS_REALITY` |
| `ConnectedIsCompleteAlways` | `Spec => []ConnectedIsComplete` | no `VLESS_REALITY`, no `PortOnly` kind in `LateKinds` |

The state holds the rest of a program, and the failure path of a step is a program as
well, so an invariant has to say of a program, as data, that it will do no harm. `Safe(p,
q, up, low, repo)` does: `q` may be run whenever at most `up` and at least `low` is held
(components, references, interface, profile) and the repository notes the type `repo`.
Each step must be allowed under these bounds (a component is stopped when nothing in
front of it may run, a reference dropped when its client cannot, the interface closed when
tun2socks cannot, success reported when everything needed does), and must leave the rest,
or the failure path, safe for the bounds after it. That is a greatest fixed point: `Safe`
asks for some set of abstract states that is closed under steps, which needs no
recursion and no induction. There is a rule for each operation (`RuleStop`, `RuleStart`,
...), and from the rules it follows that every `connectXxx`, every undo list, the two
stop lists, the switch of profiles and every restart is safe from the bounds in which the
code begins it. The transports of Smart Connect are an induction over their number.

`IInv` says that `todo` is safe for `Held` and `Have`, what is held in the present state
(`Running`), with the order of resources (`Ordered`) and what the end of each
program promises (`Reached`). The two bounds differ because `up` must not count what a
cancelled start leaves (`overruns`) or the REALITY bridge, neither of which any program
looks for, and because proxy-only mode goes on as if there were an interface. The proof
has one lemma per action; a step of a program keeps `Running` by the closure of the set,
and every action that puts a new program in place needs the safety of that program from
`Held`, which is why `Held \subseteq Returned(type)` is part of the invariant: what runs
is among what `cleanupConnection` of the *current* type gives back.

The hypotheses are the faults listed above. REALITY: its bridge is never stopped, so the
first three theorems, `StopsFrontFirstAlways` and `OnlyRealityLeftAlways` hold with it and
the others assume its absence. `PortOnly` are SOCKS5, VLESS (with or without REALITY) and Hysteria2,
whose restart starts nothing and waits for the port: it reports success when a start left
over from a cancelled coroutine listens there. The run `startup` satisfies both.

`NativeTunnelProofs` proves, for any number of callers whose calls overlap in any way, and
any number of starts and sessions and any limit, from `CountsAssumption` (both limits are
naturals):

| Theorem | Statement |
|---|---|
| `ThreadsDoNotOverlap` | `Spec => []OneThread` |
| `SettingIsKept` | `Spec => []SettingApplies` |
| `TimersKeepRunning` | `Spec => []TimersRun` |
| `StopIsHeard` | `Spec => []StopReachesAll` |

`OneThread`, `TimersRun` and `StopReachesAll` hold as long as the tunnel is `Orderly`,
`SettingApplies` as long as `races` is empty: the theorems say that the four windows are the
only ways in which overlapping calls can go wrong. `Control` is what holds while it is
`Orderly`: all threads but the last have ended and `tunnel_running` is set while one lives or
is about to be created (`ThreadsInOrder`), a caller that sets up the next thread is alone
and the variables are those of its start (`StartsAlone`), the tail of a stop comes after
the end of the thread it joined (`TailsComeLast`; this is where the join matters).
`SettingsKept` is the same for the setting while `races` is empty. `TasksKept`: without a
running thread there is no session and no join; the event task joins only after `run` is 0
and the timer task stops only then. That no session is in the list twice holds in any case.
Since `races` only grows (`RacesGrow`), a step that ends in an orderly state began in one.
Steps of callers leave the tasks alone and steps of tasks leave the callers alone
(`ControlFrame`, `TaskFrame`); `RemoveAtFacts` and `AppendFacts` are what the list operations
do to the set of sessions.

`TcpSessionProofs` proves, for every ring, window and stream size of `SizesAssumption`:

| Theorem | Statement |
|---|---|
| `SessionInvariant` | `Spec => []IInv` |
| `WindowAccountingHolds`, `UnackedIntactHolds`, `NoLostWakeupHolds` | `Spec => []WindowAccounting` and so on |
| `SessionRefinesRelay` | `Spec => RefinesRelay` |

`IInv` is the types, what the ring and the receive queue hold (`Accounted`),
`NoLostWakeup`, and four parts that relate the two ends: when a connection block is
there and what it still owes (`PcbInv`), that the bytes on their way down are the stream
between what was received and what was read, at the ring positions they were written
to (`DownInv`), when a FIN may have been sent (`FinInv`), and the same for the other
direction (`UpInv`). `UnackedIntact` follows from `DownInv`. In the refinement, the
application's and the server's writes and ends are `Send` and `End` of a direction, what
the application receives is `Deliver` and its acknowledgement of the FIN `Tell`; a round
of the splice passes on bytes or an end, gives up, or stutters; `Finish` gives up. The
part of `Relay` that `TcpSession` implements is its safety part, which is all of it.

`TcpSendProofs` proves, for any buffer, window and segment size of `SendAssumption`:

| Theorem | Statement |
|---|---|
| `SendInvariant` | `Spec => []SendInv` |
| `StreamIntactHolds`, `NothingLostHolds`, `SndBufConservedHolds`, `WindowRespectedHolds`, `TimerRunsHolds` | `Spec => []StreamIntact` and so on |

`SendInv` speaks of the connection block (`Fine`: every queued segment is a true piece of
the stream unless `mangled`; buffer and queues make up `SndBuf`; the timers; what the
peer lacks is queued, `Covers` and `HasFin`), of why something may wait (`Waiting`), and
of the peer: segments in the air are true and inside its window or probes (`SegOk`),
acknowledgements on their way promise no more than the peer has taken and opened
(`AckOk`), and what the block believes of the window is not more either (`Edged`).
`Fine` says nothing of the order of the queues, which does not hold. Each operator on a
block (`Output`, `Split`, `Rto`, ...) has a lemma saying that all its outcomes are
`Fine` if its argument is; an action's proof then only puts them together.

`TcpReceiveProofs` proves, for every modulus, first sequence number, stream, window and
segment size of `ReceiveAssumption` (the stream and the window together stay below half of
the sequence space, the window opens in steps smaller than itself):

| Theorem | Statement |
|---|---|
| `ReceiveInvariant` | `Spec => []IInv` |
| `StreamInOrderHolds`, `OoseqSoundHolds`, `WindowConservedHolds`, `PromiseKeptHolds`, `WindowReopensHolds` | `Spec => []StreamInOrder` and so on |

Sequence numbers wrap and are compared by the sign of their difference; positions in the
stream do not wrap. `LtIs`, `LeqIs`, `SeqNoEq` and `SeqNoMinus` show that for positions less
than half of the space apart (`Near`) comparing the numbers is comparing the positions, and
everything after them speaks of positions. `IInv` adds to the five invariants that the
window announced last is part of the real one and covers the edge the sender knows, and
that the out-of-order queue is a `Queue` between the byte after the next and the end of the
window, which relates any two of its segments and not only neighbours, since `Swallow` and
`CutTo` take several away at once. Each operator on the queue (`Swallow`, `OosInsert`,
`CutLast`, `Enqueue`, `Fitted`, `InSequence`) has a lemma that it keeps this form;
`InWindowFacts` is why the code that cuts a segment at the end of the window never has to: a
sender that keeps to the edge it was told never sends past it. That what `Deliver` passes on
is one stretch of the stream (`FlatIs`) is an induction over the segments of the run.

`TaskSystemProofs` proves, for any number of tasks with any priorities
(`TasksAssumption`):

| Theorem | Statement |
|---|---|
| `TaskInvariant` | `Spec => []IInv` |
| `QueueSoundHolds`, `MutexSoundHolds`, `WaitersWokenHolds` | `Spec => []QueueSound` and so on |

`IInv` has three parts. `Books`: the run queue holds each runnable task once, sorted by
key (`Sound`), with the current one in front (`Leads`), tasks that have ended are nowhere
(`Alive`), holder, waiters and lock agree (`MutexOk`), so do joiners and the joined
(`JoinOk`). `Typed`. `TimerOk`: a sleeper is in the timer tree once and the tree is sorted
by expiry, where two that have not expired are told apart by address. Waking a task
disturbs nothing but the queue (`Rises`), and every other step changes the state or the
call of one task (`Only`); the lemmas about these two cover all actions.

`InductionLemmas` derives induction over a *set* of naturals from well-foundedness. The
library's induction theorems take an operator as a parameter; with a set, what a
recursive function computes (`Bytes` of `TcpSend`, `AllWoken` of `TaskSystem`, the
concatenation in `Deliver` of `TcpReceive`) can be proved for every input. Recursion in the proved modules is therefore a recursive
function and never a `RECURSIVE` operator.

Only model-checked: the liveness properties (`ReconnectEnds`, `ConnectEnds`,
`DisconnectTearsDown`, `JoinReturns`, `NoStarvation`, `SessionEnds`, `AllDelivered`,
`Drains`), which are out of the prover's reach. Every other invariant and
every action property of a passing run is also a theorem.

## Not modelled, and simplifications

- Chains, boot retry, the connection-state observer, traffic polling, wake locks
  and the counters inside the health check (a stall is an event); the health check
  runs on another thread and is sampled.
- `finishConnection` starts the HTTP proxy in a coroutine of its own; the model
  starts it at once.
- Reads of settings and of the profile suspend; only those whose interleaving
  matters (`c_catch`, `tf_decide`, `tf_auto`) are separate steps. Settings do not
  change while the service runs, and a profile does not change its type while
  connected.
- `cleanupConnectionSync` in `onDestroy` signals native threads without waiting;
  what may still run afterwards is an orphan.
- A second join of a thread returns at once, and a configuration that is freed while it is
  read is not followed further; allocation failures other than those named; the statistics and the second (UDP) setting of the JNI layer.
- UDP sessions, mapped DNS, the configuration parser; condition variables, channels
  and semaphores of the task system, which the tunnel does not use.
- Opening handshake, options, keep-alive, resets, checksums and listening of lwIP.
  `TcpReceive` always succeeds in sending an acknowledgement and never meets refused
  data, which `WindowConserved` shows the session not to cause. `TcpSend` uses
  positions for sequence numbers, leaves open which of its two amounts an
  acknowledgement adds to the congestion window, does not limit the number of queued buffers, and its peer
  sends no data.
- Packet formats, DNS probing, storage, import/export, user interface, the Go programs.

Most of the C in the repository is vendored and has no behaviour of this program to
model: the resolver table, the YAML scanner, and the parts of lwIP that the build
leaves out or that only lay out bytes (PPP, 6LoWPAN, the sockets and netconn layers,
options, examples and tests). The share of C lines that the models stand for is
therefore small; they cover the code through which every relayed TCP byte passes.

## Plan

1. `ConnectionManager`: the state flow of the connection manager and repository,
   and the state observer with its `stopSelf`; an abstract specification of what
   the user sees (disconnected, connecting, connected, blocked) that it implements.
2. `Chain`: `ChainValidation` against a reference definition, `executeChain` with
   its ports, layers and roll-back.
3. `NativeClient`: start, stop and port draining of `DnsttBridge`, `VaydnsBridge`
   and `SlipstreamBridge`, and what `TunnelStartup` assumes of them as the
   abstract specification.
4. `HealthCheck`: thresholds and counters; `BootRetry`; `RateLimiter`; the DNS
   worker pool; the hand-over between `ScanService` and `ScanStateHolder`.
5. UDP sessions: the datagram queue and the relay over the SOCKS connection.
