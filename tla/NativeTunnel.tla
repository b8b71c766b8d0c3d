---------------------------- MODULE NativeTunnel ----------------------------
(***************************************************************************)
(* The life of the native tunnel: the JNI entry points (hev_jni.c), the    *)
(* thread they start, its set-up and tear-down (hev-main.c,                *)
(* hev-socks5-tunnel.c), and the tasks it runs in between: the event task  *)
(* that waits for a stop, the task that reads packets from the TUN device, *)
(* the timer task of the TCP/IP stack, and one task per session.           *)
(*                                                                         *)
(* Every static variable of the C files is shared by the threads that call *)
(* HevSocks5Tunnel and the tunnel's own thread; nothing locks them, and    *)
(* the service calls start and stop from several threads.  A step of a     *)
(* caller or of the thread is the code between two accesses of what they   *)
(* share.  Inside the thread the tasks are cooperative: a step is what a   *)
(* task does between two yields.  The mutex around the stack is never held *)
(* across a yield, so it never makes anyone wait.                          *)
(*                                                                         *)
(* Overlapping calls can meet in four windows, which the variable races    *)
(* records.  Once the tunnel has been damaged in one of them (see Orderly) *)
(* the model goes on, but says nothing more of threads that share tasks.   *)
(*                                                                         *)
(* What a session does is module TcpSession; here it may end at any time,  *)
(* and a terminated one ends (TcpSession!SessionEnds).                     *)
(***************************************************************************)
EXTENDS Integers, Sequences, FiniteSets, SequencesExt

CONSTANTS
    Callers,           \* threads that call HevSocks5Tunnel.start and stop
    Slots,             \* bound: session tasks that may exist at a time
    MaxSessions,       \* max-session-count, 0: no limit
    MaxStarts          \* bound: tunnel threads ever started

ASSUME CountsAssumption == MaxSessions \in Nat /\ MaxStarts \in Nat

VARIABLES
    caller,            \* caller[c]: see CallerPcs
    target,            \* target[c]: the thread whose event_fds[1] the stop of c
                       \*   has read, then the thread it joins; 0 none
    back,              \* back[c]: where stop() returns to
    asked,             \* asked[c]: reject_quic as the start of c asks for it
    wanted,            \* reject_quic as the start of the last thread asked for it
    races,             \* history: the windows that calls have met in, see Windows
    joined,            \* history: the threads that pthread_join was called for
    tunnelRunning,     \* tunnel_running
    handle,            \* tunnel_thread: number of the last thread, 0 none
    config,            \* config_content: number of the start it is for, 0 NULL
    tunFd,             \* tun_fd_global: number of the start it is for, 0 none
    thread,            \* thread[t]: see ThreadPcs
    rejectQuic,        \* reject_quic
    eventFd,           \* event_fds: number of the thread that opened it, 0 closed
    event,             \* event[t]: whether a byte waits in the socket pair of t
    run,               \* run
    tasks,             \* tasks[x]: state of the event, io and timer task
    joining,           \* what the event task waits for
    sessions,          \* session_set
    doomed             \* sessions that have been terminated

callVars == <<caller, target, back, asked, wanted, races, joined>>
jniVars == <<tunnelRunning, handle, config, tunFd>>
taskVars == <<run, tasks, joining, sessions, doomed>>
threadVars == <<thread, rejectQuic, eventFd, event, taskVars>>
vars == <<callVars, jniVars, thread, rejectQuic, eventFd, event, taskVars>>

Threads == 1 .. MaxStarts

CallerPcs == {"idle", "startStop", "startFlags",
              "nativeStart", "setConfig", "setRunning", "create",
              "waitFd", "write", "join", "joining", "free", "clear", "resetFd"}

\* What overlapping calls can do to each other, at the step where it happens:
\*   "setting"  a start sets reject_quic under a thread, or over another start;
\*   "start"    a start goes on although another has passed the same test;
\*   "join"     a thread is joined twice, which POSIX leaves undefined;
\*   "late"     the tail of a stop undoes the variables of a later start.
Windows == {"setting", "start", "join", "late"}

\* Set-up in the order of main_inner and hev_socks5_tunnel_init, then running,
\* tear-down, and the last assignment of tunnel_thread_func.
ThreadPcs == {"none", "config", "system", "tunnel", "event", "tasks",
              "running", "fini", "exit", "ended"}

Tasks == {"event", "io", "timer"}

\* "run": on the run queue; "wait": until woken; "sleep": until woken or the
\* timer fires.
TaskStates == {"none", "run", "wait", "sleep", "stopped"}

-----------------------------------------------------------------------------
Init ==
    /\ caller = [c \in Callers |-> "idle"]
    /\ target = [c \in Callers |-> 0]
    /\ back = [c \in Callers |-> "idle"]
    /\ asked = [c \in Callers |-> TRUE] /\ wanted = TRUE
    /\ races = {} /\ joined = {}
    /\ tunnelRunning = FALSE /\ handle = 0 /\ config = 0 /\ tunFd = 0
    /\ thread = [t \in Threads |-> "none"]
    /\ rejectQuic = TRUE
    /\ eventFd = 0
    /\ event = [t \in Threads |-> FALSE]
    /\ run = FALSE
    /\ tasks = [x \in Tasks |-> "none"]
    /\ joining = "none"
    /\ sessions = <<>>
    /\ doomed = {}

-----------------------------------------------------------------------------
(***************************************************************************)
(* HevSocks5Tunnel.start.                                                  *)
(***************************************************************************)

Goes(c, pc) == caller' = [caller EXCEPT ![c] = pc]

\* start() returns; its argument is gone.
StartReturns(c) == Goes(c, "idle") /\ asked' = [asked EXCEPT ![c] = TRUE]

\* Another caller is in the middle of one of these steps.
Another(c, pcs) == \E d \in Callers \ {c} : caller[d] \in pcs

\* The calls meet in window w if cond.
Meets(w, cond) == races' = IF cond THEN races \cup {w} ELSE races

\* Between its start and the reset in hev_socks5_tunnel_fini.
Busy(t) == thread[t] \notin {"none", "exit", "ended"}

\* A call of start(), up to its test of isRunning().
Start(c) ==
    /\ caller[c] = "idle" /\ handle < MaxStarts
    /\ Goes(c, IF tunnelRunning THEN "startStop" ELSE "startFlags")
    /\ UNCHANGED <<target, back, asked, wanted, races, joined, jniVars, threadVars>>

\* The tunnel runs: stop() first.
StartStops(c) ==
    /\ caller[c] = "startStop"
    /\ Goes(c, IF tunnelRunning THEN "waitFd" ELSE "startFlags")
    /\ back' = [back EXCEPT ![c] = "startFlags"]
    /\ UNCHANGED <<target, asked, wanted, races, joined, jniVars, threadVars>>

\* nativeSetRejectQuic.
SetRejectQuic(c) ==
    /\ caller[c] = "startFlags"
    /\ \E on \in BOOLEAN : rejectQuic' = on /\ asked' = [asked EXCEPT ![c] = on]
    /\ Goes(c, "nativeStart")
    /\ Meets("setting", \/ \E t \in Threads : Busy(t)
                        \/ Another(c, {"nativeStart", "setConfig", "setRunning", "create"}))
    /\ UNCHANGED <<target, back, wanted, joined, jniVars, thread, eventFd, event, taskVars>>

\* nativeStart up to its test of tunnel_running, and the configuration as a C
\* string.
NativeStart(c) ==
    /\ caller[c] = "nativeStart"
    /\ \/ StartReturns(c)
       \/ ~tunnelRunning /\ Goes(c, "setConfig") /\ UNCHANGED asked
    /\ UNCHANGED <<target, back, wanted, races, joined, jniVars, threadVars>>

\* The copy of the configuration, without which the start fails, and tun_fd.
SetConfig(c) ==
    /\ caller[c] = "setConfig" /\ handle < MaxStarts
    /\ \/ /\ config' = handle + 1 /\ tunFd' = handle + 1
          /\ Goes(c, "setRunning") /\ UNCHANGED asked
       \/ config' = 0 /\ UNCHANGED tunFd /\ StartReturns(c)
    /\ Meets("start", tunnelRunning \/ Another(c, {"setRunning"}))
    /\ UNCHANGED <<target, back, wanted, joined, tunnelRunning, handle, threadVars>>

SetRunning(c) ==
    /\ caller[c] = "setRunning"
    /\ tunnelRunning' = TRUE
    /\ Goes(c, "create")
    /\ UNCHANGED <<target, back, asked, wanted, races, joined, handle, config, tunFd,
                   threadVars>>

\* pthread_create, and what follows when it fails.
CreateThread(c) ==
    /\ caller[c] = "create" /\ handle < MaxStarts
    /\ \/ /\ handle' = handle + 1
          /\ thread' = [thread EXCEPT ![handle + 1] = "config"]
          /\ wanted' = asked[c]
          /\ UNCHANGED <<tunnelRunning, config>>
       \/ /\ tunnelRunning' = FALSE
          /\ config' = 0
          /\ UNCHANGED <<handle, thread, wanted>>
    /\ StartReturns(c)
    /\ UNCHANGED <<target, back, races, joined, tunFd, rejectQuic, eventFd,
                   event, taskVars>>

-----------------------------------------------------------------------------
(***************************************************************************)
(* HevSocks5Tunnel.stop.                                                   *)
(***************************************************************************)

\* A call of stop(), up to nativeStop's test of tunnel_running.
NativeStop(c) ==
    /\ caller[c] = "idle"
    /\ tunnelRunning
    /\ Goes(c, "waitFd")
    /\ back' = [back EXCEPT ![c] = "idle"]
    /\ UNCHANGED <<target, asked, wanted, races, joined, jniVars, threadVars>>

\* "Wait for async initialization": read event_fds[1] until it is open.
WaitFd(c) ==
    /\ caller[c] = "waitFd"
    /\ eventFd # 0
    /\ target' = [target EXCEPT ![c] = eventFd]
    /\ Goes(c, "write")
    /\ UNCHANGED <<back, asked, wanted, races, joined, jniVars, threadVars>>

\* The byte that ends the event task's read.  Written to a closed descriptor it
\* reaches nobody, or a later tunnel whose socket pair got the same number.
WriteEvent(c) ==
    /\ caller[c] = "write"
    /\ \/ eventFd # 0 /\ event' = [event EXCEPT ![eventFd] = TRUE]
       \/ eventFd # target[c] /\ UNCHANGED event
    /\ Goes(c, "join")
    /\ UNCHANGED <<target, back, asked, wanted, races, joined, jniVars, thread,
                   rejectQuic, eventFd, taskVars>>

\* The call of pthread_join.  For a thread that somebody else joins it returns
\* at once.
Join(c) ==
    /\ caller[c] = "join"
    /\ target' = [target EXCEPT ![c] = handle]
    /\ joined' = joined \cup {handle}
    /\ Goes(c, IF handle \in joined THEN "free" ELSE "joining")
    /\ Meets("join", handle \in joined)
    /\ UNCHANGED <<back, asked, wanted, jniVars, threadVars>>

JoinReturnedMutant(c) ==                          \* the thread is not waited for
    /\ caller[c] = "joining"
    /\ Goes(c, "free")
    /\ UNCHANGED <<target, back, asked, wanted, races, joined, jniVars, threadVars>>

\* pthread_join returns.
JoinReturned(c) ==
    /\ caller[c] = "joining"
    /\ target[c] # 0 => thread[target[c]] = "ended"
    /\ Goes(c, "free")
    /\ UNCHANGED <<target, back, asked, wanted, races, joined, jniVars, threadVars>>

\* The rest of nativeStop, for whichever start the variables are by now.
FreeConfig(c) ==
    /\ caller[c] = "free"
    /\ config' = 0
    /\ Goes(c, "clear")
    /\ Meets("late", config \notin {0, target[c]})
    /\ UNCHANGED <<target, back, asked, wanted, joined, tunnelRunning, handle, tunFd,
                   threadVars>>

ClearRunning(c) ==
    /\ caller[c] = "clear"
    /\ tunnelRunning' = FALSE
    /\ Goes(c, "resetFd")
    /\ Meets("late", (tunnelRunning /\ handle # target[c]) \/ Another(c, {"create"}))
    /\ UNCHANGED <<target, back, asked, wanted, joined, handle, config, tunFd, threadVars>>

\* The polling in Kotlin that follows changes nothing.
ResetFd(c) ==
    /\ caller[c] = "resetFd"
    /\ tunFd' = 0
    /\ target' = [target EXCEPT ![c] = 0]
    /\ Goes(c, back[c])
    /\ Meets("late", tunFd \notin {0, target[c]})
    /\ UNCHANGED <<back, asked, wanted, joined, tunnelRunning, handle, config, threadVars>>

-----------------------------------------------------------------------------
(***************************************************************************)
(* The thread: set-up, running, tear-down.                                 *)
(***************************************************************************)

ThreadGoes(t, from, to) ==
    /\ thread[t] = from
    /\ thread' = [thread EXCEPT ![t] = to]

\* hev_config_init_from_str, the loggers and the task system.  A failure
\* returns from main_inner without any clean-up.
InitSystem(t) ==
    /\ \/ ThreadGoes(t, "config", "system")
       \/ ThreadGoes(t, "config", "exit")
       \/ ThreadGoes(t, "system", "tunnel")
       \/ ThreadGoes(t, "system", "exit")
    /\ UNCHANGED <<callVars, jniVars, rejectQuic, eventFd, event, taskVars>>

TunnelInitMutant(t) ==                           \* the setting is reset here
    /\ ThreadGoes(t, "tunnel", "event") \/ ThreadGoes(t, "tunnel", "fini")
    /\ rejectQuic' = TRUE
    /\ UNCHANGED <<callVars, jniVars, eventFd, event, taskVars>>

\* tunnel_init, with its ioctl on the descriptor of the service, and
\* gateway_init.
TunnelInit(t) ==
    /\ ThreadGoes(t, "tunnel", "event") \/ ThreadGoes(t, "tunnel", "fini")
    /\ UNCHANGED <<callVars, jniVars, rejectQuic, eventFd, event, taskVars>>

\* event_task_init: the socket pair is open from here on.  Without the socket
\* pair, or without a task for it, the rest is undone.
EventTaskInit(t) ==
    /\ \/ ThreadGoes(t, "event", "fini") /\ UNCHANGED eventFd
       \/ ThreadGoes(t, "event", "fini") /\ eventFd' = t
       \/ ThreadGoes(t, "event", "tasks") /\ eventFd' = t
    /\ UNCHANGED <<callVars, jniVars, rejectQuic, event, taskVars>>

\* The other two tasks, and hev_socks5_tunnel_run.
TasksInit(t) ==
    /\ \/ /\ ThreadGoes(t, "tasks", "running")
          /\ run' = TRUE
          /\ tasks' = [x \in Tasks |-> "run"]
          /\ joining' = "none"
       \/ ThreadGoes(t, "tasks", "fini") /\ UNCHANGED <<run, tasks, joining>>
    /\ UNCHANGED <<callVars, jniVars, rejectQuic, eventFd, event, sessions, doomed>>

\* hev_task_system_run returns when no task is left.
SystemReturns(t) ==
    /\ ThreadGoes(t, "running", "fini")
    /\ \A x \in Tasks : tasks[x] = "stopped"
    /\ sessions = <<>>
    /\ UNCHANGED <<callVars, jniVars, rejectQuic, eventFd, event, taskVars>>

\* hev_socks5_tunnel_fini.
Fini(t) ==
    /\ ThreadGoes(t, "fini", "exit")
    /\ tasks' = [x \in Tasks |-> "none"]
    /\ eventFd' = 0
    /\ rejectQuic' = TRUE
    /\ UNCHANGED <<callVars, jniVars, event, run, joining, sessions, doomed>>

\* The end of tunnel_thread_func.
Exit(t) ==
    /\ ThreadGoes(t, "exit", "ended")
    /\ tunnelRunning' = FALSE
    /\ UNCHANGED <<callVars, handle, config, tunFd, rejectQuic, eventFd, event, taskVars>>

-----------------------------------------------------------------------------
(***************************************************************************)
(* The tasks.                                                              *)
(***************************************************************************)

Woken(x, ts) ==
    IF ts[x] \in {"wait", "sleep"} THEN [ts EXCEPT ![x] = "run"] ELSE ts

EventReadMutant(t) ==                            \* the last session is skipped
    /\ thread[t] = "running" /\ tasks["event"] = "run" /\ joining = "none"
    /\ event[t]
    /\ event' = [event EXCEPT ![t] = FALSE]
    /\ run' = FALSE
    /\ doomed' = IF sessions = <<>> THEN {} ELSE ToSet(Front(sessions))
    /\ joining' = "io"
    /\ tasks' = Woken("io", [tasks EXCEPT !["event"] = "wait"])
    /\ UNCHANGED <<callVars, jniVars, thread, rejectQuic, eventFd, sessions>>

\* event_task_entry up to its first join: every session is told to end.
EventRead(t) ==
    /\ thread[t] = "running" /\ tasks["event"] = "run" /\ joining = "none"
    /\ event[t]
    /\ event' = [event EXCEPT ![t] = FALSE]
    /\ run' = FALSE
    /\ doomed' = ToSet(sessions)
    /\ joining' = "io"
    /\ tasks' = Woken("io", [tasks EXCEPT !["event"] = "wait"])
    /\ UNCHANGED <<callVars, jniVars, thread, rejectQuic, eventFd, sessions>>

EventJoinsMutant(t) ==                           \* join does not wake the task
    /\ thread[t] = "running" /\ joining \in {"io", "timer"}
    /\ tasks[joining] = "stopped"
    /\ IF joining = "io"
         THEN joining' = "timer" /\ UNCHANGED tasks
         ELSE joining' = "none" /\ tasks' = [tasks EXCEPT !["event"] = "stopped"]
    /\ UNCHANGED <<callVars, jniVars, thread, rejectQuic, eventFd, event, run,
                   sessions, doomed>>

\* hev_task_join returns once the task it waits for has stopped; the next join
\* wakes its task first, so that it sees that run is 0.
EventJoins(t) ==
    /\ thread[t] = "running" /\ joining \in {"io", "timer"}
    /\ tasks[joining] = "stopped"
    /\ IF joining = "io"
         THEN joining' = "timer" /\ tasks' = Woken("timer", tasks)
         ELSE joining' = "none" /\ tasks' = [tasks EXCEPT !["event"] = "stopped"]
    /\ UNCHANGED <<callVars, jniVars, thread, rejectQuic, eventFd, event, run,
                   sessions, doomed>>

\* lwip_io_task_entry: hev_tunnel_read found nothing and waits, or its yielder
\* saw that run is 0 and the loop ends.
IoWaits(t) ==
    /\ thread[t] = "running" /\ tasks["io"] = "run"
    /\ tasks' = [tasks EXCEPT !["io"] = IF run THEN "wait" ELSE "stopped"]
    /\ UNCHANGED <<callVars, jniVars, thread, rejectQuic, eventFd, event, run,
                   joining, sessions, doomed>>

\* hev_socks5_tunnel_insert_session: at the limit the head of the list, the
\* session that has been idle longest, is terminated.
InsertSession(s) ==
    /\ sessions' = Append(sessions, s)
    /\ doomed' = IF MaxSessions = 0 \/ Len(sessions') < MaxSessions
                   THEN doomed ELSE doomed \cup {Head(sessions')}

IoAcceptsMutant(t, s) ==                         \* the timer task is not woken
    /\ thread[t] = "running" /\ tasks["io"] \in {"run", "wait"} /\ run
    /\ s \notin ToSet(sessions)
    /\ InsertSession(s)
    /\ tasks' = [tasks EXCEPT !["io"] = "run"]
    /\ UNCHANGED <<callVars, jniVars, thread, rejectQuic, eventFd, event, run, joining>>

\* A packet arrives and its handler starts a session (tcp_accept_handler,
\* udp_recv_handler).  Packets that start none change nothing here.
IoAccepts(t, s) ==
    /\ thread[t] = "running" /\ tasks["io"] \in {"run", "wait"} /\ run
    /\ s \notin ToSet(sessions)
    /\ InsertSession(s)
    /\ tasks' = Woken("timer", [tasks EXCEPT !["io"] = "run"])
    /\ UNCHANGED <<callVars, jniVars, thread, rejectQuic, eventFd, event, run, joining>>

\* lwip_timer_task_entry: one round.  Without sessions it waits to be woken.
TimerRound(t) ==
    /\ thread[t] = "running" /\ tasks["timer"] = "run"
    /\ tasks' = [tasks EXCEPT !["timer"] =
                   IF ~run THEN "stopped"
                   ELSE IF sessions # <<>> THEN "sleep" ELSE "wait"]
    /\ UNCHANGED <<callVars, jniVars, thread, rejectQuic, eventFd, event, run,
                   joining, sessions, doomed>>

TimerFires(t) ==
    /\ thread[t] = "running" /\ tasks["timer"] = "sleep"
    /\ tasks' = [tasks EXCEPT !["timer"] = "run"]
    /\ UNCHANGED <<callVars, jniVars, thread, rejectQuic, eventFd, event, run,
                   joining, sessions, doomed>>

\* Where session s is in the list.
At(s) == {i \in DOMAIN sessions : sessions[i] = s}

\* hev_socks5_tunnel_update_session, by the yielder of an active session.
SessionActive(t, s) ==
    /\ thread[t] = "running"
    /\ MaxSessions # 0
    /\ \E i \in At(s) : sessions' = Append(RemoveAt(sessions, i), s)
    /\ UNCHANGED <<callVars, jniVars, thread, rejectQuic, eventFd, event, run, tasks,
                   joining, doomed>>

\* The end of hev_socks5_session_task_entry.
SessionEnds(t, s) ==
    /\ thread[t] = "running"
    /\ \E i \in At(s) : sessions' = RemoveAt(sessions, i)
    /\ doomed' = doomed \ {s}
    /\ UNCHANGED <<callVars, jniVars, thread, rejectQuic, eventFd, event, run, tasks,
                   joining>>

-----------------------------------------------------------------------------
CallerStep(c) ==
    \/ StartStops(c) \/ SetRejectQuic(c)
    \/ NativeStart(c) \/ SetConfig(c) \/ SetRunning(c) \/ CreateThread(c)
    \/ WaitFd(c) \/ WriteEvent(c) \/ Join(c) \/ JoinReturned(c)
    \/ FreeConfig(c) \/ ClearRunning(c) \/ ResetFd(c)

ThreadStep(t) ==
    \/ InitSystem(t) \/ TunnelInit(t) \/ EventTaskInit(t) \/ TasksInit(t)
    \/ SystemReturns(t) \/ Fini(t) \/ Exit(t)
    \/ EventRead(t) \/ EventJoins(t) \/ IoWaits(t)
    \/ TimerRound(t) \/ TimerFires(t)

Next ==
    \/ \E c \in Callers : Start(c) \/ NativeStop(c) \/ CallerStep(c)
    \/ \E t \in Threads : ThreadStep(t)
    \/ \E t \in Threads, s \in Slots :
         IoAccepts(t, s) \/ SessionActive(t, s) \/ SessionEnds(t, s)

\* The scheduler of the system runs the callers and the thread; that of the
\* task system runs every runnable task; timers fire; a terminated session
\* ends.  Nobody has to call start or stop, and no packet has to come.
Fairness ==
    /\ \A c \in Callers : WF_vars(CallerStep(c))
    /\ \A t \in Threads :
         /\ WF_vars(InitSystem(t) \/ TunnelInit(t) \/ EventTaskInit(t) \/ TasksInit(t)
                      \/ SystemReturns(t) \/ Fini(t) \/ Exit(t))
         /\ WF_vars(EventRead(t) \/ EventJoins(t))
         /\ WF_vars(IoWaits(t))
         /\ WF_vars(TimerRound(t) \/ TimerFires(t))
         /\ \A s \in Slots : WF_vars(SessionEnds(t, s) /\ s \in doomed)

Spec == Init /\ [][Next]_vars /\ Fairness

-----------------------------------------------------------------------------
TypeOK ==
    /\ caller \in [Callers -> CallerPcs]
    /\ target \in [Callers -> 0 .. MaxStarts]
    /\ back \in [Callers -> {"idle", "startFlags"}]
    /\ asked \in [Callers -> BOOLEAN]
    /\ races \subseteq Windows
    /\ thread \in [Threads -> ThreadPcs]
    /\ {wanted, tunnelRunning, rejectQuic, run} \subseteq BOOLEAN
    /\ {handle, config, tunFd, eventFd} \cup joined \subseteq 0 .. MaxStarts
    /\ event \in [Threads -> BOOLEAN]
    /\ tasks \in [Tasks -> TaskStates]
    /\ joining \in {"none", "io", "timer"}
    /\ sessions \in Seq(Slots)
    /\ doomed \subseteq ToSet(sessions)

Alive(t) == thread[t] \notin {"none", "ended"}

\* No calls have met in a window that damages the tunnel itself.
Orderly == races \subseteq {"setting"}

\* However many threads call start and stop at the same time, there are three
\* ways only to damage the tunnel: two starts that both see it stopped, two joins
\* of the same thread, and the tail of nativeStop after a later start.  Without
\* these the static variables belong to one thread at a time: while one is
\* anywhere between its start and its last assignment no other exists, and the
\* configuration and the descriptor it is about to read are its own.
OneThread ==
    /\ TypeOK
    /\ Orderly =>
         /\ \A t, u \in Threads : Alive(t) /\ Alive(u) => t = u
         /\ \A t \in Threads : thread[t] = "config" => config = t /\ tunFd = t

\* If, besides, no start has changed the setting under a thread or over another
\* start, a running tunnel works with the QUIC setting of its own start: the
\* reset in hev_socks5_tunnel_fini of the tunnel before it never comes after it.
SettingApplies ==
    races = {} => \A t \in Threads : thread[t] = "running" => rejectQuic = wanted

\* While there are sessions the TCP timers run: the timer task is not parked
\* until the next session.
TimersRun ==
    Orderly /\ sessions # <<>> /\ run => tasks["timer"] \in {"run", "sleep"}

\* Once the stop has been seen, every session that is left has been told to end,
\* whatever packets arrived meanwhile, and no task of the tunnel is parked where
\* nothing wakes it.
StopReachesAll ==
    Orderly =>
      /\ ~run => doomed = ToSet(sessions)
      /\ joining = "io" => tasks["io"] \in {"run", "stopped"}
      /\ joining = "timer" => tasks["timer"] \in {"run", "stopped"}

\* A stop whose byte has reached a tunnel comes to an end: the thread ends and the
\* join returns, whatever sessions there are and whoever else calls.
JoinReturns ==
    \A t \in Threads :
      event[t] ~> \/ /\ thread[t] = "ended"
                     /\ \A c \in Callers : caller[c] = "joining" => target[c] # t
                  \/ ~Orderly

\* "Blocks until the tunnel has stopped or timeout is reached": every stop
\* returns.
StopReturns == \A c \in Callers : caller[c] = "waitFd" ~> caller[c] = back[c]
=============================================================================
